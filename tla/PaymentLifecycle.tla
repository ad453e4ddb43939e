-------------------------- MODULE PaymentLifecycle --------------------------
(***************************************************************************)
(* The bitcoin payment worker (apps/worker/src) and the rows it shares     *)
(* with the web app: an invoice is created, its transactions are seen in   *)
(* the mempool and accumulated, blocks confirm them, a periodic job        *)
(* expires what was not paid, and every transition of interest schedules a *)
(* notification.                                                           *)
(*                                                                         *)
(* The worker is one process with three kinds of activity that interleave  *)
(* at their awaits: the rawtx loop (rx), the rawblock loop (bx), the boot  *)
(* sequence and the 30-second timer callbacks (job). Each action is the code*)
(* between two awaits that another activity can slip into; a database      *)
(* transaction is one action. scheduleNotification is fired and forgotten: *)
(* here it only leaves a trace, its own steps are in Notifications.        *)
(*                                                                         *)
(* The chain, the mempool and ZMQ are the environment. Every payment has   *)
(* an address of its own, so addresses are identified with payments.       *)
(***************************************************************************)
EXTENDS PaymentStatus, Integers, Sequences, FiniteSets

CONSTANTS
  Payments,     \* the invoices
  Txids,        \* bitcoin transactions
  Outputs,      \* their outputs to our addresses: the (txid, vout) pairs
  TxOf,         \* TxOf[o]: the transaction of output o
  PaidTo,       \* PaidTo[o]: the payment whose address o pays
  Sats,         \* Sats[o]: the amount of o
  Expected,     \* Expected[p]: btc_amount_sats
  Required,     \* btc_required_confirmations
  Lock,         \* the rate lock: an invoice's life
  Ticks,        \* timer callbacks that may be under way at once
  None,
  MaxTime, MaxBlocks, MaxMishaps   \* bounds

ASSUME ConstantsAssumption ==
  /\ IsFiniteSet(Outputs)
  /\ TxOf \in [Outputs -> Txids]
  /\ PaidTo \in [Outputs -> Payments]
  /\ Sats \in [Outputs -> Nat]
  /\ Expected \in [Payments -> Nat \ {0}]      \* validateSats refuses 0
  /\ Required \in Nat \ {0}
  /\ Lock \in Nat \ {0}
  /\ "boot" \notin Ticks
  /\ None \notin Payments \cup Txids \cup Nat

VARIABLES
  \* table payments
  status, expires, received, detected, confs,
  \* table payment_btc_txs: the outputs with a row, their detected_at and confirmations
  recorded, at, conf,
  \* the scheduleNotification calls made (fire and forget: see Notifications)
  calls,
  \* the worker's memory
  watched,      \* the watchlist
  lastBest,     \* lastBestHash
  rx,           \* handleRawTxMessage: the call under way
  bx,           \* handleRawBlockMessage: the call under way
  job,          \* the boot sequence and the timer callbacks
  \* the environment
  now, published, chain, mined, zmqTx, zmqBlock,
  faults, crashes, reorgs

payVars == <<status, expires, received, detected, confs>>
rowVars == <<recorded, at, conf>>
chainVars == <<published, chain, mined>>
zmqVars == <<zmqTx, zmqBlock>>
countVars == <<faults, crashes, reorgs>>
vars == <<payVars, rowVars, calls, watched, lastBest, rx, bx, job,
          now, chainVars, zmqVars, countVars>>

Absent == "ABSENT"              \* no row yet
Events == {"SEEN_IN_MEMPOOL", "CONFIRMED", "EXPIRED"}
Jobs == Ticks \cup {"boot"}

\* The satoshis of a set of outputs, counted one by one.
Coins(S) == UNION {{o} \X (1..Sats[o]) : o \in S}
Total(S) == Cardinality(Coins(S))

OutputsTo(p, S) == {o \in S : PaidTo[o] = p}

RxIdle == [pc |-> "idle", tx |-> None, seenAt |-> 0, todo |-> {},
           pay |-> None, stat |-> Absent, det |-> None]
BxIdle == [pc |-> "idle", txs |-> {}, stat |-> [p \in Payments |-> Absent],
           seen |-> {}, conf |-> [o \in Outputs |-> 0], left |-> {}, cur |-> None]

\* The subscribers start once the boot sequence is over.
Up == job["boot"].pc = "idle"

\* Blocks of the best chain, oldest first: an identity (its hash) and its transactions.
Tip == chain[Len(chain)]
TxsOf(c) == UNION {c[i].txs : i \in DOMAIN c}
Depth(t) == IF \E i \in DOMAIN chain : t \in chain[i].txs
            THEN Len(chain) - (CHOOSE i \in DOMAIN chain : t \in chain[i].txs) + 1
            ELSE 0

\* What goes wrong is counted, and bounded by MaxMishaps.
Mishaps == faults + crashes + reorgs

Init ==
  /\ status = [p \in Payments |-> Absent]
  /\ expires = [p \in Payments |-> 0]
  /\ received = [p \in Payments |-> 0]
  /\ detected = [p \in Payments |-> None]
  /\ confs = [p \in Payments |-> 0]
  /\ recorded = {}
  /\ at = [o \in Outputs |-> 0]
  /\ conf = [o \in Outputs |-> 0]
  /\ calls = {}
  /\ watched = {}
  /\ lastBest = None
  /\ rx = RxIdle
  /\ bx = BxIdle
  /\ job = [k \in Jobs |-> [pc |-> IF k = "boot" THEN "find" ELSE "idle", ids |-> {}]]
  /\ now = 0
  /\ published = {} /\ chain = <<>> /\ mined = 0
  /\ zmqTx = {} /\ zmqBlock = 0
  /\ faults = 0 /\ crashes = 0 /\ reorgs = 0

-----------------------------------------------------------------------------
(* The environment *)

AdvanceClock ==
  /\ now < MaxTime
  /\ now' = now + 1
  /\ UNCHANGED <<payVars, rowVars, calls, watched, lastBest, rx, bx, job,
                 chainVars, zmqVars, countVars>>

\* POST .../start commits a new invoice (the web app; see InvoiceStart).
CreateInvoice(p) ==
  /\ status[p] = Absent
  /\ status' = [status EXCEPT ![p] = "AWAITING_PAYMENT"]
  /\ expires' = [expires EXCEPT ![p] = now + Lock]
  /\ UNCHANGED <<received, detected, confs, rowVars, calls, watched, lastBest,
                 rx, bx, job, now, chainVars, zmqVars, countVars>>

\* A payer who was shown the invoices broadcasts t; ZMQ carries it to a
\* subscribed worker.
Broadcast(t) ==
  /\ t \notin published
  /\ \A o \in Outputs : TxOf[o] = t => status[PaidTo[o]] # Absent
  /\ published' = published \cup {t}
  /\ zmqTx' = IF Up THEN zmqTx \cup {t} ELSE zmqTx
  /\ UNCHANGED <<payVars, rowVars, calls, watched, lastBest, rx, bx, job, now,
                 chain, mined, zmqBlock, countVars>>

\* A block extends the chain. bitcoind publishes rawblock, and rawtx again for
\* every transaction of the block.
MineBlock(S) ==
  /\ mined < MaxBlocks
  /\ S \subseteq published \ TxsOf(chain)
  /\ mined' = mined + 1
  /\ chain' = Append(chain, [id |-> mined + 1, txs |-> S])
  /\ zmqBlock' = IF Up THEN zmqBlock + 1 ELSE zmqBlock
  /\ zmqTx' = IF Up THEN zmqTx \cup S ELSE zmqTx
  /\ UNCHANGED <<payVars, rowVars, calls, watched, lastBest, rx, bx, job, now,
                 published, countVars>>

\* A heavier fork replaces the tip by two blocks.
Reorg(S1, S2) ==
  /\ Mishaps < MaxMishaps
  /\ mined + 1 < MaxBlocks
  /\ chain # <<>>
  /\ LET base == SubSeq(chain, 1, Len(chain) - 1)
     IN /\ S1 \cup S2 \subseteq published \ TxsOf(base)
        /\ S1 \cap S2 = {}
        /\ chain' = base \o << [id |-> mined + 1, txs |-> S1], [id |-> mined + 2, txs |-> S2] >>
  /\ mined' = mined + 2
  /\ zmqBlock' = IF Up THEN zmqBlock + 2 ELSE zmqBlock
  /\ zmqTx' = IF Up THEN zmqTx \cup S1 \cup S2 ELSE zmqTx
  /\ reorgs' = reorgs + 1
  /\ UNCHANGED <<payVars, rowVars, calls, watched, lastBest, rx, bx, job, now,
                 published, faults, crashes>>

\* PUB/SUB drops what it cannot deliver. A failing getbestblockhash, which makes
\* handleRawBlockMessage throw before it changed anything, has the same effect.
LoseMessage ==
  /\ Mishaps < MaxMishaps
  /\ faults' = faults + 1
  /\ \/ \E t \in zmqTx : zmqTx' = zmqTx \ {t} /\ UNCHANGED zmqBlock
     \/ zmqBlock > 0 /\ zmqBlock' = zmqBlock - 1 /\ UNCHANGED zmqTx
  /\ UNCHANGED <<payVars, rowVars, calls, watched, lastBest, rx, bx, job, now,
                 chainVars, crashes, reorgs>>

-----------------------------------------------------------------------------
(* handleRawTxMessage; the loop awaits one message before it takes the next *)

\* Mutant: the deadline is forgotten.
CreditableForEver(p, time) == status[p] \in ActiveStatuses

\* The watchlist's and the lookup's notion of a payment that may still be credited.
Creditable(p, time) ==
  \/ status[p] = "AWAITING_PAYMENT" /\ (expires[p] = NoDeadline \/ Open(expires[p], time))
  \/ status[p] \in PostThreshold

RxAfter(p) == IF rx.todo = {p} THEN RxIdle
              ELSE [rx EXCEPT !.pc = "lookup", !.todo = @ \ {p}, !.pay = None,
                              !.stat = Absent, !.det = None]

\* Decoding, the watchlist filter, seenAt and the grouping by address. Two
\* messages with new rows are never handled within one clock unit (several round
\* trips to the database lie between them), so detected_at orders the rows.
RawTxReceive(t) ==
  LET hits == {PaidTo[o] : o \in {h \in Outputs : TxOf[h] = t /\ PaidTo[h] \in watched}}
  IN /\ Up /\ rx.pc = "idle"
     /\ t \in zmqTx
     /\ (\E o \in Outputs \ recorded : TxOf[o] = t /\ PaidTo[o] \in hits)
          => \A o \in recorded : at[o] < now
     /\ zmqTx' = zmqTx \ {t}
     /\ rx' = IF hits = {} THEN RxIdle
              ELSE [RxIdle EXCEPT !.pc = "lookup", !.tx = t, !.seenAt = now, !.todo = hits]
     /\ UNCHANGED <<payVars, rowVars, calls, watched, lastBest, bx, job, now,
                    chainVars, zmqBlock, countVars>>

\* payments.findFirst: what it read is used after the await.
RawTxLookup(p) ==
  /\ rx.pc = "lookup"
  /\ p \in rx.todo
  /\ rx' = IF Creditable(p, rx.seenAt)
           THEN [rx EXCEPT !.pc = "commit", !.pay = p, !.stat = status[p], !.det = detected[p]]
           ELSE RxAfter(p)
  /\ UNCHANGED <<payVars, rowVars, calls, watched, lastBest, bx, job, now,
                 chainVars, zmqVars, countVars>>

\* Mutant: the upsert overwrites a row that exists.
NewRowsOverwritten(p) == {o \in Outputs : TxOf[o] = rx.tx /\ PaidTo[o] = p}

\* The outputs the upsert inserts: a row that exists is left as it is.
NewRows(p) == {o \in Outputs : TxOf[o] = rx.tx /\ PaidTo[o] = p} \ recorded

\* Mutant: every payment that reaches its amount is moved to SEEN_IN_MEMPOOL.
LookedUpActive == rx.stat \in ActiveStatuses

\* Only a payment that was AWAITING_PAYMENT when it was looked up changes its status.
LookedUpAwaiting == rx.stat = "AWAITING_PAYMENT"

\* The transaction: accumulatePaymentTx for every output, then the status
\* transition decided by the status the lookup read, then the notification.
RawTxCommit ==
  LET p == rx.pay
      new == NewRows(p)
      total == Total(OutputsTo(p, recorded \cup new))
      reached == total >= Expected[p]
  IN /\ rx.pc = "commit"
     /\ recorded' = recorded \cup new
     /\ at' = [o \in Outputs |-> IF o \in new THEN rx.seenAt ELSE at[o]]
     /\ conf' = [o \in Outputs |-> IF o \in new THEN 0 ELSE conf[o]]
     /\ received' = [received EXCEPT ![p] = total]
     /\ status' = IF LookedUpAwaiting /\ reached
                  THEN [status EXCEPT ![p] = "SEEN_IN_MEMPOOL"] ELSE status
     /\ confs' = IF LookedUpAwaiting /\ reached THEN [confs EXCEPT ![p] = 0] ELSE confs
     /\ detected' = IF LookedUpAwaiting /\ (reached \/ rx.det = None)
                    THEN [detected EXCEPT ![p] = IF rx.det = None THEN rx.seenAt ELSE rx.det]
                    ELSE detected
     /\ calls' = IF LookedUpAwaiting /\ reached THEN calls \cup {<<p, "SEEN_IN_MEMPOOL">>} ELSE calls
     /\ rx' = RxAfter(p)
     /\ UNCHANGED <<expires, watched, lastBest, bx, job, now, chainVars,
                    zmqVars, countVars>>

\* A database error leaves the handler: the transaction is rolled back and the
\* message's remaining addresses are dropped.
RawTxFails ==
  /\ rx.pc # "idle"
  /\ Mishaps < MaxMishaps
  /\ faults' = faults + 1
  /\ rx' = RxIdle
  /\ UNCHANGED <<payVars, rowVars, calls, watched, lastBest, bx, job, now,
                 chainVars, zmqVars, crashes, reorgs>>

-----------------------------------------------------------------------------
(* handleRawBlockMessage; the loop awaits one message before it takes the next *)

\* Mutant: the check of lastBestHash is missing.
NeverExamined == FALSE

TipExamined == Tip.id = lastBest

\* getbestblockhash: whatever block the message announced, only the tip is
\* looked at, and only once.
BlockMessage ==
  /\ Up /\ bx.pc = "idle"
  /\ zmqBlock > 0
  /\ zmqBlock' = zmqBlock - 1
  /\ IF TipExamined THEN UNCHANGED <<lastBest, bx>>
     ELSE /\ lastBest' = Tip.id
          /\ bx' = [BxIdle EXCEPT !.pc = "getblock", !.txs = Tip.txs]
  /\ UNCHANGED <<payVars, rowVars, calls, watched, rx, job, now, chainVars, zmqTx,
                 countVars>>

\* getblock, then findMany's query on payments.
BlockReadPayments ==
  /\ bx.pc = "getblock"
  /\ bx' = [bx EXCEPT !.pc = "children",
              !.stat = [p \in Payments |->
                          IF status[p] \in ActiveStatuses /\ OutputsTo(p, recorded) # {}
                          THEN status[p] ELSE Absent]]
  /\ UNCHANGED <<payVars, rowVars, calls, watched, lastBest, rx, job, now,
                 chainVars, zmqVars, countVars>>

\* Mutant: any block confirms any row.
NewConfOfAnyBlock(o, txs, c) == c[o] + 1

\* Mutant: a transaction that is in no block counts as conflicted.
NewConfConflicted(o, txs, c) == IF c[o] = 0 THEN IF TxOf[o] \in txs THEN 1 ELSE 0 - 1
                                ELSE c[o] + 1

\* A row of the examined block gets its first confirmation, a confirmed one another.
NewConf(o, txs, c) == IF c[o] = 0 THEN IF TxOf[o] \in txs THEN 1 ELSE 0
                      ELSE c[o] + 1

\* findMany's query on payment_btc_txs; the loop skips what does not change.
BlockReadChildren ==
  LET seen == {o \in recorded : bx.stat[PaidTo[o]] # Absent}
      left == {o \in seen : NewConf(o, bx.txs, conf) # conf[o]}
  IN /\ bx.pc = "children"
     /\ bx' = IF left = {} THEN BxIdle
              ELSE [bx EXCEPT !.pc = "apply", !.seen = seen, !.conf = conf, !.left = left]
     /\ UNCHANGED <<payVars, rowVars, calls, watched, lastBest, rx, job, now,
                    chainVars, zmqVars, countVars>>

\* One payment_btc_txs.update, and the in-memory copy; payment by payment.
BlockChild(o) ==
  /\ bx.pc = "apply"
  /\ o \in bx.left
  /\ bx.cur \in {None, PaidTo[o]}
  /\ conf' = [conf EXCEPT ![o] = NewConf(o, bx.txs, bx.conf)]
  /\ bx' = [bx EXCEPT !.conf[o] = NewConf(o, bx.txs, bx.conf),
                      !.left = @ \ {o}, !.cur = PaidTo[o]]
  /\ UNCHANGED <<payVars, recorded, at, calls, watched, lastBest, rx, job, now,
                 chainVars, zmqVars, countVars>>

\* Mutant: what comes after the amount was reached counts too.
OverpaymentsIncluded(p, S) == {C \in {S} : Total(C) >= Expected[p]}

\* completingSubsetMinConf's subset: the earliest rows that reach the amount,
\* down to the one that reaches it.
CompletingSubsets(p, S) ==
  {C \in SUBSET S :
     /\ Total(C) >= Expected[p]
     /\ \A o \in C, x \in S \ C : at[o] <= at[x]
     /\ \E last \in C : /\ \A o \in C : at[o] <= at[last]
                        /\ Total(C \ {last}) < Expected[p]}

Least(S) == CHOOSE m \in S : \A n \in S : m <= n

\* Mutant: the first confirmation is enough.
NewStatusAtOnce(m, stat) == IF m >= 1 THEN "CONFIRMED" ELSE stat

NewStatus(m, stat) == IF m >= Required THEN "CONFIRMED"
                      ELSE IF m >= 1 THEN "CONFIRMING" ELSE stat

\* The payment's own update, after its last child: skipped for the status
\* AWAITING_PAYMENT and when the rows do not reach the amount.
BlockPayment ==
  LET p == bx.cur
      rows == OutputsTo(p, bx.seen)
  IN /\ bx.pc = "apply"
     /\ p # None
     /\ OutputsTo(p, bx.left) = {}
     /\ IF bx.stat[p] = "AWAITING_PAYMENT" \/ Total(rows) < Expected[p]
        THEN UNCHANGED <<status, confs, calls>>
        ELSE \E C \in CompletingSubsets(p, rows) :
               LET m == Least({bx.conf[o] : o \in C})
                   next == NewStatus(m, bx.stat[p])
               IN IF next # bx.stat[p] \/ m > 0
                  THEN /\ status' = [status EXCEPT ![p] = next]
                       /\ confs' = [confs EXCEPT ![p] = m]
                       /\ calls' = IF next # bx.stat[p] /\ next = "CONFIRMED"
                                   THEN calls \cup {<<p, "CONFIRMED">>} ELSE calls
                  ELSE UNCHANGED <<status, confs, calls>>
     /\ bx' = IF bx.left = {} THEN BxIdle ELSE [bx EXCEPT !.cur = None]
     /\ UNCHANGED <<expires, received, detected, rowVars, watched, lastBest,
                    rx, job, now, chainVars, zmqVars, countVars>>

\* A failing getblock or query leaves the handler; lastBest keeps the new hash.
BlockFails ==
  /\ bx.pc # "idle"
  /\ Mishaps < MaxMishaps
  /\ faults' = faults + 1
  /\ bx' = BxIdle
  /\ UNCHANGED <<payVars, rowVars, calls, watched, lastBest, rx, job, now,
                 chainVars, zmqVars, crashes, reorgs>>

-----------------------------------------------------------------------------
(* The boot sequence and the timer callbacks: expire, then refresh the     *)
(* watchlist. A callback catches the failure of each part and goes on; at  *)
(* boot a failure ends the process, which is started again.                *)

\* Mutant: only the boot sequence expires payments.
TickStartsWithRefresh(k) ==
  /\ Up
  /\ k # "boot" /\ job[k].pc = "idle"
  /\ job' = [job EXCEPT ![k].pc = "refresh"]
  /\ UNCHANGED <<payVars, rowVars, calls, watched, lastBest, rx, bx, now,
                 chainVars, zmqVars, countVars>>

TickStart(k) ==
  /\ Up
  /\ k # "boot" /\ job[k].pc = "idle"
  /\ job' = [job EXCEPT ![k].pc = "find"]
  /\ UNCHANGED <<payVars, rowVars, calls, watched, lastBest, rx, bx, now,
                 chainVars, zmqVars, countVars>>

\* expireStalePayments reads the ids of the overdue payments ...
ExpireFind(k) ==
  LET due == {p \in Payments : status[p] = "AWAITING_PAYMENT" /\ Due(expires[p], now)}
  IN /\ job[k].pc = "find"
     /\ job' = [job EXCEPT ![k] = [pc |-> IF due = {} THEN "refresh" ELSE "update", ids |-> due]]
     /\ UNCHANGED <<payVars, rowVars, calls, watched, lastBest, rx, bx, now,
                    chainVars, zmqVars, countVars>>

\* ... and updates them by id, whatever their status is by then.
ExpireUpdate(k) ==
  /\ job[k].pc = "update"
  /\ status' = [p \in Payments |-> IF p \in job[k].ids THEN "EXPIRED" ELSE status[p]]
  /\ calls' = calls \cup {<<p, "EXPIRED">> : p \in job[k].ids}
  /\ job' = [job EXCEPT ![k] = [pc |-> "refresh", ids |-> {}]]
  /\ UNCHANGED <<expires, received, detected, confs, rowVars, watched,
                 lastBest, rx, bx, now, chainVars, zmqVars, countVars>>

Watchlist == {p \in Payments : Creditable(p, now)}

\* Mutant: the watchlist is emptied before it is filled again.
WatchlistClearedFirst(k) ==
  /\ job[k].pc = "refresh"
  /\ job' = [job EXCEPT ![k] = [pc |-> "assign", ids |-> Watchlist]]
  /\ watched' = {}
  /\ UNCHANGED <<payVars, rowVars, calls, lastBest, rx, bx, now, chainVars, zmqVars,
                 countVars>>

\* refreshWatchlist reads the addresses of the payments that can be credited ...
WatchlistRead(k) ==
  /\ job[k].pc = "refresh"
  /\ job' = [job EXCEPT ![k] = [pc |-> "assign", ids |-> Watchlist]]
  /\ UNCHANGED <<payVars, rowVars, calls, watched, lastBest, rx, bx, now, chainVars,
                 zmqVars, countVars>>

\* ... and puts what it read, by then perhaps old, in the place of the watchlist.
WatchlistAssign(k) ==
  /\ job[k].pc = "assign"
  /\ watched' = job[k].ids
  /\ job' = [job EXCEPT ![k] = [pc |-> "idle", ids |-> {}]]
  /\ UNCHANGED <<payVars, rowVars, calls, lastBest, rx, bx, now, chainVars, zmqVars,
                 countVars>>

JobFails(k) ==
  /\ job[k].pc # "idle"
  /\ Mishaps < MaxMishaps
  /\ faults' = faults + 1
  /\ job' = [job EXCEPT ![k] = [pc |-> IF k = "boot" THEN "find"
                                      ELSE IF job[k].pc \in {"find", "update"} THEN "refresh" ELSE "idle",
                               ids |-> {}]]
  /\ UNCHANGED <<payVars, rowVars, calls, watched, lastBest, rx, bx, now,
                 chainVars, zmqVars, crashes, reorgs>>

\* The process dies with all it held in memory, its sockets included, and boots.
Crash ==
  /\ Mishaps < MaxMishaps
  /\ crashes' = crashes + 1
  /\ rx' = RxIdle /\ bx' = BxIdle
  /\ job' = [k \in Jobs |-> [pc |-> IF k = "boot" THEN "find" ELSE "idle", ids |-> {}]]
  /\ watched' = {} /\ lastBest' = None
  /\ zmqTx' = {} /\ zmqBlock' = 0
  /\ UNCHANGED <<payVars, rowVars, calls, now, chainVars, faults, reorgs>>

-----------------------------------------------------------------------------

JobStep(k) == \/ ExpireFind(k) \/ ExpireUpdate(k)
              \/ WatchlistRead(k) \/ WatchlistAssign(k)
RxStep == \/ \E t \in Txids : RawTxReceive(t)
          \/ \E p \in Payments : RawTxLookup(p)
          \/ RawTxCommit
BxStep == \/ BlockMessage
          \/ BlockReadPayments
          \/ BlockReadChildren
          \/ \E o \in Outputs : BlockChild(o)
          \/ BlockPayment

Next ==
  \/ AdvanceClock
  \/ \E p \in Payments : CreateInvoice(p)
  \/ \E t \in Txids : Broadcast(t)
  \/ \E S \in SUBSET Txids : MineBlock(S)
  \/ \E S1, S2 \in SUBSET Txids : Reorg(S1, S2)
  \/ LoseMessage
  \/ RxStep \/ RawTxFails
  \/ BxStep \/ BlockFails
  \/ \E k \in Ticks : TickStart(k)
  \/ \E k \in Jobs : JobStep(k) \/ JobFails(k)
  \/ Crash

Spec == Init /\ [][Next]_vars

\* Time passes, the event loop runs every callback that is ready and the timer
\* goes on firing. Nothing is assumed of payers, miners and failures.
Fairness ==
  /\ WF_vars(AdvanceClock)
  /\ \A k \in Jobs : WF_vars(JobStep(k))
  /\ \A k \in Ticks : WF_vars(TickStart(k))
  /\ WF_vars(RxStep)
  /\ WF_vars(BxStep)

FairSpec == Spec /\ Fairness

-----------------------------------------------------------------------------
(* Properties *)

Paid == PostThreshold \cup {"CONFIRMED"}

\* The rows detected before the deadline.
InTime(p) == {o \in OutputsTo(p, recorded) : expires[p] = NoDeadline \/ at[o] < expires[p]}

RxStates ==
  [pc : {"idle", "lookup", "commit"}, tx : Txids \cup {None}, seenAt : Nat,
   todo : SUBSET Payments, pay : Payments \cup {None},
   stat : PaymentStatuses \cup {Absent}, det : Nat \cup {None}]
BxStates ==
  [pc : {"idle", "getblock", "children", "apply"}, txs : SUBSET Txids,
   stat : [Payments -> ActiveStatuses \cup {Absent}], seen : SUBSET Outputs,
   conf : [Outputs -> Nat], left : SUBSET Outputs, cur : Payments \cup {None}]
JobStates == [pc : {"idle", "find", "update", "refresh", "assign"}, ids : SUBSET Payments]

PaymentsTyped ==
  /\ status \in [Payments -> PaymentStatuses \cup {Absent}]
  /\ expires \in [Payments -> Deadlines]
  /\ received \in [Payments -> Nat]
  /\ detected \in [Payments -> Nat \cup {None}]
  /\ confs \in [Payments -> Nat]
RowsTyped == recorded \subseteq Outputs /\ at \in [Outputs -> Nat] /\ conf \in [Outputs -> Nat]
CallsTyped == calls \subseteq Payments \X Events
MemoryTyped == watched \subseteq Payments /\ lastBest \in Nat \cup {None}
RxTyped == rx \in RxStates
BxTyped == bx \in BxStates
JobTyped == job \in [Jobs -> JobStates]
ChainTyped ==
  /\ published \subseteq Txids
  /\ chain \in Seq([id : Nat, txs : SUBSET Txids])
  /\ mined \in Nat
FeedTyped == zmqTx \subseteq Txids /\ zmqBlock \in Nat
CountersTyped == now \in Nat /\ faults \in Nat /\ crashes \in Nat /\ reorgs \in Nat

TypeOK ==
  /\ PaymentsTyped /\ RowsTyped /\ CallsTyped
  /\ MemoryTyped /\ RxTyped /\ BxTyped /\ JobTyped
  /\ ChainTyped /\ FeedTyped /\ CountersTyped

\* A payment shown as seen, confirming or confirmed was covered by outputs
\* detected before its deadline, in full: neither a late output nor a lookup
\* overtaken by the expiry job makes it paid (rawtxHandler's lookup and
\* transaction, the block handler's snapshot).
FundedBeforeDeadline ==
  \A p \in Payments : status[p] \in Paid => Total(InTime(p)) >= Expected[p]

\* btc_received_sats is the sum of the payment's rows and btc_detected_at the
\* time of the first one, whatever failed or was delivered twice.
LedgerConsistent ==
  \A p \in Payments :
    LET rows == OutputsTo(p, recorded)
    IN /\ received[p] = Total(rows)
       /\ IF rows = {} THEN detected[p] = None
          ELSE detected[p] = Least({at[o] : o \in rows})

\* On a chain without reorganisations a row never counts more confirmations
\* than its transaction has, save one for each restart of the worker (the tip
\* may be examined again, lastBestHash being lost).
NoOvercount ==
  reorgs = 0 => \A o \in recorded : conf[o] <= Depth(TxOf[o]) + crashes

\* CONFIRMED is never early: without reorganisations and restarts, outputs that
\* cover the amount are as deep as btc_required_confirmations asks.
ConfirmedIsBuried ==
  reorgs = 0 /\ crashes = 0 =>
    \A p \in Payments :
      status[p] = "CONFIRMED" =>
        \E C \in SUBSET InTime(p) : /\ Total(C) >= Expected[p]
                                   /\ \A o \in C : Depth(TxOf[o]) >= Required

\* The merchant is told only what happened: "seen" of a payment covered in
\* time, "confirmed" of one that counts the required confirmations, "expired"
\* of one whose deadline passed.
MailIsTruthful ==
  \A m \in calls :
    LET p == m[1]
    IN /\ m[2] \in Paid => Total(InTime(p)) >= Expected[p]
       /\ m[2] = "CONFIRMED" => confs[p] >= Required
       /\ m[2] = "EXPIRED" => Due(expires[p], now)

\* The list filter selects exactly the rows that are shown with a wanted status.
FilterAgreesWithView ==
  \A p \in Payments, s \in PaymentStatuses :
    StatusWhere({s}, status[p], expires[p], now)
      <=> EffectiveStatus(status[p], expires[p], now) = s

\* No handler, however stale the status it read, takes a payment back to an
\* earlier stage: awaiting, then seen, then confirming, then confirmed.
NoDemotion ==
  [][\A p \in Payments :
       /\ status'[p] = "AWAITING_PAYMENT" => status[p] \in {Absent, "AWAITING_PAYMENT"}
       /\ status'[p] = "SEEN_IN_MEMPOOL" => status[p] \notin {"CONFIRMING", "CONFIRMED"}
       /\ status'[p] = "CONFIRMING" => status[p] # "CONFIRMED"]_vars

\* The confirmations shown for a payment never go down: later rows never enter
\* the completing subset, and a late SEEN_IN_MEMPOOL never resets them. This is so
\* where no transaction pays one payment by two outputs: their rows tie.
ConfirmationsNeverDecrease ==
  [][\A p \in Payments : confs'[p] >= confs[p]]_vars

\* An invoice does not wait for ever: past its deadline it leaves
\* AWAITING_PAYMENT, by the expiry job or by a payment that was under way.
DeadlineIsEnforced ==
  \A p \in Payments :
    (status[p] = "AWAITING_PAYMENT" /\ Due(expires[p], now)) ~> status[p] # "AWAITING_PAYMENT"

\* A payment that can be credited gets on the watchlist, and from some time on
\* is on it whenever it can be credited: no refresh takes it off again, though
\* overlapping callbacks may put an older list in the place of a newer one.
\* (A seen payment stays creditable until its last confirmation, an awaiting
\* one until its deadline.)
LivePaymentsAreWatched ==
  \A p \in Payments :
    Creditable(p, now) ~> [](Creditable(p, now) => p \in watched)

\* What the documentation says and the code does not do (see README).

\* "Only AWAITING_PAYMENT is expired by the worker; payments already seen are
\* not." (docs/architecture/06-bitcoin-processing.md) The job finds overdue
\* payments in one query and updates them by id in a second one.
ExpiryOnlyTouchesAwaiting ==
  [][\A p \in Payments :
       status'[p] = "EXPIRED" /\ status[p] # "EXPIRED" => status[p] = "AWAITING_PAYMENT"]_vars

\* "When confirmations >= required the invoice reaches CONFIRMED." (same
\* document) Nothing failed, every message was handled, and a payment's
\* transactions are all deep enough: it is not left behind. The handler of a
\* block looks at the tip only, and never at a block twice.
BuriedPaymentsAreConfirmed ==
  Mishaps = 0 /\ Up /\ rx.pc = "idle" /\ bx.pc = "idle" /\ zmqTx = {} /\ zmqBlock = 0 =>
    \A p \in Payments :
      status[p] \in PostThreshold =>
        \E o \in OutputsTo(p, recorded) : Depth(TxOf[o]) < Required

=============================================================================
