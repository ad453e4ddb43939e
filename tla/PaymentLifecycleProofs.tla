----------------------- MODULE PaymentLifecycleProofs -----------------------
(***************************************************************************)
(* Theorems about PaymentLifecycle, for every set of payments, outputs and *)
(* amounts and without the bounds of the model-checking runs playing a     *)
(* part: its types; that no payment is shown as paid unless outputs        *)
(* detected before its deadline cover it; that no stage is taken back, the *)
(* mails are true and the ledger is right; that confirmations are not      *)
(* inflated, CONFIRMED means buried, and what is shown of them never goes  *)
(* down. Each section says which promises of the handlers' locals the one  *)
(* after it needs.                                                         *)
(***************************************************************************)
EXTENDS PaymentLifecycle, FiniteSetTheorems, SequenceTheorems,
        WellFoundedInduction, TLAPS

-----------------------------------------------------------------------------
(* Amounts *)

\* The satoshis of a set of outputs are a finite set, so Total is a number.
LEMMA CoinsFinite ==
  ASSUME NEW S \in SUBSET Outputs
  PROVE  IsFiniteSet(Coins(S)) /\ Total(S) \in Nat
<1> DEFINE family == {{o} \X (1..Sats[o]) : o \in S}
           f == [o \in S |-> {o} \X (1..Sats[o])]
<1>1. IsFiniteSet(S)
  BY ConstantsAssumption, FS_Subset
<1>2. f \in Surjection(S, family)
  BY DEF Surjection
<1>3. IsFiniteSet(family)
  BY <1>1, <1>2, FS_Surjection
<1>4. \A o \in S : IsFiniteSet({o} \X (1..Sats[o]))
  <2> TAKE o \in S
  <2>1. Sats[o] \in Int
    BY ConstantsAssumption
  <2>2. IsFiniteSet(1..Sats[o])
    BY <2>1, 1 \in Int, FS_Interval, Zenon
  <2>3. IsFiniteSet({o})
    BY FS_Singleton
  <2> QED BY <2>2, <2>3, FS_Product, Zenon
<1>5. IsFiniteSet(UNION family)
  BY <1>3, <1>4, FS_UNION
<1> QED BY <1>5, FS_CardinalityType DEF Coins, Total

\* More outputs are worth at least as much.
LEMMA TotalMonotone ==
  ASSUME NEW S \in SUBSET Outputs, NEW T \in SUBSET S
  PROVE  Total(T) <= Total(S)
<1>1. Coins(T) \in SUBSET Coins(S)
  BY DEF Coins
<1> QED BY <1>1, CoinsFinite, FS_Subset DEF Total

\* Nothing is worth nothing.
LEMMA TotalEmpty == Total({}) = 0
<1>1. Coins({}) = {}
  BY DEF Coins
<1> QED BY <1>1, FS_EmptySet DEF Total

\* A set of numbers has a least one.
LEMMA LeastExists ==
  ASSUME NEW S \in SUBSET Nat, S # {}
  PROVE  Least(S) \in S /\ \A n \in S : Least(S) <= n
<1>1. PICK m \in S : \A n \in S : ~ <<n, m>> \in OpToRel(<, Nat)
  BY NatLessThanWellFounded, WFMin
<1>2. \A n \in S : m <= n
  <2> SUFFICES ASSUME NEW n \in S PROVE m <= n
    OBVIOUS
  <2>1. ~ <<n, m>> \in {ss \in Nat \X Nat : ss[1] < ss[2]}
    BY <1>1 DEF OpToRel
  <2>2. n \in Nat /\ m \in Nat
    OBVIOUS
  <2>3. ~ (n < m)
    BY <2>1, <2>2
  <2> QED BY <2>2, <2>3
<1> QED BY <1>2 DEF Least

-----------------------------------------------------------------------------
(* Types *)

\* What the types rest on: the tip of a non-empty chain is read, and the
\* transaction is run for the payment the lookup found.
Shape ==
  /\ zmqBlock > 0 => chain # <<>>
  /\ rx.pc = "commit" => rx.pay \in Payments

\* The tip of a non-empty chain is a block.
LEMMA TipTyped ==
  ASSUME ChainTyped, Shape, zmqBlock > 0
  PROVE  Tip.id \in Nat /\ Tip.txs \in SUBSET Txids
<1>1. chain # <<>> /\ chain \in Seq([id : Nat, txs : SUBSET Txids])
  BY DEF ChainTyped, Shape
<1> DEFINE block == [id : Nat, txs : SUBSET Txids]
<1>2. Tip \in block
  <2> HIDE DEF block
  <2>1. chain \in Seq(block) /\ chain # <<>>
    BY <1>1 DEF block
  <2>2. Len(chain) \in 1..Len(chain)
    BY <2>1
  <2> QED BY <2>1, <2>2 DEF Tip
<1> QED BY <1>2

LEMMA NewConfType ==
  ASSUME NEW o \in Outputs, NEW txs, NEW c \in [Outputs -> Nat]
  PROVE  NewConf(o, txs, c) \in Nat
BY DEF NewConf

\* The least confirmations of a completing subset are a number.
LEMMA MinConfType ==
  ASSUME BxTyped, NEW p, NEW C \in CompletingSubsets(p, OutputsTo(p, bx.seen))
  PROVE  Least({bx.conf[o] : o \in C}) \in Nat
<1>1. C # {} /\ C \subseteq Outputs
  BY DEF CompletingSubsets, OutputsTo, BxTyped, BxStates
<1>2. {bx.conf[o] : o \in C} \in SUBSET Nat /\ {bx.conf[o] : o \in C} # {}
  BY <1>1 DEF BxTyped, BxStates
<1> QED BY <1>2, LeastExists

LEMMA TypeInit == Init => TypeOK /\ Shape
BY ConstantsAssumption
DEF Init, TypeOK, PaymentsTyped, RowsTyped, CallsTyped, MemoryTyped, RxTyped, BxTyped,
    JobTyped, ChainTyped, FeedTyped, CountersTyped, Shape, RxStates, BxStates, JobStates,
    RxIdle, BxIdle, Jobs, Deadlines

LEMMA TypeStep == TypeOK /\ Shape /\ [Next]_vars => TypeOK' /\ Shape'
<1> SUFFICES ASSUME TypeOK, Shape, [Next]_vars PROVE TypeOK' /\ Shape'
  OBVIOUS
<1> USE ConstantsAssumption DEF TypeOK
<1>1. ASSUME AdvanceClock PROVE TypeOK' /\ Shape'
  <2>1. PaymentsTyped' /\ RowsTyped' /\ CallsTyped' /\ MemoryTyped' /\ RxTyped' /\ BxTyped' /\ JobTyped' /\ ChainTyped' /\ FeedTyped' /\ Shape'
    BY <1>1 DEF AdvanceClock, PaymentsTyped, RowsTyped, CallsTyped, MemoryTyped, RxTyped, BxTyped, JobTyped, ChainTyped, FeedTyped, Shape, payVars, rowVars, chainVars, zmqVars, countVars
  <2>2. CountersTyped'
    BY <1>1 DEF AdvanceClock, CountersTyped, countVars
  <2> QED BY <2>1, <2>2
<1>2. ASSUME NEW p \in Payments, CreateInvoice(p) PROVE TypeOK' /\ Shape'
  <2>1. RowsTyped' /\ CallsTyped' /\ MemoryTyped' /\ RxTyped' /\ BxTyped' /\ JobTyped' /\ ChainTyped' /\ FeedTyped' /\ CountersTyped' /\ Shape'
    BY <1>2 DEF CreateInvoice, RowsTyped, CallsTyped, MemoryTyped, RxTyped, BxTyped, JobTyped, ChainTyped, FeedTyped, CountersTyped, Shape, payVars, rowVars, chainVars, zmqVars, countVars
  <2>2. PaymentsTyped'
    BY <1>2 DEF CreateInvoice, PaymentsTyped, PaymentStatuses, Deadlines, CountersTyped
  <2> QED BY <2>1, <2>2
<1>3. ASSUME NEW t \in Txids, Broadcast(t) PROVE TypeOK' /\ Shape'
  <2>1. PaymentsTyped' /\ RowsTyped' /\ CallsTyped' /\ MemoryTyped' /\ RxTyped' /\ BxTyped' /\ JobTyped' /\ CountersTyped' /\ Shape'
    BY <1>3 DEF Broadcast, PaymentsTyped, RowsTyped, CallsTyped, MemoryTyped, RxTyped, BxTyped, JobTyped, CountersTyped, Shape, payVars, rowVars, chainVars, zmqVars, countVars
  <2>2. ChainTyped'
    BY <1>3 DEF Broadcast, ChainTyped
  <2>3. FeedTyped'
    BY <1>3 DEF Broadcast, FeedTyped
  <2> QED BY <2>1, <2>2, <2>3
<1>4. ASSUME NEW S \in SUBSET Txids, MineBlock(S) PROVE TypeOK' /\ Shape'
  <2>1. PaymentsTyped' /\ RowsTyped' /\ CallsTyped' /\ MemoryTyped' /\ RxTyped' /\ BxTyped' /\ JobTyped' /\ CountersTyped'
    BY <1>4 DEF MineBlock, PaymentsTyped, RowsTyped, CallsTyped, MemoryTyped, RxTyped, BxTyped, JobTyped, CountersTyped, payVars, rowVars, chainVars, zmqVars, countVars
  <2>2. ChainTyped'
    BY <1>4 DEF MineBlock, ChainTyped
  <2>3. FeedTyped'
    BY <1>4 DEF MineBlock, FeedTyped
  <2>4. Shape'
    BY <1>4 DEF MineBlock, Shape
  <2> QED BY <2>1, <2>2, <2>3, <2>4
<1>5. ASSUME NEW S1 \in SUBSET Txids, NEW S2 \in SUBSET Txids, Reorg(S1, S2) PROVE TypeOK' /\ Shape'
  <2>1. PaymentsTyped' /\ RowsTyped' /\ CallsTyped' /\ MemoryTyped' /\ RxTyped' /\ BxTyped' /\ JobTyped'
    BY <1>5 DEF Reorg, PaymentsTyped, RowsTyped, CallsTyped, MemoryTyped, RxTyped, BxTyped, JobTyped, payVars, rowVars, chainVars, zmqVars, countVars
  <2>2. ChainTyped'
    <3> DEFINE block == [id : Nat, txs : SUBSET Txids]
               base == SubSeq(chain, 1, Len(chain) - 1)
               fork == << [id |-> mined + 1, txs |-> S1], [id |-> mined + 2, txs |-> S2] >>
    <3>1. chain \in Seq(block) /\ mined \in Nat /\ published \subseteq Txids
      BY DEF ChainTyped
    <3>2. base \in Seq(block)
      <4> HIDE DEF block
      <4>1. 1 \in Int /\ Len(chain) - 1 \in Int
        BY <3>1
      <4>2. \A i \in 1..(Len(chain) - 1) : chain[i] \in block
        BY <3>1
      <4> QED BY <4>1, <4>2, SubSeqProperties, Zenon DEF base
    <3>3. fork \in Seq(block)
      BY <3>1
    <3>4. chain' = base \o fork /\ mined' = mined + 2 /\ published' = published
      BY <1>5 DEF Reorg
    <3>5. base \o fork \in Seq(block)
      <4> HIDE DEF base, fork, block
      <4> QED BY <3>2, <3>3
    <3> QED BY <3>1, <3>4, <3>5 DEF ChainTyped
  <2>3. FeedTyped'
    BY <1>5 DEF Reorg, FeedTyped
  <2>4. CountersTyped'
    BY <1>5 DEF Reorg, CountersTyped
  <2>5. Shape'
    BY <1>5 DEF Reorg, Shape
  <2> QED BY <2>1, <2>2, <2>3, <2>4, <2>5
<1>6. ASSUME LoseMessage PROVE TypeOK' /\ Shape'
  <2>1. PaymentsTyped' /\ RowsTyped' /\ CallsTyped' /\ MemoryTyped' /\ RxTyped' /\ BxTyped' /\ JobTyped' /\ ChainTyped'
    BY <1>6 DEF LoseMessage, PaymentsTyped, RowsTyped, CallsTyped, MemoryTyped, RxTyped, BxTyped, JobTyped, ChainTyped, payVars, rowVars, chainVars, zmqVars, countVars
  <2>2. FeedTyped'
    BY <1>6 DEF LoseMessage, FeedTyped
  <2>3. CountersTyped'
    BY <1>6 DEF LoseMessage, CountersTyped
  <2>4. Shape'
    BY <1>6 DEF LoseMessage, Shape, FeedTyped, chainVars
  <2> QED BY <2>1, <2>2, <2>3, <2>4
<1>7. ASSUME NEW t \in Txids, RawTxReceive(t) PROVE TypeOK' /\ Shape'
  <2>1. PaymentsTyped' /\ RowsTyped' /\ CallsTyped' /\ MemoryTyped' /\ BxTyped' /\ JobTyped' /\ ChainTyped' /\ CountersTyped'
    BY <1>7 DEF RawTxReceive, PaymentsTyped, RowsTyped, CallsTyped, MemoryTyped, BxTyped, JobTyped, ChainTyped, CountersTyped, payVars, rowVars, chainVars, zmqVars, countVars
  <2>2. FeedTyped'
    BY <1>7 DEF RawTxReceive, FeedTyped
  <2>3. RxTyped'
    <3> DEFINE hits == {PaidTo[o] : o \in {h \in Outputs : TxOf[h] = t /\ PaidTo[h] \in watched}}
    <3>1. hits \in SUBSET Payments
      OBVIOUS
    <3>2. rx' = IF hits = {} THEN RxIdle
                ELSE [RxIdle EXCEPT !.pc = "lookup", !.tx = t, !.seenAt = now, !.todo = hits]
      BY <1>7 DEF RawTxReceive
    <3> HIDE DEF hits
    <3> QED BY <3>1, <3>2 DEF RxTyped, RxStates, RxIdle, PaymentStatuses, CountersTyped
  <2>4. Shape'
    BY <1>7 DEF RawTxReceive, Shape, RxIdle, zmqVars, chainVars
  <2> QED BY <2>1, <2>2, <2>3, <2>4
<1>8. ASSUME NEW p \in Payments, RawTxLookup(p) PROVE TypeOK' /\ Shape'
  <2>1. PaymentsTyped' /\ RowsTyped' /\ CallsTyped' /\ MemoryTyped' /\ BxTyped' /\ JobTyped' /\ ChainTyped' /\ FeedTyped' /\ CountersTyped'
    BY <1>8 DEF RawTxLookup, PaymentsTyped, RowsTyped, CallsTyped, MemoryTyped, BxTyped, JobTyped, ChainTyped, FeedTyped, CountersTyped, payVars, rowVars, chainVars, zmqVars, countVars
  <2>2. RxTyped'
    BY <1>8 DEF RawTxLookup, RxTyped, RxStates, RxIdle, RxAfter, PaymentStatuses, PaymentsTyped
  <2>3. Shape'
    BY <1>8 DEF RawTxLookup, Shape, RxIdle, RxAfter, zmqVars, chainVars
  <2> QED BY <2>1, <2>2, <2>3
<1>9. ASSUME RawTxCommit PROVE TypeOK' /\ Shape'
  <2>1. MemoryTyped' /\ BxTyped' /\ JobTyped' /\ ChainTyped' /\ FeedTyped' /\ CountersTyped'
    BY <1>9 DEF RawTxCommit, MemoryTyped, BxTyped, JobTyped, ChainTyped, FeedTyped, CountersTyped, payVars, rowVars, chainVars, zmqVars, countVars
  <2>2. PaymentsTyped'
    <3>1. Total(OutputsTo(rx.pay, recorded \cup NewRows(rx.pay))) \in Nat
      BY CoinsFinite DEF OutputsTo, NewRows, RowsTyped
    <3>2. rx.seenAt \in Nat /\ rx.det \in Nat \cup {None}
      BY DEF RxTyped, RxStates
    <3> QED BY <1>9, <3>1, <3>2 DEF RawTxCommit, PaymentsTyped, PaymentStatuses
  <2>3. RowsTyped'
    BY <1>9 DEF RawTxCommit, RowsTyped, NewRows, RxTyped, RxStates
  <2>4. CallsTyped'
    BY <1>9 DEF RawTxCommit, CallsTyped, Events, Shape
  <2>5. RxTyped'
    BY <1>9 DEF RawTxCommit, RxTyped, RxStates, RxIdle, RxAfter, PaymentStatuses
  <2>6. Shape'
    BY <1>9 DEF RawTxCommit, Shape, RxIdle, RxAfter, zmqVars, chainVars
  <2> QED BY <2>1, <2>2, <2>3, <2>4, <2>5, <2>6
<1>10. ASSUME RawTxFails PROVE TypeOK' /\ Shape'
  <2>1. PaymentsTyped' /\ RowsTyped' /\ CallsTyped' /\ MemoryTyped' /\ BxTyped' /\ JobTyped' /\ ChainTyped' /\ FeedTyped'
    BY <1>10 DEF RawTxFails, PaymentsTyped, RowsTyped, CallsTyped, MemoryTyped, BxTyped, JobTyped, ChainTyped, FeedTyped, payVars, rowVars, chainVars, zmqVars, countVars
  <2>2. CountersTyped'
    BY <1>10 DEF RawTxFails, CountersTyped
  <2>3. RxTyped'
    BY <1>10 DEF RawTxFails, RxTyped, RxStates, RxIdle, RxAfter, PaymentStatuses
  <2>4. Shape'
    BY <1>10 DEF RawTxFails, Shape, RxIdle, zmqVars, chainVars
  <2> QED BY <2>1, <2>2, <2>3, <2>4
<1>11. ASSUME BlockMessage PROVE TypeOK' /\ Shape'
  <2>1. PaymentsTyped' /\ RowsTyped' /\ CallsTyped' /\ RxTyped' /\ JobTyped' /\ ChainTyped' /\ CountersTyped'
    BY <1>11 DEF BlockMessage, PaymentsTyped, RowsTyped, CallsTyped, RxTyped, JobTyped, ChainTyped, CountersTyped, payVars, rowVars, chainVars, zmqVars, countVars
  <2>2. MemoryTyped'
    BY <1>11, TipTyped DEF BlockMessage, MemoryTyped
  <2>3. BxTyped'
    <3>1. Tip.txs \in SUBSET Txids
      BY <1>11, TipTyped DEF BlockMessage
    <3>2. bx' = bx \/ bx' = [BxIdle EXCEPT !.pc = "getblock", !.txs = Tip.txs]
      BY <1>11 DEF BlockMessage
    <3>3. BxIdle \in BxStates
      BY DEF BxIdle, BxStates
    <3>4. [BxIdle EXCEPT !.pc = "getblock", !.txs = Tip.txs] \in BxStates
      <4> HIDE DEF BxIdle
      <4> QED BY <3>1, <3>3 DEF BxStates
    <3> QED BY <3>2, <3>4 DEF BxTyped
  <2>4. FeedTyped'
    BY <1>11 DEF BlockMessage, FeedTyped
  <2>5. Shape'
    BY <1>11 DEF BlockMessage, Shape, FeedTyped, chainVars
  <2> QED BY <2>1, <2>2, <2>3, <2>4, <2>5
<1>12. ASSUME BlockReadPayments PROVE TypeOK' /\ Shape'
  <2>1. PaymentsTyped' /\ RowsTyped' /\ CallsTyped' /\ MemoryTyped' /\ RxTyped' /\ JobTyped' /\ ChainTyped' /\ FeedTyped' /\ CountersTyped' /\ Shape'
    BY <1>12 DEF BlockReadPayments, PaymentsTyped, RowsTyped, CallsTyped, MemoryTyped, RxTyped, JobTyped, ChainTyped, FeedTyped, CountersTyped, Shape, payVars, rowVars, chainVars, zmqVars, countVars
  <2>2. BxTyped'
    BY <1>12 DEF BlockReadPayments, BxTyped, BxStates, BxIdle, ActiveStatuses
  <2> QED BY <2>1, <2>2
<1>13. ASSUME BlockReadChildren PROVE TypeOK' /\ Shape'
  <2>1. PaymentsTyped' /\ RowsTyped' /\ CallsTyped' /\ MemoryTyped' /\ RxTyped' /\ JobTyped' /\ ChainTyped' /\ FeedTyped' /\ CountersTyped' /\ Shape'
    BY <1>13 DEF BlockReadChildren, PaymentsTyped, RowsTyped, CallsTyped, MemoryTyped, RxTyped, JobTyped, ChainTyped, FeedTyped, CountersTyped, Shape, payVars, rowVars, chainVars, zmqVars, countVars
  <2>2. BxTyped'
    <3> DEFINE seen == {o \in recorded : bx.stat[PaidTo[o]] # Absent}
               left == {o \in seen : NewConf(o, bx.txs, conf) # conf[o]}
    <3>1. seen \in SUBSET Outputs /\ left \in SUBSET Outputs /\ conf \in [Outputs -> Nat]
      BY DEF RowsTyped
    <3>2. bx' = IF left = {} THEN BxIdle
                ELSE [bx EXCEPT !.pc = "apply", !.seen = seen, !.conf = conf, !.left = left]
      BY <1>13 DEF BlockReadChildren
    <3> HIDE DEF seen, left
    <3> QED BY <3>1, <3>2 DEF BxTyped, BxStates, BxIdle, ActiveStatuses
  <2> QED BY <2>1, <2>2
<1>14. ASSUME NEW o \in Outputs, BlockChild(o) PROVE TypeOK' /\ Shape'
  <2>1. PaymentsTyped' /\ CallsTyped' /\ MemoryTyped' /\ RxTyped' /\ JobTyped' /\ ChainTyped' /\ FeedTyped' /\ CountersTyped' /\ Shape'
    BY <1>14 DEF BlockChild, PaymentsTyped, CallsTyped, MemoryTyped, RxTyped, JobTyped, ChainTyped, FeedTyped, CountersTyped, Shape, payVars, rowVars, chainVars, zmqVars, countVars
  <2>2. RowsTyped'
    <3>1. NewConf(o, bx.txs, bx.conf) \in Nat
      BY NewConfType DEF BxTyped, BxStates
    <3> QED BY <1>14, <3>1 DEF BlockChild, RowsTyped
  <2>3. BxTyped'
    <3> DEFINE n == NewConf(o, bx.txs, bx.conf)
    <3>1. n \in Nat
      BY NewConfType DEF BxTyped, BxStates
    <3>2. bx' = [bx EXCEPT !.conf[o] = n, !.left = @ \ {o}, !.cur = PaidTo[o]]
      BY <1>14 DEF BlockChild
    <3> HIDE DEF n
    <3>3. bx.conf \in [Outputs -> Nat] /\ bx.left \in SUBSET Outputs
      BY DEF BxTyped, BxStates
    <3>4. [bx.conf EXCEPT ![o] = n] \in [Outputs -> Nat]
      BY <3>1, <3>3
    <3>5. bx' = [bx EXCEPT !.conf = [bx.conf EXCEPT ![o] = n], !.left = bx.left \ {o},
                           !.cur = PaidTo[o]]
      BY <3>2 DEF BxTyped, BxStates
    <3> QED BY <3>3, <3>4, <3>5 DEF BxTyped, BxStates
  <2> QED BY <2>1, <2>2, <2>3
<1>15. ASSUME BlockPayment PROVE TypeOK' /\ Shape'
  <2>1. RowsTyped' /\ MemoryTyped' /\ RxTyped' /\ JobTyped' /\ ChainTyped' /\ FeedTyped' /\ CountersTyped' /\ Shape'
    BY <1>15 DEF BlockPayment, RowsTyped, MemoryTyped, RxTyped, JobTyped, ChainTyped, FeedTyped, CountersTyped, Shape, payVars, rowVars, chainVars, zmqVars, countVars
  <2>2. PaymentsTyped'
    <3> DEFINE p == bx.cur
               rows == OutputsTo(p, bx.seen)
    <3>1. CASE UNCHANGED <<status, confs>>
      BY <1>15, <3>1 DEF BlockPayment, PaymentsTyped
    <3>2. CASE \E C \in CompletingSubsets(p, rows) :
                 LET m == Least({bx.conf[o] : o \in C})
                 IN /\ status' = [status EXCEPT ![p] = NewStatus(m, bx.stat[p])]
                    /\ confs' = [confs EXCEPT ![p] = m]
      <4>1. PICK C \in CompletingSubsets(p, rows) :
                 LET m == Least({bx.conf[o] : o \in C})
                 IN /\ status' = [status EXCEPT ![p] = NewStatus(m, bx.stat[p])]
                    /\ confs' = [confs EXCEPT ![p] = m]
        BY <3>2
      <4>2. Least({bx.conf[o] : o \in C}) \in Nat
        BY MinConfType
      <4>3. bx.stat[p] \in PaymentStatuses \cup {Absent}
        BY <1>15 DEF BlockPayment, BxTyped, BxStates, ActiveStatuses, PaymentStatuses
      <4>4. NewStatus(Least({bx.conf[o] : o \in C}), bx.stat[p]) \in PaymentStatuses \cup {Absent}
        BY <4>3 DEF NewStatus, PaymentStatuses
      <4> QED BY <1>15, <4>1, <4>2, <4>4 DEF BlockPayment, PaymentsTyped
    <3> QED BY <1>15, <3>1, <3>2 DEF BlockPayment
  <2>3. CallsTyped'
    <3>1. bx.cur \in Payments
      BY <1>15 DEF BlockPayment, BxTyped, BxStates
    <3>2. calls' = calls \/ calls' = calls \cup {<<bx.cur, "CONFIRMED">>}
      BY <1>15 DEF BlockPayment
    <3> QED BY <3>1, <3>2 DEF CallsTyped, Events
  <2>4. BxTyped'
    BY <1>15 DEF BlockPayment, BxTyped, BxStates, BxIdle, ActiveStatuses
  <2> QED BY <2>1, <2>2, <2>3, <2>4
<1>16. ASSUME BlockFails PROVE TypeOK' /\ Shape'
  <2>1. PaymentsTyped' /\ RowsTyped' /\ CallsTyped' /\ MemoryTyped' /\ RxTyped' /\ JobTyped' /\ ChainTyped' /\ FeedTyped' /\ Shape'
    BY <1>16 DEF BlockFails, PaymentsTyped, RowsTyped, CallsTyped, MemoryTyped, RxTyped, JobTyped, ChainTyped, FeedTyped, Shape, payVars, rowVars, chainVars, zmqVars, countVars
  <2>2. CountersTyped'
    BY <1>16 DEF BlockFails, CountersTyped
  <2>3. BxTyped'
    BY <1>16 DEF BlockFails, BxTyped, BxStates, BxIdle, ActiveStatuses
  <2> QED BY <2>1, <2>2, <2>3
<1>17. ASSUME NEW k \in Ticks, TickStart(k) PROVE TypeOK' /\ Shape'
  <2>1. PaymentsTyped' /\ RowsTyped' /\ CallsTyped' /\ MemoryTyped' /\ RxTyped' /\ BxTyped' /\ ChainTyped' /\ FeedTyped' /\ CountersTyped' /\ Shape'
    BY <1>17 DEF TickStart, PaymentsTyped, RowsTyped, CallsTyped, MemoryTyped, RxTyped, BxTyped, ChainTyped, FeedTyped, CountersTyped, Shape, payVars, rowVars, chainVars, zmqVars, countVars
  <2>2. JobTyped'
    BY <1>17 DEF TickStart, JobTyped, JobStates, Jobs
  <2> QED BY <2>1, <2>2
<1>18. ASSUME NEW k \in Jobs, ExpireFind(k) PROVE TypeOK' /\ Shape'
  <2>1. PaymentsTyped' /\ RowsTyped' /\ CallsTyped' /\ MemoryTyped' /\ RxTyped' /\ BxTyped' /\ ChainTyped' /\ FeedTyped' /\ CountersTyped' /\ Shape'
    BY <1>18 DEF ExpireFind, PaymentsTyped, RowsTyped, CallsTyped, MemoryTyped, RxTyped, BxTyped, ChainTyped, FeedTyped, CountersTyped, Shape, payVars, rowVars, chainVars, zmqVars, countVars
  <2>2. JobTyped'
    BY <1>18 DEF ExpireFind, JobTyped, JobStates, Jobs
  <2> QED BY <2>1, <2>2
<1>19. ASSUME NEW k \in Jobs, ExpireUpdate(k) PROVE TypeOK' /\ Shape'
  <2>1. RowsTyped' /\ MemoryTyped' /\ RxTyped' /\ BxTyped' /\ ChainTyped' /\ FeedTyped' /\ CountersTyped' /\ Shape'
    BY <1>19 DEF ExpireUpdate, RowsTyped, MemoryTyped, RxTyped, BxTyped, ChainTyped, FeedTyped, CountersTyped, Shape, payVars, rowVars, chainVars, zmqVars, countVars
  <2>2. PaymentsTyped'
    BY <1>19 DEF ExpireUpdate, PaymentsTyped, PaymentStatuses, Deadlines
  <2>3. CallsTyped'
    BY <1>19 DEF ExpireUpdate, CallsTyped, Events, JobTyped, JobStates
  <2>4. JobTyped'
    BY <1>19 DEF ExpireUpdate, JobTyped, JobStates, Jobs
  <2> QED BY <2>1, <2>2, <2>3, <2>4
<1>20. ASSUME NEW k \in Jobs, WatchlistRead(k) \/ WatchlistAssign(k) PROVE TypeOK' /\ Shape'
  <2>1. PaymentsTyped' /\ RowsTyped' /\ CallsTyped' /\ RxTyped' /\ BxTyped' /\ ChainTyped' /\ FeedTyped' /\ CountersTyped' /\ Shape'
    BY <1>20 DEF WatchlistRead, WatchlistAssign, PaymentsTyped, RowsTyped, CallsTyped, RxTyped, BxTyped, ChainTyped, FeedTyped, CountersTyped, Shape, payVars, rowVars, chainVars, zmqVars, countVars
  <2>2. MemoryTyped'
    BY <1>20 DEF WatchlistRead, WatchlistAssign, MemoryTyped, JobTyped, JobStates
  <2>3. JobTyped'
    BY <1>20 DEF WatchlistRead, WatchlistAssign, Watchlist, JobTyped, JobStates, Jobs
  <2> QED BY <2>1, <2>2, <2>3
<1>21. ASSUME NEW k \in Jobs, JobFails(k) PROVE TypeOK' /\ Shape'
  <2>1. PaymentsTyped' /\ RowsTyped' /\ CallsTyped' /\ MemoryTyped' /\ RxTyped' /\ BxTyped' /\ ChainTyped' /\ FeedTyped' /\ Shape'
    BY <1>21 DEF JobFails, PaymentsTyped, RowsTyped, CallsTyped, MemoryTyped, RxTyped, BxTyped, ChainTyped, FeedTyped, Shape, payVars, rowVars, chainVars, zmqVars, countVars
  <2>2. CountersTyped'
    BY <1>21 DEF JobFails, CountersTyped
  <2>3. JobTyped'
    BY <1>21 DEF JobFails, JobTyped, JobStates, Jobs
  <2> QED BY <2>1, <2>2, <2>3
<1>22. ASSUME Crash PROVE TypeOK' /\ Shape'
  <2>1. PaymentsTyped' /\ RowsTyped' /\ CallsTyped' /\ ChainTyped'
    BY <1>22 DEF Crash, PaymentsTyped, RowsTyped, CallsTyped, ChainTyped, payVars, rowVars, chainVars, zmqVars, countVars
  <2>2. CountersTyped'
    BY <1>22 DEF Crash, CountersTyped
  <2>3. MemoryTyped'
    BY <1>22 DEF Crash, MemoryTyped
  <2>4. RxTyped'
    BY <1>22 DEF Crash, RxTyped, RxStates, RxIdle, RxAfter, PaymentStatuses
  <2>5. BxTyped'
    BY <1>22 DEF Crash, BxTyped, BxStates, BxIdle, ActiveStatuses
  <2>6. JobTyped'
    BY <1>22 DEF Crash, JobTyped, JobStates, Jobs
  <2>7. FeedTyped'
    BY <1>22 DEF Crash, FeedTyped
  <2>8. Shape'
    BY <1>22 DEF Crash, Shape, RxIdle
  <2> QED BY <2>1, <2>2, <2>3, <2>4, <2>5, <2>6, <2>7, <2>8
<1>23. CASE UNCHANGED vars
  BY <1>23 DEF PaymentsTyped, RowsTyped, CallsTyped, MemoryTyped, RxTyped, BxTyped, JobTyped, ChainTyped, FeedTyped, CountersTyped, Shape, vars, payVars, rowVars, chainVars, zmqVars, countVars
<1> QED
  BY <1>1, <1>2, <1>3, <1>4, <1>5, <1>6, <1>7, <1>8, <1>9, <1>10, <1>11, <1>12, <1>13, <1>14, <1>15, <1>16, <1>17, <1>18, <1>19, <1>20, <1>21, <1>22, <1>23 DEF Next, JobStep, RxStep, BxStep

\* Every variable of the worker, the tables and the chain keeps its type.
THEOREM TypeCorrect == Spec => []TypeOK
<1>1. Init => TypeOK /\ Shape
  BY TypeInit
<1>2. (TypeOK /\ Shape) /\ [Next]_vars => (TypeOK /\ Shape)'
  BY TypeStep
<1> QED BY <1>1, <1>2, PTL DEF Spec

-----------------------------------------------------------------------------
(* Paid means funded before the deadline. The two handlers decide by what  *)
(* they read earlier, so the invariant speaks of what they hold: a lookup  *)
(* that found the payment awaiting was made for a message that came in     *)
(* time, and one that found it past its threshold, like the block handler's*)
(* snapshot, found it funded. A late row only exists once it is funded.    *)

Funded(p) == Total(InTime(p)) >= Expected[p]

LateRowsAreExtra ==
  \A o \in recorded :
    /\ status[PaidTo[o]] # Absent
    /\ o \in InTime(PaidTo[o]) \/ Funded(PaidTo[o])

LookupHolds ==
  rx.pc = "commit" =>
    /\ status[rx.pay] # Absent
    /\ \/ /\ rx.stat = "AWAITING_PAYMENT"
          /\ expires[rx.pay] = NoDeadline \/ rx.seenAt < expires[rx.pay]
       \/ rx.stat \in PostThreshold /\ Funded(rx.pay)

SnapshotHolds ==
  /\ \A p \in Payments : bx.stat[p] \in PostThreshold => Funded(p)
  /\ \A o \in bx.left : bx.stat[PaidTo[o]] # Absent
  /\ bx.cur # None => bx.stat[bx.cur] # Absent
  /\ bx.pc # "apply" => bx.left = {} /\ bx.cur = None

Funding == FundedBeforeDeadline /\ LateRowsAreExtra /\ LookupHolds /\ SnapshotHolds

\* What was funded stays funded when the rows in time only grow.
LEMMA FundedStays ==
  ASSUME TypeOK, TypeOK', NEW p \in Payments, InTime(p) \subseteq InTime(p)', Funded(p)
  PROVE  Funded(p)'
<1>1. InTime(p)' \in SUBSET Outputs /\ InTime(p) \in SUBSET InTime(p)'
  BY DEF TypeOK, RowsTyped, InTime, OutputsTo
<1>2. Total(InTime(p)) <= Total(InTime(p)')
  BY <1>1, TotalMonotone
<1>3. Total(InTime(p)) \in Nat /\ Total(InTime(p)') \in Nat /\ Expected[p] \in Nat
  BY <1>1, CoinsFinite, ConstantsAssumption
<1>4. Total(InTime(p)') = Total(InTime(p))'
  BY DEF Total, Coins
<1> QED BY <1>2, <1>3, <1>4 DEF Funded

\* The steps that leave the rows and the deadlines alone.
LEMMA FundedUnchanged ==
  ASSUME UNCHANGED <<expires, recorded, at>>
  PROVE  \A p : InTime(p)' = InTime(p) /\ Funded(p)' = Funded(p)
BY DEF InTime, OutputsTo, Funded, Total, Coins

LEMMA FundingInit == Init => Funding
BY DEF Init, Funding, FundedBeforeDeadline, LateRowsAreExtra, LookupHolds, SnapshotHolds,
       Paid, PostThreshold, Absent, RxIdle, BxIdle


\* The steps that touch neither the tables nor what the handlers hold.
LEMMA FundingStutter ==
  ASSUME Funding, UNCHANGED <<status, expires, recorded, at, rx, bx>>
  PROVE  Funding'
<1>1. \A p : InTime(p)' = InTime(p) /\ Funded(p)' = Funded(p)
  BY FundedUnchanged
<1> QED BY <1>1 DEF Funding, FundedBeforeDeadline, LateRowsAreExtra, LookupHolds,
                    SnapshotHolds, Funded

\* handleRawTxMessage.
LEMMA FundingRx ==
  ASSUME TypeOK, TypeOK', Shape, Funding, RxStep \/ RawTxFails
  PROVE  Funding'
<1> USE ConstantsAssumption DEF Funding
<1>1. ASSUME NEW t \in Txids, RawTxReceive(t) PROVE Funding'
  <2>1. \A p : InTime(p)' = InTime(p) /\ Funded(p)' = Funded(p)
    BY <1>1, FundedUnchanged DEF RawTxReceive, payVars, rowVars
  <2>2. rx'.pc # "commit"
    BY <1>1 DEF RawTxReceive, RxIdle
  <2> QED BY <1>1, <2>1, <2>2 DEF RawTxReceive, FundedBeforeDeadline, LateRowsAreExtra,
             LookupHolds, SnapshotHolds, Funded, payVars, rowVars
<1>2. ASSUME NEW p \in Payments, RawTxLookup(p) PROVE Funding'
  <2>1. \A q : InTime(q)' = InTime(q) /\ Funded(q)' = Funded(q)
    BY <1>2, FundedUnchanged DEF RawTxLookup, payVars, rowVars
  <2>2. LookupHolds'
    <3>1. CASE Creditable(p, rx.seenAt)
      <4>1. rx'.pay = p /\ rx'.stat = status[p] /\ rx'.seenAt = rx.seenAt
        BY <1>2, <3>1 DEF RawTxLookup, TypeOK, RxTyped, RxStates
      <4>2. status' = status /\ expires' = expires
        BY <1>2 DEF RawTxLookup, payVars
      <4>3. CASE status[p] = "AWAITING_PAYMENT"
        BY <3>1, <4>1, <4>2, <4>3 DEF LookupHolds, Creditable, Open, PostThreshold, Absent
      <4>4. CASE status[p] \in PostThreshold
        <5>1. Funded(p)
          BY <4>4 DEF FundedBeforeDeadline, Paid, Funded
        <5>2. Funded(rx.pay)'
          BY <5>1, <4>1, <2>1
        <5> QED BY <4>1, <4>2, <4>4, <5>2 DEF LookupHolds, PostThreshold, Absent
      <4> QED BY <3>1, <4>3, <4>4 DEF Creditable
    <3>2. CASE ~ Creditable(p, rx.seenAt)
      BY <1>2, <3>2 DEF RawTxLookup, RxAfter, RxIdle, LookupHolds, TypeOK, RxTyped, RxStates
    <3> QED BY <3>1, <3>2
  <2> QED BY <1>2, <2>1, <2>2 DEF RawTxLookup, FundedBeforeDeadline, LateRowsAreExtra,
             SnapshotHolds, Funded, payVars, rowVars
<1>3. ASSUME RawTxCommit PROVE Funding'
  <2>0. PICK p \in Payments : p = rx.pay
    BY <1>3 DEF RawTxCommit, Shape
  <2> DEFINE new == NewRows(p)
             all == OutputsTo(p, recorded \cup new)
  <2>1. /\ status[p] # Absent
        /\ recorded' = recorded \cup new
        /\ at' = [o \in Outputs |-> IF o \in new THEN rx.seenAt ELSE at[o]]
        /\ expires' = expires /\ bx' = bx
        /\ rx'.pc # "commit"
    BY <1>3, <2>0 DEF RawTxCommit, LookupHolds, RxAfter, RxIdle, TypeOK, RxTyped, RxStates
  <2>2. new \subseteq Outputs /\ new \cap recorded = {} /\ \A o \in new : PaidTo[o] = p
    BY DEF NewRows
  <2>3. \A q \in Payments : InTime(q) \subseteq InTime(q)'
    BY <2>1, <2>2 DEF InTime, OutputsTo, TypeOK, RowsTyped
  <2>4. \A q \in Payments : Funded(q) => Funded(q)'
    BY <2>3, FundedStays
  <2>5. CASE Funded(p)
    <3>1. Funded(p)'
      BY <2>1, <2>4, <2>5
    <3>2. FundedBeforeDeadline'
      <4> SUFFICES ASSUME NEW q \in Payments, status'[q] \in Paid PROVE Funded(q)'
        BY DEF FundedBeforeDeadline, Funded
      <4>1. CASE q = p
        BY <3>1, <4>1, <2>1
      <4>2. CASE q # p
        <5>1. status'[q] = status[q]
          BY <1>3, <2>0, <4>2 DEF RawTxCommit
        <5> QED BY <5>1, <2>4 DEF FundedBeforeDeadline, Funded
      <4> QED BY <4>1, <4>2
    <3>3. LateRowsAreExtra'
      <4> SUFFICES ASSUME NEW o \in recorded'
                   PROVE  /\ status'[PaidTo[o]] # Absent
                          /\ o \in InTime(PaidTo[o])' \/ Funded(PaidTo[o])'
        BY DEF LateRowsAreExtra
      <4>1. CASE o \in new
        BY <1>3, <2>0, <2>1, <2>2, <3>1, <4>1 DEF RawTxCommit, Absent, TypeOK, PaymentsTyped
      <4>2. CASE o \in recorded
        <5>1. status[PaidTo[o]] # Absent /\ (o \in InTime(PaidTo[o]) \/ Funded(PaidTo[o]))
          BY <4>2 DEF LateRowsAreExtra
        <5>2. status'[PaidTo[o]] # Absent
          BY <1>3, <2>0, <5>1 DEF RawTxCommit, Absent, TypeOK, PaymentsTyped
        <5>3. PaidTo[o] \in Payments
          BY <4>2 DEF TypeOK, RowsTyped
        <5> QED BY <5>1, <5>2, <5>3, <2>3, <2>4
      <4> QED BY <2>1, <4>1, <4>2
    <3> QED BY <2>1, <2>4, <3>2, <3>3 DEF LookupHolds, SnapshotHolds
  <2>6. CASE ~ Funded(p)
    <3>1. rx.stat = "AWAITING_PAYMENT" /\ (expires[p] = NoDeadline \/ rx.seenAt < expires[p])
      BY <1>3, <2>0, <2>6 DEF RawTxCommit, LookupHolds
    <3>2. all = InTime(p)'
      <4>1. \A o \in recorded : PaidTo[o] = p => o \in InTime(p)
        BY <2>6 DEF LateRowsAreExtra
      <4>2. \A o \in new : o \in InTime(p)'
        BY <2>1, <2>2, <3>1 DEF InTime, OutputsTo
      <4>3. \A o \in all : o \in InTime(p)'
        BY <2>1, <2>3, <4>1, <4>2 DEF OutputsTo
      <4>4. InTime(p)' \subseteq all
        BY <2>1 DEF InTime, OutputsTo
      <4> QED BY <4>3, <4>4
    <3>3. Total(all) >= Expected[p] => Funded(p)'
      <4>1. Total(InTime(p)') = Total(InTime(p))'
        BY DEF Total, Coins
      <4> QED BY <3>2, <4>1 DEF Funded
    <3>4. FundedBeforeDeadline'
      <4> SUFFICES ASSUME NEW q \in Payments, status'[q] \in Paid PROVE Funded(q)'
        BY DEF FundedBeforeDeadline, Funded
      <4>1. CASE q = p /\ Total(all) >= Expected[p]
        BY <3>3, <4>1
      <4>2. CASE q = p /\ ~ (Total(all) >= Expected[p])
        <5>1. status'[p] = status[p]
          BY <1>3, <2>0, <4>2 DEF RawTxCommit
        <5> QED BY <2>4, <4>2, <5>1 DEF FundedBeforeDeadline, Funded
      <4>3. CASE q # p
        <5>1. status'[q] = status[q]
          BY <1>3, <2>0, <4>3 DEF RawTxCommit
        <5> QED BY <5>1, <2>4 DEF FundedBeforeDeadline, Funded
      <4> QED BY <4>1, <4>2, <4>3
    <3>5. LateRowsAreExtra'
      <4> SUFFICES ASSUME NEW o \in recorded'
                   PROVE  /\ status'[PaidTo[o]] # Absent
                          /\ o \in InTime(PaidTo[o])' \/ Funded(PaidTo[o])'
        BY DEF LateRowsAreExtra
      <4>1. CASE o \in new
        <5>1. status'[p] # Absent
          BY <1>3, <2>0, <2>1 DEF RawTxCommit, Absent, TypeOK, PaymentsTyped
        <5>2. o \in InTime(p)'
          BY <3>2, <4>1, <2>2 DEF OutputsTo
        <5> QED BY <5>1, <5>2, <2>2, <4>1
      <4>2. CASE o \in recorded
        <5>1. status[PaidTo[o]] # Absent /\ (o \in InTime(PaidTo[o]) \/ Funded(PaidTo[o]))
          BY <4>2 DEF LateRowsAreExtra
        <5>2. status'[PaidTo[o]] # Absent
          BY <1>3, <2>0, <5>1 DEF RawTxCommit, Absent, TypeOK, PaymentsTyped
        <5>3. PaidTo[o] \in Payments
          BY <4>2 DEF TypeOK, RowsTyped
        <5> QED BY <5>1, <5>2, <5>3, <2>3, <2>4
      <4> QED BY <2>1, <4>1, <4>2
    <3> QED BY <2>1, <2>4, <3>4, <3>5 DEF LookupHolds, SnapshotHolds
  <2> QED BY <2>5, <2>6
<1>4. ASSUME RawTxFails PROVE Funding'
  <2>1. \A p : InTime(p)' = InTime(p) /\ Funded(p)' = Funded(p)
    BY <1>4, FundedUnchanged DEF RawTxFails, payVars, rowVars
  <2> QED BY <1>4, <2>1 DEF RawTxFails, RxIdle, FundedBeforeDeadline, LateRowsAreExtra,
             LookupHolds, SnapshotHolds, Funded, payVars, rowVars
<1> QED BY <1>1, <1>2, <1>3, <1>4 DEF RxStep

\* handleRawBlockMessage.
LEMMA FundingBx ==
  ASSUME TypeOK, TypeOK', Shape, Funding, BxStep \/ BlockFails
  PROVE  Funding'
<1> USE DEF Funding
<1>1. UNCHANGED <<expires, recorded, at, rx>>
  BY DEF BxStep, BlockMessage, BlockReadPayments, BlockReadChildren, BlockChild, BlockPayment,
         BlockFails, payVars, rowVars
<1>2. \A p : InTime(p)' = InTime(p) /\ Funded(p)' = Funded(p)
  BY <1>1, FundedUnchanged
<1>3. \A p \in Payments : status[p] # Absent => status'[p] # Absent
  <2>1. CASE BlockPayment
    BY <2>1 DEF BlockPayment, NewStatus, SnapshotHolds, Absent, TypeOK, PaymentsTyped
  <2>2. CASE status' = status
    BY <2>2
  <2> QED BY <2>1, <2>2 DEF BxStep, BlockMessage, BlockReadPayments, BlockReadChildren,
                            BlockChild, BlockFails, payVars
<1>4. LateRowsAreExtra'
  BY <1>1, <1>2, <1>3, ConstantsAssumption DEF LateRowsAreExtra, TypeOK, RowsTyped, Funded
<1>5. LookupHolds'
  BY <1>1, <1>2, <1>3 DEF LookupHolds, Shape, Funded
<1>6. SnapshotHolds'
  <2>1. CASE BlockMessage \/ BlockFails
    <3>1. CASE bx' = bx
      BY <1>2, <3>1 DEF SnapshotHolds
    <3>2. CASE /\ bx'.stat = [p \in Payments |-> Absent]
               /\ bx'.left = {} /\ bx'.cur = None
      BY <3>2 DEF SnapshotHolds, Absent, PostThreshold
    <3>3. \/ bx' = bx \/ bx' = BxIdle
          \/ bx' = [BxIdle EXCEPT !.pc = "getblock", !.txs = Tip.txs]
      BY <2>1 DEF BlockMessage, BlockFails
    <3>4. BxIdle.stat = [p \in Payments |-> Absent] /\ BxIdle.left = {} /\ BxIdle.cur = None
      BY DEF BxIdle
    <3>5. BxIdle \in BxStates
      BY ConstantsAssumption DEF BxIdle, BxStates
    <3>6. CASE bx' = [BxIdle EXCEPT !.pc = "getblock", !.txs = Tip.txs]
      <4> HIDE DEF BxIdle
      <4>1. bx'.stat = BxIdle.stat /\ bx'.left = BxIdle.left /\ bx'.cur = BxIdle.cur
        BY <3>5, <3>6 DEF BxStates
      <4> QED BY <3>2, <3>4, <4>1
    <3> QED BY <3>1, <3>2, <3>3, <3>4, <3>6
  <2>2. CASE BlockReadPayments
    <3>1. /\ \A p \in Payments : bx'.stat[p] \in {status[p], Absent}
          /\ bx'.left = bx.left /\ bx'.cur = bx.cur
      BY <2>2 DEF BlockReadPayments, TypeOK, BxTyped, BxStates
    <3>2. bx.left = {} /\ bx.cur = None
      BY <2>2 DEF BlockReadPayments, SnapshotHolds
    <3> QED BY <1>2, <3>1, <3>2 DEF SnapshotHolds, FundedBeforeDeadline, Paid, PostThreshold,
                               Absent, Funded
  <2>3. CASE BlockReadChildren
    BY <1>2, <2>3 DEF BlockReadChildren, SnapshotHolds, TypeOK, BxTyped, BxStates, BxIdle,
                      PostThreshold, Absent, Funded
  <2>4. CASE \E o \in Outputs : BlockChild(o)
    BY <1>2, <2>4 DEF BlockChild, SnapshotHolds, TypeOK, BxTyped, BxStates, PostThreshold, Funded
  <2>5. CASE BlockPayment
    BY <1>2, <2>5 DEF BlockPayment, SnapshotHolds, TypeOK, BxTyped, BxStates, BxIdle,
                      PostThreshold, Absent, Funded
  <2> QED BY <2>1, <2>2, <2>3, <2>4, <2>5 DEF BxStep
<1>7. FundedBeforeDeadline'
  <2> SUFFICES ASSUME NEW p \in Payments, status'[p] \in Paid PROVE Funded(p)
    BY <1>2 DEF FundedBeforeDeadline, Funded
  <2>1. CASE status'[p] = status[p]
    BY <2>1 DEF FundedBeforeDeadline, Funded
  <2>2. CASE status'[p] # status[p]
    <3>1. BlockPayment
      BY <2>2 DEF BxStep, BlockMessage, BlockReadPayments, BlockReadChildren, BlockChild,
                  BlockFails, payVars
    <3>2. p = bx.cur /\ bx.stat[p] # "AWAITING_PAYMENT"
      BY <2>2, <3>1 DEF BlockPayment, TypeOK, PaymentsTyped
    <3>3. bx.stat[p] \in PostThreshold
      BY <3>1, <3>2 DEF BlockPayment, SnapshotHolds, TypeOK, BxTyped, BxStates, ActiveStatuses,
                        PostThreshold
    <3> QED BY <3>3 DEF SnapshotHolds
  <2> QED BY <2>1, <2>2
<1> QED BY <1>4, <1>5, <1>6, <1>7

LEMMA FundingStep == TypeOK /\ TypeOK' /\ Shape /\ Funding /\ [Next]_vars => Funding'
<1> SUFFICES ASSUME TypeOK, TypeOK', Shape, Funding, [Next]_vars PROVE Funding'
  OBVIOUS
<1>1. CASE \/ AdvanceClock \/ LoseMessage
           \/ \E t \in Txids : Broadcast(t)
           \/ \E S \in SUBSET Txids : MineBlock(S)
           \/ \E S1, S2 \in SUBSET Txids : Reorg(S1, S2)
           \/ \E k \in Ticks : TickStart(k)
           \/ \E k \in Jobs : ExpireFind(k) \/ WatchlistRead(k) \/ WatchlistAssign(k) \/ JobFails(k)
           \/ UNCHANGED vars
  <2>1. UNCHANGED <<status, expires, recorded, at, rx, bx>>
    BY <1>1 DEF AdvanceClock, LoseMessage, Broadcast, MineBlock, Reorg, TickStart, ExpireFind,
                WatchlistRead, WatchlistAssign, JobFails, vars, payVars, rowVars
  <2> QED BY <2>1, FundingStutter
<1>2. ASSUME NEW p \in Payments, CreateInvoice(p) PROVE Funding'
  <2>1. \A q \in Payments : InTime(q)' = InTime(q)
    BY <1>2 DEF CreateInvoice, InTime, OutputsTo, Funding, LateRowsAreExtra, rowVars,
                TypeOK, PaymentsTyped
  <2>2. \A q \in Payments : Funded(q) => Funded(q)'
    BY <2>1, FundedStays
  <2>3. /\ UNCHANGED <<recorded, at, rx, bx>> /\ p \in Payments /\ status[p] = Absent
        /\ \A q \in Payments : q # p => status'[q] = status[q] /\ expires'[q] = expires[q]
        /\ status'[p] = "AWAITING_PAYMENT"
    BY <1>2 DEF CreateInvoice, rowVars, TypeOK, PaymentsTyped
  <2>4. FundedBeforeDeadline'
    BY <2>2, <2>3 DEF Funding, FundedBeforeDeadline, Funded, Paid, PostThreshold
  <2>5. LateRowsAreExtra'
    BY <2>1, <2>2, <2>3, ConstantsAssumption DEF Funding, LateRowsAreExtra, TypeOK, RowsTyped, Absent
  <2>6. LookupHolds'
    BY <2>2, <2>3 DEF Funding, LookupHolds, Shape
  <2>7. SnapshotHolds'
    BY <2>2, <2>3 DEF Funding, SnapshotHolds
  <2> QED BY <2>4, <2>5, <2>6, <2>7 DEF Funding
<1>3. CASE RxStep \/ RawTxFails
  BY <1>3, FundingRx
<1>4. CASE BxStep \/ BlockFails
  BY <1>4, FundingBx
<1>5. ASSUME NEW k \in Jobs, ExpireUpdate(k) PROVE Funding'
  <2>1. /\ UNCHANGED <<expires, recorded, at, rx, bx>>
        /\ \A p \in Payments : status'[p] \in {status[p], "EXPIRED"}
    BY <1>5 DEF ExpireUpdate, rowVars, TypeOK, PaymentsTyped
  <2>2. \A p : InTime(p)' = InTime(p) /\ Funded(p)' = Funded(p)
    BY <2>1, FundedUnchanged
  <2>3. FundedBeforeDeadline' /\ LateRowsAreExtra' /\ LookupHolds' /\ SnapshotHolds'
    BY <2>1, <2>2, ConstantsAssumption
    DEF Funding, FundedBeforeDeadline, LateRowsAreExtra, LookupHolds, SnapshotHolds, Funded,
        Shape, TypeOK, RowsTyped, Paid, PostThreshold, Absent
  <2> QED BY <2>3 DEF Funding
<1>6. CASE Crash
  <2>1. \A p : InTime(p)' = InTime(p) /\ Funded(p)' = Funded(p)
    BY <1>6, FundedUnchanged DEF Crash, payVars, rowVars
  <2> QED BY <1>6, <2>1 DEF Crash, RxIdle, BxIdle, Funding, FundedBeforeDeadline,
             LateRowsAreExtra, LookupHolds, SnapshotHolds, Funded, payVars, rowVars,
             PostThreshold, Absent
<1> QED BY <1>1, <1>2, <1>3, <1>4, <1>5, <1>6 DEF Next, JobStep

\* A payment shown as seen, confirming or confirmed is covered by outputs that
\* were detected before its deadline, whatever the two handlers, the expiry job,
\* crashes and failures do in between.
THEOREM PaidMeansFunded == Spec => []FundedBeforeDeadline
<1> DEFINE IInv == TypeOK /\ Shape /\ Funding
<1>1. Init => IInv
  BY TypeInit, FundingInit
<1>2. IInv /\ [Next]_vars => IInv'
  BY TypeStep, FundingStep
<1>3. IInv => FundedBeforeDeadline
  BY DEF Funding
<1> QED BY <1>1, <1>2, <1>3, PTL DEF Spec

-----------------------------------------------------------------------------
(* The list filter and the status shown *)

\* For every status of the enum, deadline and time, the rows the WHERE clause
\* selects for a status are those that are shown with it.
LEMMA FilterShowsWhatItSelects ==
  ASSUME NEW s \in PaymentStatuses, NEW st \in PaymentStatuses \cup {Absent},
         NEW d \in Deadlines, NEW time \in Nat
  PROVE  StatusWhere({s}, st, d, time) <=> EffectiveStatus(st, d, time) = s
<1>1. StatusWhere({s}, st, d, time) <=> MatchesStatus(s, st, d, time)
  BY DEF StatusWhere
<1>2. Due(d, time) <=> ~(d = NoDeadline \/ Open(d, time))
  BY NoDeadlineAssumption DEF Due, Open, Deadlines
<1>3. "EXPIRED" \notin ActiveStatuses
  BY DEF ActiveStatuses
<1>4. MatchesStatus(s, st, d, time) <=> EffectiveStatus(st, d, time) = s
  BY <1>2, <1>3 DEF MatchesStatus, EffectiveStatus
<1> QED BY <1>1, <1>4

\* GET /api/payments?status=... never hides a payment it would show, nor lists
\* one it shows otherwise (buildStatusWhereClause, computeEffectiveStatus).
THEOREM FilterAgrees == Spec => []FilterAgreesWithView
<1>1. TypeOK => FilterAgreesWithView
  BY FilterShowsWhatItSelects
  DEF TypeOK, PaymentsTyped, CountersTyped, FilterAgreesWithView
<1> QED BY <1>1, TypeCorrect, PTL

-----------------------------------------------------------------------------
(* No way back. A handler writes by the status it read before its await,   *)
(* so the invariant says what the status can have become meanwhile: a      *)
(* lookup that found the payment awaiting excludes a snapshot that found it*)
(* seen, and a snapshot still to be applied, a confirmation.               *)

\* The block handler has yet to decide about p.
Pending(p) == bx.pc = "children" \/ bx.cur = p \/ OutputsTo(p, bx.left) # {}

SnapshotIsPast ==
  \A p \in Payments : bx.stat[p] \in PostThreshold =>
    /\ status[p] \in Paid \cup {"EXPIRED"}
    /\ Pending(p) => status[p] # "CONFIRMED" /\ <<p, "CONFIRMED">> \notin calls

LookupIsEarly ==
  rx.pc = "commit" /\ rx.stat = "AWAITING_PAYMENT" =>
    /\ status[rx.pay] \in {"AWAITING_PAYMENT", "EXPIRED"}
    /\ confs[rx.pay] = 0
    /\ bx.stat[rx.pay] \notin PostThreshold

ConfsFollow ==
  \A p \in Payments :
    /\ status[p] \in {Absent, "AWAITING_PAYMENT"} => confs[p] = 0
    /\ <<p, "CONFIRMED">> \in calls => /\ confs[p] >= Required
                                       /\ status[p] \in {"CONFIRMED", "EXPIRED"}

Stages == SnapshotIsPast /\ LookupIsEarly /\ ConfsFollow

\* The steps that touch neither the payments nor what the handlers hold.
QuietStep ==
  \/ AdvanceClock \/ LoseMessage
  \/ \E t \in Txids : Broadcast(t)
  \/ \E S \in SUBSET Txids : MineBlock(S)
  \/ \E S1, S2 \in SUBSET Txids : Reorg(S1, S2)
  \/ \E k \in Ticks : TickStart(k)
  \/ \E k \in Jobs : ExpireFind(k) \/ WatchlistRead(k) \/ WatchlistAssign(k) \/ JobFails(k)
  \/ UNCHANGED vars

LEMMA QuietKeeps ==
  ASSUME QuietStep
  PROVE  UNCHANGED <<payVars, rowVars, calls, rx, bx>>
BY DEF QuietStep, AdvanceClock, LoseMessage, Broadcast, MineBlock, Reorg, TickStart, ExpireFind,
       WatchlistRead, WatchlistAssign, JobFails, vars

\* What the block handler decides for a payment it has counted the rows of.
LEMMA BlockDecision ==
  ASSUME TypeOK, BlockPayment
  PROVE  /\ bx.cur \in Payments /\ bx.pc = "apply" /\ OutputsTo(bx.cur, bx.left) = {}
         /\ bx' = BxIdle \/ (bx' = [bx EXCEPT !.cur = None] /\ bx.left # {})
         /\ \/ UNCHANGED <<status, confs, calls>>
            \/ /\ bx.stat[bx.cur] # "AWAITING_PAYMENT"
               /\ Total(OutputsTo(bx.cur, bx.seen)) >= Expected[bx.cur]
               /\ \E C \in CompletingSubsets(bx.cur, OutputsTo(bx.cur, bx.seen)), m \in Nat :
                    /\ m = Least({bx.conf[o] : o \in C})
                    /\ m > 0 \/ NewStatus(m, bx.stat[bx.cur]) # bx.stat[bx.cur]
                    /\ status' = [status EXCEPT ![bx.cur] = NewStatus(m, bx.stat[bx.cur])]
                    /\ confs' = [confs EXCEPT ![bx.cur] = m]
                    /\ calls' = IF /\ NewStatus(m, bx.stat[bx.cur]) # bx.stat[bx.cur]
                                   /\ NewStatus(m, bx.stat[bx.cur]) = "CONFIRMED"
                                THEN calls \cup {<<bx.cur, "CONFIRMED">>} ELSE calls
<1> DEFINE p == bx.cur
           rows == OutputsTo(p, bx.seen)
<1>1. /\ p \in Payments /\ bx.pc = "apply" /\ OutputsTo(p, bx.left) = {}
      /\ bx' = IF bx.left = {} THEN BxIdle ELSE [bx EXCEPT !.cur = None]
  BY DEF BlockPayment, TypeOK, BxTyped, BxStates
<1>2. CASE bx.stat[p] = "AWAITING_PAYMENT" \/ Total(rows) < Expected[p]
  BY <1>1, <1>2 DEF BlockPayment
<1>3. CASE ~(bx.stat[p] = "AWAITING_PAYMENT" \/ Total(rows) < Expected[p])
  <2>1. PICK C \in CompletingSubsets(p, rows) :
           LET m == Least({bx.conf[o] : o \in C})
               next == NewStatus(m, bx.stat[p])
           IN IF next # bx.stat[p] \/ m > 0
              THEN /\ status' = [status EXCEPT ![p] = next]
                   /\ confs' = [confs EXCEPT ![p] = m]
                   /\ calls' = IF next # bx.stat[p] /\ next = "CONFIRMED"
                               THEN calls \cup {<<p, "CONFIRMED">>} ELSE calls
              ELSE UNCHANGED <<status, confs, calls>>
    BY <1>3 DEF BlockPayment
  <2>2. Least({bx.conf[o] : o \in C}) \in Nat
    BY MinConfType DEF TypeOK
  <2>3. Total(rows) \in Nat /\ Expected[p] \in Nat
    BY <1>1, CoinsFinite, ConstantsAssumption DEF OutputsTo, TypeOK, BxTyped, BxStates
  <2>4. Total(rows) >= Expected[p]
    BY <1>3, <2>3
  <2> QED BY <1>1, <1>3, <2>1, <2>2, <2>4
<1> QED BY <1>1, <1>2, <1>3

LEMMA StagesInit == Init => Stages
BY ConstantsAssumption
DEF Init, Stages, SnapshotIsPast, LookupIsEarly, ConfsFollow, RxIdle, BxIdle, PostThreshold, Absent

\* A handler that starts or ends holds nothing.
LEMMA BxFresh ==
  ASSUME bx' = BxIdle \/ bx' = [BxIdle EXCEPT !.pc = "getblock", !.txs = Tip.txs]
  PROVE  /\ bx'.stat = [p \in Payments |-> Absent]
         /\ bx'.seen = {} /\ bx'.left = {} /\ bx'.cur = None
         /\ bx'.pc \in {"idle", "getblock"}
<1>1. BxIdle \in BxStates
  BY DEF BxIdle, BxStates
<1>2. /\ BxIdle.stat = [p \in Payments |-> Absent]
      /\ BxIdle.seen = {} /\ BxIdle.left = {} /\ BxIdle.cur = None /\ BxIdle.pc = "idle"
  BY DEF BxIdle
<1> HIDE DEF BxIdle
<1> QED BY <1>1, <1>2 DEF BxStates

\* Nothing of a snapshot that found no payment past its threshold.
LEMMA SnapshotGone ==
  ASSUME bx'.stat = [p \in Payments |-> Absent]
  PROVE  SnapshotIsPast'
BY DEF SnapshotIsPast, PostThreshold, Absent

\* handleRawTxMessage: the commit is the only step that changes a payment.
LEMMA StagesRx ==
  ASSUME TypeOK, Shape, Funding, Stages, RxStep \/ RawTxFails
  PROVE  Stages'
<1> USE DEF Stages
<1>1. CASE RawTxFails \/ \E t \in Txids : RawTxReceive(t)
  <2>1. UNCHANGED <<status, confs, calls, bx>> /\ rx'.pc # "commit"
    <3>1. CASE RawTxFails
      BY <3>1 DEF RawTxFails, RxIdle, payVars
    <3>2. ASSUME NEW t \in Txids, RawTxReceive(t)
          PROVE  UNCHANGED <<status, confs, calls, bx>> /\ rx'.pc # "commit"
      BY <3>2 DEF RawTxReceive, RxIdle, payVars
    <3> QED BY <1>1, <3>1, <3>2
  <2> QED BY <2>1 DEF SnapshotIsPast, LookupIsEarly, ConfsFollow, Pending, OutputsTo
<1>2. ASSUME NEW p \in Payments, RawTxLookup(p) PROVE Stages'
  <2>1. UNCHANGED <<status, confs, calls, bx>>
    BY <1>2 DEF RawTxLookup, payVars
  <2>2. CASE Creditable(p, rx.seenAt)
    <3>1. rx'.pay = p /\ rx'.stat = status[p]
      BY <1>2, <2>2 DEF RawTxLookup, TypeOK, RxTyped, RxStates
    <3>2. LookupIsEarly'
      BY <2>1, <3>1 DEF LookupIsEarly, SnapshotIsPast, ConfsFollow, Paid, PostThreshold
    <3> QED BY <2>1, <3>2 DEF SnapshotIsPast, ConfsFollow, Pending, OutputsTo
  <2>3. CASE ~ Creditable(p, rx.seenAt)
    <3>1. rx'.pc # "commit"
      BY <1>2, <2>3 DEF RawTxLookup, RxAfter, RxIdle, TypeOK, RxTyped, RxStates
    <3> QED BY <2>1, <3>1 DEF SnapshotIsPast, LookupIsEarly, ConfsFollow, Pending, OutputsTo
  <2> QED BY <2>2, <2>3
<1>3. CASE RawTxCommit
  <2>0. PICK p \in Payments : p = rx.pay
    BY <1>3 DEF RawTxCommit, Shape
  <2>1. bx' = bx /\ rx'.pc # "commit" /\ rx.pc = "commit"
    BY <1>3, <2>0 DEF RawTxCommit, RxAfter, RxIdle, TypeOK, RxTyped, RxStates
  <2>2. CASE UNCHANGED <<status, confs, calls>>
    BY <2>1, <2>2 DEF SnapshotIsPast, LookupIsEarly, ConfsFollow, Pending, OutputsTo
  <2>3. CASE /\ rx.stat = "AWAITING_PAYMENT"
             /\ status' = [status EXCEPT ![p] = "SEEN_IN_MEMPOOL"]
             /\ confs' = [confs EXCEPT ![p] = 0]
             /\ calls' = calls \cup {<<p, "SEEN_IN_MEMPOOL">>}
    <3>1. confs[p] = 0 /\ bx.stat[p] \notin PostThreshold
      BY <2>0, <2>1, <2>3 DEF LookupIsEarly
    <3>2. /\ \A q \in Payments : q # p => status'[q] = status[q]
          /\ status'[p] = "SEEN_IN_MEMPOOL" /\ confs' = confs
      BY <2>3, <3>1 DEF TypeOK, PaymentsTyped
    <3>3. <<p, "CONFIRMED">> \notin calls
      BY <3>1, ConstantsAssumption DEF ConfsFollow
    <3>4. \A q \in Payments : <<q, "CONFIRMED">> \in calls' <=> <<q, "CONFIRMED">> \in calls
      BY <2>3
    <3>5. SnapshotIsPast'
      BY <2>1, <3>1, <3>2, <3>4 DEF SnapshotIsPast, Pending, OutputsTo
    <3>6. ConfsFollow'
      BY <3>2, <3>3, <3>4 DEF ConfsFollow, Absent
    <3> QED BY <2>1, <3>5, <3>6 DEF LookupIsEarly
  <2> QED BY <1>3, <2>0, <2>2, <2>3 DEF RawTxCommit, LookedUpAwaiting
<1> QED BY <1>1, <1>2, <1>3 DEF RxStep

\* handleRawBlockMessage: only the last step of a payment writes to it.
LEMMA StagesBx ==
  ASSUME TypeOK, Shape, Funding, Stages, BxStep \/ BlockFails
  PROVE  Stages'
<1> USE DEF Stages
<1>0. rx' = rx
  BY DEF BxStep, BlockMessage, BlockReadPayments, BlockReadChildren, BlockChild, BlockPayment,
         BlockFails
<1>1. CASE BlockMessage \/ BlockFails
  <2>1. UNCHANGED <<status, confs, calls>>
    BY <1>1 DEF BlockMessage, BlockFails, payVars
  <2>2. CASE bx' = bx
    BY <1>0, <2>1, <2>2 DEF SnapshotIsPast, LookupIsEarly, ConfsFollow, Pending, OutputsTo
  <2>3. CASE bx'.stat = [p \in Payments |-> Absent]
    <3>1. LookupIsEarly'
      BY <1>0, <2>1, <2>3 DEF LookupIsEarly, PostThreshold, Absent, Shape
    <3> QED BY <2>1, <2>3, <3>1, SnapshotGone DEF ConfsFollow
  <2>4. \/ bx' = bx \/ bx' = BxIdle
        \/ bx' = [BxIdle EXCEPT !.pc = "getblock", !.txs = Tip.txs]
    BY <1>1 DEF BlockMessage, BlockFails
  <2> QED BY <2>2, <2>3, <2>4, BxFresh
<1>2. CASE BlockReadPayments
  <2>1. UNCHANGED <<status, confs, calls>>
    BY <1>2 DEF BlockReadPayments, payVars
  <2>2. \A p \in Payments : bx'.stat[p] \in {status[p], Absent}
    BY <1>2 DEF BlockReadPayments, TypeOK, BxTyped, BxStates
  <2>3. SnapshotIsPast'
    BY <2>1, <2>2 DEF SnapshotIsPast, ConfsFollow, Paid, PostThreshold, Absent
  <2>4. LookupIsEarly'
    BY <1>0, <2>1, <2>2 DEF LookupIsEarly, PostThreshold, Absent, Shape
  <2> QED BY <2>1, <2>3, <2>4 DEF ConfsFollow
<1>3. CASE BlockReadChildren \/ \E o \in Outputs : BlockChild(o)
  <2>1. UNCHANGED <<status, confs, calls>>
    BY <1>3 DEF BlockReadChildren, BlockChild, payVars
  <2>2. \/ bx' = BxIdle
        \/ /\ bx'.stat = bx.stat
           /\ \A p \in Payments : Pending(p)' => Pending(p)
    <3>1. CASE BlockReadChildren
      BY <3>1 DEF BlockReadChildren, Pending, TypeOK, BxTyped, BxStates
    <3>2. ASSUME NEW o \in Outputs, BlockChild(o) PROVE bx'.stat = bx.stat /\ \A p \in Payments : Pending(p)' => Pending(p)
      BY <3>2 DEF BlockChild, Pending, OutputsTo, TypeOK, BxTyped, BxStates
    <3> QED BY <1>3, <3>1, <3>2
  <2>3. CASE bx' = BxIdle
    BY <1>0, <2>1, <2>3, SnapshotGone DEF BxIdle, LookupIsEarly, ConfsFollow, PostThreshold, Absent, Shape
  <2> QED BY <1>0, <2>1, <2>2, <2>3 DEF SnapshotIsPast, LookupIsEarly, ConfsFollow
<1>4. CASE BlockPayment
  <2>0. PICK p \in Payments : p = bx.cur
    BY <1>4, BlockDecision
  <2>1. /\ bx.pc = "apply" /\ OutputsTo(p, bx.left) = {}
        /\ bx' = BxIdle \/ (bx' = [bx EXCEPT !.cur = None] /\ bx.left # {})
    BY <1>4, <2>0, BlockDecision
  <2>2. \/ bx' = BxIdle
        \/ /\ bx'.stat = bx.stat /\ ~ Pending(p)'
           /\ \A q \in Payments : Pending(q)' => Pending(q)
    BY <2>1, ConstantsAssumption DEF Pending, OutputsTo, TypeOK, BxTyped, BxStates
  <2>3. \/ bx'.stat = [q \in Payments |-> Absent]
        \/ /\ bx'.stat = bx.stat /\ ~ Pending(p)'
           /\ \A q \in Payments : Pending(q)' => Pending(q)
    BY <2>2 DEF BxIdle
  <2>4. CASE UNCHANGED <<status, confs, calls>>
    BY <1>0, <2>1, <2>3, <2>4, SnapshotGone
    DEF SnapshotIsPast, LookupIsEarly, ConfsFollow, PostThreshold, Absent, Shape
  <2>5. ASSUME bx.stat[p] # "AWAITING_PAYMENT", NEW m \in Nat,
               m > 0 \/ NewStatus(m, bx.stat[p]) # bx.stat[p],
               status' = [status EXCEPT ![p] = NewStatus(m, bx.stat[p])],
               confs' = [confs EXCEPT ![p] = m],
               calls' = IF /\ NewStatus(m, bx.stat[p]) # bx.stat[p]
                           /\ NewStatus(m, bx.stat[p]) = "CONFIRMED"
                        THEN calls \cup {<<p, "CONFIRMED">>} ELSE calls
        PROVE  Stages'
    <3>1. bx.stat[p] \in PostThreshold
      BY <2>0, <2>5, ConstantsAssumption DEF Funding, SnapshotHolds, TypeOK, BxTyped, BxStates,
                              ActiveStatuses, PostThreshold
    <3>2. /\ status'[p] \in {"CONFIRMING", "CONFIRMED"}
          /\ status'[p] = "CONFIRMED" => m >= Required
          /\ confs'[p] = m
      BY <2>1, <2>5, <3>1, ConstantsAssumption DEF NewStatus, PostThreshold, TypeOK, PaymentsTyped
    <3>3. \A q \in Payments : q # p => status'[q] = status[q] /\ confs'[q] = confs[q]
      BY <2>5 DEF TypeOK, PaymentsTyped
    <3>4. \A q \in Payments : q # p =>
            (<<q, "CONFIRMED">> \in calls' <=> <<q, "CONFIRMED">> \in calls)
      BY <2>5
    <3>5. <<p, "CONFIRMED">> \in calls' => status'[p] = "CONFIRMED"
      <4>1. Pending(p)
        BY <2>0 DEF Pending
      <4>2. <<p, "CONFIRMED">> \notin calls
        BY <2>1, <3>1, <4>1 DEF SnapshotIsPast
      <4> QED BY <2>1, <2>5, <4>2 DEF TypeOK, PaymentsTyped
    <3>6. SnapshotIsPast'
      <4>1. CASE bx'.stat = bx.stat /\ ~ Pending(p)' /\ \A q \in Payments : Pending(q)' => Pending(q)
        <5>1. ASSUME NEW q \in Payments, bx.stat[q] \in PostThreshold
              PROVE  /\ status'[q] \in Paid \cup {"EXPIRED"}
                     /\ Pending(q)' => status'[q] # "CONFIRMED" /\ <<q, "CONFIRMED">> \notin calls'
          <6>1. CASE q = p
            BY <3>2, <4>1, <6>1 DEF Paid, PostThreshold
          <6>2. CASE q # p
            BY <3>3, <3>4, <4>1, <5>1, <6>2 DEF SnapshotIsPast
          <6> QED BY <6>1, <6>2
        <5> QED BY <4>1, <5>1 DEF SnapshotIsPast
      <4> QED BY <2>3, <4>1, SnapshotGone
    <3>7. LookupIsEarly'
      <4>1. rx.pc = "commit" /\ rx.stat = "AWAITING_PAYMENT" => rx.pay \in Payments /\ rx.pay # p
        BY <3>1 DEF LookupIsEarly, Shape
      <4> QED BY <1>0, <2>3, <3>3, <4>1 DEF LookupIsEarly, PostThreshold, Absent
    <3>8. ConfsFollow'
      <4>1. ASSUME NEW q \in Payments
            PROVE  /\ status'[q] \in {Absent, "AWAITING_PAYMENT"} => confs'[q] = 0
                   /\ <<q, "CONFIRMED">> \in calls' => /\ confs'[q] >= Required
                                                       /\ status'[q] \in {"CONFIRMED", "EXPIRED"}
        <5>1. CASE q = p
          BY <3>2, <3>5, <5>1 DEF Absent
        <5>2. CASE q # p
          BY <3>3, <3>4, <5>2 DEF ConfsFollow
        <5> QED BY <5>1, <5>2
      <4> QED BY <4>1 DEF ConfsFollow
    <3> QED BY <3>6, <3>7, <3>8
  <2> QED BY <1>4, <2>0, <2>4, <2>5, BlockDecision
<1> QED BY <1>1, <1>2, <1>3, <1>4 DEF BxStep

LEMMA StagesStep == TypeOK /\ Shape /\ Funding /\ Stages /\ [Next]_vars => Stages'
<1> SUFFICES ASSUME TypeOK, Shape, Funding, Stages, [Next]_vars PROVE Stages'
  OBVIOUS
<1>1. CASE QuietStep
  <2>1. UNCHANGED <<status, confs, calls, rx, bx>>
    BY <1>1, QuietKeeps DEF payVars
  <2> QED BY <2>1 DEF Stages, SnapshotIsPast, LookupIsEarly, ConfsFollow, Pending, OutputsTo
<1>2. ASSUME NEW p \in Payments, CreateInvoice(p) PROVE Stages'
  <2>1. /\ UNCHANGED <<confs, calls, rx, bx>> /\ status[p] = Absent
        /\ \A q \in Payments : q # p => status'[q] = status[q]
        /\ status'[p] = "AWAITING_PAYMENT"
    BY <1>2 DEF CreateInvoice, TypeOK, PaymentsTyped
  <2>2. bx.stat[p] \notin PostThreshold /\ <<p, "CONFIRMED">> \notin calls
    BY <2>1 DEF Stages, SnapshotIsPast, ConfsFollow, Paid, PostThreshold, Absent
  <2>3. SnapshotIsPast'
    BY <2>1, <2>2 DEF Stages, SnapshotIsPast, Pending, OutputsTo
  <2>4. LookupIsEarly'
    BY <2>1 DEF Stages, LookupIsEarly, Shape
  <2>5. ConfsFollow'
    BY <2>1, <2>2 DEF Stages, ConfsFollow
  <2> QED BY <2>3, <2>4, <2>5 DEF Stages
<1>3. CASE RxStep \/ RawTxFails
  BY <1>3, StagesRx
<1>4. CASE BxStep \/ BlockFails
  BY <1>4, StagesBx
<1>5. ASSUME NEW k \in Jobs, ExpireUpdate(k) PROVE Stages'
  <2>1. /\ UNCHANGED <<confs, rx, bx>>
        /\ \A p \in Payments : status'[p] \in {status[p], "EXPIRED"}
        /\ \A p \in Payments : <<p, "CONFIRMED">> \in calls' <=> <<p, "CONFIRMED">> \in calls
    BY <1>5 DEF ExpireUpdate, TypeOK, PaymentsTyped
  <2>2. SnapshotIsPast'
    BY <2>1 DEF Stages, SnapshotIsPast, Pending, OutputsTo
  <2>3. LookupIsEarly' /\ ConfsFollow'
    BY <2>1 DEF Stages, LookupIsEarly, ConfsFollow, Shape, Absent
  <2> QED BY <2>2, <2>3 DEF Stages
<1>6. CASE Crash
  <2>1. UNCHANGED <<status, confs, calls>> /\ rx'.pc # "commit"
        /\ bx'.stat = [p \in Payments |-> Absent]
    BY <1>6 DEF Crash, payVars, RxIdle, BxIdle
  <2> QED BY <2>1, SnapshotGone DEF Stages, LookupIsEarly, ConfsFollow
<1> QED BY <1>1, <1>2, <1>3, <1>4, <1>5, <1>6 DEF Next, JobStep, QuietStep

\* What the later sections build on.
Core == TypeOK /\ Shape /\ Funding /\ Stages

LEMMA CoreStep == Core /\ [Next]_vars => Core /\ Core'
BY TypeStep, FundingStep, StagesStep DEF Core

LEMMA CoreInvariance == Spec => []Core
<1>1. Init => Core
  BY TypeInit, FundingInit, StagesInit DEF Core
<1> QED BY <1>1, CoreStep, PTL DEF Spec

\* The block handler's write, decided by a snapshot that found p past its threshold.
BlockWrites(p) ==
  /\ BlockPayment /\ p = bx.cur /\ bx.stat[p] \in PostThreshold
  /\ status[p] # "CONFIRMED" /\ <<p, "CONFIRMED">> \notin calls
  /\ \E C \in CompletingSubsets(p, OutputsTo(p, bx.seen)), m \in Nat \ {0} :
       /\ m = Least({bx.conf[o] : o \in C})
       /\ status'[p] = IF m >= Required THEN "CONFIRMED" ELSE "CONFIRMING"
       /\ confs'[p] = m

\* The transaction handler's write, for a payment it had found awaiting.
TransactionWrites(p) ==
  /\ RawTxCommit /\ p = rx.pay /\ rx.pc = "commit" /\ rx.stat = "AWAITING_PAYMENT"
  /\ status'[p] = "SEEN_IN_MEMPOOL" /\ confs'[p] = 0

\* The steps that change the status or the confirmations of a payment.
LEMMA PaymentChanges ==
  ASSUME Core, [Next]_vars, NEW p \in Payments
  PROVE  \/ status'[p] = status[p] /\ confs'[p] = confs[p]
         \/ CreateInvoice(p) /\ status'[p] = "AWAITING_PAYMENT" /\ confs'[p] = confs[p]
         \/ (\E k \in Jobs : ExpireUpdate(k)) /\ status'[p] = "EXPIRED" /\ confs'[p] = confs[p]
         \/ TransactionWrites(p) \/ BlockWrites(p)
<1> USE DEF Core
<1>1. CASE \/ QuietStep \/ RawTxFails \/ BlockFails \/ Crash
           \/ \E t \in Txids : RawTxReceive(t)
           \/ \E q \in Payments : RawTxLookup(q)
           \/ BlockMessage \/ BlockReadPayments \/ BlockReadChildren
           \/ \E o \in Outputs : BlockChild(o)
  <2>1. UNCHANGED payVars
    BY <1>1, QuietKeeps DEF RawTxFails, BlockFails, Crash, RawTxReceive, RawTxLookup, BlockMessage,
       BlockReadPayments, BlockReadChildren, BlockChild
  <2> QED BY <2>1 DEF payVars
<1>2. CASE \E q \in Payments : CreateInvoice(q)
  BY <1>2 DEF CreateInvoice, TypeOK, PaymentsTyped
<1>3. CASE \E k \in Jobs : ExpireUpdate(k)
  <2>1. \/ status'[p] = status[p] /\ confs'[p] = confs[p]
        \/ status'[p] = "EXPIRED" /\ confs'[p] = confs[p]
    BY <1>3 DEF ExpireUpdate
  <2> QED BY <1>3, <2>1
<1>4. CASE RawTxCommit
  BY <1>4 DEF RawTxCommit, TransactionWrites, LookedUpAwaiting, Shape, TypeOK, PaymentsTyped
<1>5. CASE BlockPayment
  <2>1. CASE p = bx.cur /\ ~(status'[p] = status[p] /\ confs'[p] = confs[p])
    <3>1. PICK C \in CompletingSubsets(p, OutputsTo(p, bx.seen)), m \in Nat :
            /\ m = Least({bx.conf[o] : o \in C})
            /\ m > 0 \/ NewStatus(m, bx.stat[p]) # bx.stat[p]
            /\ status' = [status EXCEPT ![p] = NewStatus(m, bx.stat[p])]
            /\ confs' = [confs EXCEPT ![p] = m]
      BY <1>5, <2>1, BlockDecision
    <3>2. bx.stat[p] \in PostThreshold
      BY <1>5, <2>1, BlockDecision, ConstantsAssumption
      DEF Funding, SnapshotHolds, TypeOK, BxTyped, BxStates, ActiveStatuses, PostThreshold
    <3>3. status[p] # "CONFIRMED" /\ <<p, "CONFIRMED">> \notin calls
      BY <2>1, <3>2 DEF Stages, SnapshotIsPast, Pending
    <3>4. /\ m \in Nat \ {0}
          /\ NewStatus(m, bx.stat[p]) = IF m >= Required THEN "CONFIRMED" ELSE "CONFIRMING"
      BY <3>1, ConstantsAssumption DEF NewStatus
    <3>5. status'[p] = NewStatus(m, bx.stat[p]) /\ confs'[p] = m
      BY <3>1 DEF TypeOK, PaymentsTyped
    <3> QED BY <1>5, <2>1, <3>1, <3>2, <3>3, <3>4, <3>5 DEF BlockWrites
  <2>2. CASE p # bx.cur
    BY <1>5, <2>2, BlockDecision DEF TypeOK, PaymentsTyped
  <2> QED BY <2>1, <2>2
<1>6. \/ QuietStep \/ RawTxFails \/ BlockFails \/ Crash
      \/ \E t \in Txids : RawTxReceive(t)
      \/ \E q \in Payments : RawTxLookup(q)
      \/ BlockMessage \/ BlockReadPayments \/ BlockReadChildren
      \/ \E o \in Outputs : BlockChild(o)
      \/ \E q \in Payments : CreateInvoice(q)
      \/ \E k \in Jobs : ExpireUpdate(k)
      \/ RawTxCommit \/ BlockPayment
  BY DEF Next, JobStep, RxStep, BxStep, QuietStep
<1> QED BY <1>1, <1>2, <1>3, <1>4, <1>5, <1>6

\* No handler takes a payment back to an earlier stage, although each writes by
\* a status it read before an await: a lookup that found the payment awaiting
\* and a block's snapshot that found it seen never meet.
THEOREM NoWayBack == Spec => NoDemotion
<1> DEFINE Step == \A p \in Payments :
             /\ status'[p] = "AWAITING_PAYMENT" => status[p] \in {Absent, "AWAITING_PAYMENT"}
             /\ status'[p] = "SEEN_IN_MEMPOOL" => status[p] \notin {"CONFIRMING", "CONFIRMED"}
             /\ status'[p] = "CONFIRMING" => status[p] # "CONFIRMED"
<1>1. Core /\ [Next]_vars => [Step]_vars
  <2> SUFFICES ASSUME Core, [Next]_vars, NEW p \in Payments
               PROVE  /\ status'[p] = "AWAITING_PAYMENT" => status[p] \in {Absent, "AWAITING_PAYMENT"}
                      /\ status'[p] = "SEEN_IN_MEMPOOL" => status[p] \notin {"CONFIRMING", "CONFIRMED"}
                      /\ status'[p] = "CONFIRMING" => status[p] # "CONFIRMED"
    OBVIOUS
  <2>1. CASE status'[p] = status[p]
    BY <2>1
  <2>2. CASE CreateInvoice(p)
    BY <2>2 DEF CreateInvoice, Core, TypeOK, PaymentsTyped
  <2>3. CASE status'[p] = "EXPIRED"
    BY <2>3
  <2>4. CASE TransactionWrites(p)
    BY <2>4 DEF TransactionWrites, Core, Stages, LookupIsEarly
  <2>5. CASE BlockWrites(p)
    BY <2>5 DEF BlockWrites
  <2> QED BY <2>1, <2>2, <2>3, <2>4, <2>5, PaymentChanges
<1> QED BY <1>1, CoreInvariance, PTL DEF Spec, NoDemotion

-----------------------------------------------------------------------------
(* The mails. What was funded, past its deadline or confirmed when the call*)
(* was made is so for ever: rows and time only grow, and a confirmed payment*)
(* is never looked at again.                                               *)

\* The steps that write rows, or an invoice's deadline.
LEMMA RowChanges ==
  ASSUME [Next]_vars
  PROVE  \/ UNCHANGED <<expires, received, detected, recorded, at>>
         \/ /\ \E p \in Payments : CreateInvoice(p)
            /\ UNCHANGED <<received, detected, recorded, at>>
         \/ RawTxCommit
<1>1. CASE \/ QuietStep \/ RawTxFails \/ BlockFails \/ Crash
           \/ \E t \in Txids : RawTxReceive(t)
           \/ \E q \in Payments : RawTxLookup(q)
           \/ BxStep
  BY <1>1, QuietKeeps DEF RawTxFails, BlockFails, Crash, RawTxReceive, RawTxLookup, BxStep,
     BlockMessage, BlockReadPayments, BlockReadChildren, BlockChild, BlockPayment, payVars, rowVars
<1>2. CASE \E q \in Payments : CreateInvoice(q)
  BY <1>2 DEF CreateInvoice, rowVars
<1>3. CASE \E k \in Jobs : ExpireUpdate(k)
  BY <1>3 DEF ExpireUpdate, rowVars
<1> QED BY <1>1, <1>2, <1>3 DEF Next, JobStep, RxStep, QuietStep

\* The commit inserts the missing rows of one payment, and leaves the others alone.
LEMMA CommitRows ==
  ASSUME TypeOK, Shape, RawTxCommit
  PROVE  /\ rx.pay \in Payments /\ rx.pc = "commit"
         /\ NewRows(rx.pay) \subseteq Outputs /\ NewRows(rx.pay) \cap recorded = {}
         /\ \A o \in NewRows(rx.pay) : PaidTo[o] = rx.pay /\ TxOf[o] = rx.tx
         /\ recorded' = recorded \cup NewRows(rx.pay)
         /\ \A o \in NewRows(rx.pay) : at'[o] = rx.seenAt /\ conf'[o] = 0
         /\ \A o \in Outputs \ NewRows(rx.pay) : at'[o] = at[o] /\ conf'[o] = conf[o]
         /\ expires' = expires /\ bx' = bx /\ rx' = RxAfter(rx.pay)
BY DEF RawTxCommit, NewRows, Shape

\* An invoice keeps its row and its deadline, and its rows in time only grow.
LEMMA InTimeGrows ==
  ASSUME Core, [Next]_vars, NEW p \in Payments
  PROVE  /\ InTime(p) \subseteq InTime(p)'
         /\ status[p] # Absent => status'[p] # Absent /\ expires'[p] = expires[p]
<1> USE DEF Core
<1>1. status[p] # Absent => status'[p] # Absent
  BY PaymentChanges DEF TransactionWrites, BlockWrites, Absent
<1>2. CASE UNCHANGED <<expires, received, detected, recorded, at>>
  BY <1>1, <1>2 DEF InTime, OutputsTo
<1>3. ASSUME NEW q \in Payments, CreateInvoice(q), UNCHANGED <<received, detected, recorded, at>>
      PROVE  InTime(p) \subseteq InTime(p)' /\ (status[p] # Absent => expires'[p] = expires[p])
  BY <1>3 DEF CreateInvoice, InTime, OutputsTo, Funding, LateRowsAreExtra, TypeOK, PaymentsTyped
<1>4. CASE RawTxCommit
  <2>1. InTime(p) \subseteq InTime(p)'
    BY <1>4, CommitRows DEF InTime, OutputsTo, TypeOK, RowsTyped
  <2> QED BY <1>1, <1>4, <2>1, CommitRows
<1> QED BY <1>1, <1>2, <1>3, <1>4, RowChanges

\* The payments an expiry job is about to update.
Overdue(k) == {p \in job[k].ids : job[k].pc = "update"}

MailsHold ==
  /\ \A m \in calls : /\ status[m[1]] # Absent
                      /\ m[2] \in Paid => Funded(m[1])
                      /\ m[2] = "EXPIRED" => Due(expires[m[1]], now)
  /\ \A k \in Jobs : \A p \in Overdue(k) : status[p] # Absent /\ Due(expires[p], now)

\* What a step adds to the calls.
LEMMA CallChanges ==
  ASSUME Core, [Next]_vars, NEW m \in calls' \ calls
  PROVE  /\ m[1] \in Payments
         /\ \/ m[2] \in Paid /\ status'[m[1]] \in Paid
            \/ m[2] = "EXPIRED" /\ \E k \in Jobs : m[1] \in Overdue(k)
<1> USE DEF Core
<1>1. CASE \/ QuietStep \/ RawTxFails \/ BlockFails \/ Crash
           \/ \E t \in Txids : RawTxReceive(t)
           \/ \E q \in Payments : RawTxLookup(q)
           \/ BlockMessage \/ BlockReadPayments \/ BlockReadChildren
           \/ \E q \in Payments : CreateInvoice(q)
           \/ \E o \in Outputs : BlockChild(o)
  <2>1. calls' = calls
    BY <1>1, QuietKeeps DEF RawTxFails, BlockFails, Crash, RawTxReceive, RawTxLookup, BlockMessage,
       BlockReadPayments, BlockReadChildren, BlockChild, CreateInvoice
  <2> QED BY <2>1
<1>2. ASSUME NEW k \in Jobs, ExpireUpdate(k)
      PROVE  m[1] \in Payments /\ m[2] = "EXPIRED" /\ m[1] \in Overdue(k)
  BY <1>2 DEF ExpireUpdate, Overdue, TypeOK, JobTyped, JobStates
<1>3. CASE RawTxCommit
  <2>1. /\ m = <<rx.pay, "SEEN_IN_MEMPOOL">> /\ rx.pay \in Payments
        /\ status'[rx.pay] = "SEEN_IN_MEMPOOL"
    BY <1>3 DEF RawTxCommit, Shape, TypeOK, PaymentsTyped
  <2> QED BY <2>1 DEF Paid, PostThreshold
<1>4. CASE BlockPayment
  <2>1. /\ m = <<bx.cur, "CONFIRMED">> /\ bx.cur \in Payments
        /\ status'[bx.cur] = "CONFIRMED"
    <3>1. calls' # calls
      OBVIOUS
    <3>2. PICK st : /\ status' = [status EXCEPT ![bx.cur] = st]
                    /\ st = "CONFIRMED" /\ calls' = calls \cup {<<bx.cur, "CONFIRMED">>}
      BY <1>4, <3>1, BlockDecision
    <3> QED BY <1>4, <3>2, BlockDecision DEF TypeOK, PaymentsTyped
  <2> QED BY <2>1 DEF Paid
<1>5. \/ QuietStep \/ RawTxFails \/ BlockFails \/ Crash
      \/ \E t \in Txids : RawTxReceive(t)
      \/ \E q \in Payments : RawTxLookup(q)
      \/ BlockMessage \/ BlockReadPayments \/ BlockReadChildren
      \/ \E q \in Payments : CreateInvoice(q)
      \/ \E o \in Outputs : BlockChild(o)
      \/ \E k \in Jobs : ExpireUpdate(k)
      \/ RawTxCommit \/ BlockPayment
  BY DEF Next, JobStep, RxStep, BxStep, QuietStep
<1> QED BY <1>1, <1>2, <1>3, <1>4, <1>5

LEMMA MailsStep == Core /\ Core' /\ MailsHold /\ [Next]_vars => MailsHold'
<1> SUFFICES ASSUME Core, Core', MailsHold, [Next]_vars PROVE MailsHold'
  OBVIOUS
<1> USE DEF Core
<1>1. now' \in {now, now + 1}
  BY DEF Next, vars, AdvanceClock, CreateInvoice, Broadcast, MineBlock, Reorg, LoseMessage, RxStep,
     RawTxReceive, RawTxLookup, RawTxCommit, RawTxFails, BxStep, BlockMessage, BlockReadPayments,
     BlockReadChildren, BlockChild, BlockPayment, BlockFails, TickStart, JobStep, ExpireFind,
     ExpireUpdate, WatchlistRead, WatchlistAssign, JobFails, Crash
<1>2. ASSUME NEW p \in Payments, status[p] # Absent, Due(expires[p], now)
      PROVE  Due(expires'[p], now')
  BY <1>1, <1>2, InTimeGrows DEF Due, TypeOK, PaymentsTyped, CountersTyped, Deadlines
<1>3. ASSUME NEW m \in calls'
      PROVE  /\ status'[m[1]] # Absent
             /\ m[2] \in Paid => Funded(m[1])'
             /\ m[2] = "EXPIRED" => Due(expires'[m[1]], now')
  <2>1. PICK p \in Payments : p = m[1]
    BY DEF TypeOK, CallsTyped
  <2>2. CASE m \in calls
    <3>1. status'[p] # Absent
      BY <2>1, <2>2, InTimeGrows DEF MailsHold
    <3>2. m[2] \in Paid => Funded(p)'
      BY <2>1, <2>2, InTimeGrows, FundedStays DEF MailsHold
    <3>3. m[2] = "EXPIRED" => Due(expires'[p], now')
      BY <1>2, <2>1, <2>2 DEF MailsHold
    <3> QED BY <2>1, <3>1, <3>2, <3>3 DEF Funded
  <2>3. CASE m \notin calls /\ m[2] \in Paid /\ status'[p] \in Paid
    BY <2>1, <2>3 DEF Funding, FundedBeforeDeadline, Funded, Paid, PostThreshold, Absent
  <2>4. CASE m \notin calls /\ m[2] = "EXPIRED" /\ \E k \in Jobs : p \in Overdue(k)
    <3>1. status[p] # Absent /\ Due(expires[p], now)
      BY <2>4 DEF MailsHold
    <3> QED BY <1>2, <2>1, <2>4, <3>1, InTimeGrows DEF Paid, PostThreshold
  <2> QED BY <2>1, <2>2, <2>3, <2>4, CallChanges
<1>4. ASSUME NEW k \in Jobs, NEW p \in Overdue(k)'
      PROVE  status'[p] # Absent /\ Due(expires'[p], now')
  <2>1. \/ Overdue(k)' \subseteq Overdue(k)
        \/ \A q \in Overdue(k)' : status[q] = "AWAITING_PAYMENT" /\ Due(expires[q], now)
    <3>1. CASE job' = job
      BY <3>1 DEF Overdue
    <3>2. ASSUME NEW j \in Ticks, TickStart(j) PROVE Overdue(k)' \subseteq Overdue(k)
      BY <3>2 DEF TickStart, Overdue, TypeOK, JobTyped, JobStates, Jobs
    <3>3. ASSUME NEW j \in Jobs, ExpireFind(j)
          PROVE  \/ Overdue(k)' \subseteq Overdue(k)
                 \/ \A q \in Overdue(k)' : status[q] = "AWAITING_PAYMENT" /\ Due(expires[q], now)
      BY <3>3 DEF ExpireFind, Overdue, TypeOK, JobTyped, JobStates
    <3>4. ASSUME NEW j \in Jobs, ExpireUpdate(j) \/ WatchlistRead(j) \/ WatchlistAssign(j) \/ JobFails(j)
          PROVE  Overdue(k)' \subseteq Overdue(k)
      BY <3>4 DEF ExpireUpdate, WatchlistRead, WatchlistAssign, JobFails, Overdue, TypeOK, JobTyped, JobStates
    <3>5. CASE Crash
      BY <3>5 DEF Crash, Overdue
    <3>6. \/ job' = job \/ Crash
          \/ \E j \in Ticks : TickStart(j)
          \/ \E j \in Jobs : ExpireFind(j) \/ ExpireUpdate(j)
                              \/ WatchlistRead(j) \/ WatchlistAssign(j) \/ JobFails(j)
      BY DEF Next, vars, AdvanceClock, CreateInvoice, Broadcast, MineBlock, Reorg, LoseMessage, RxStep,
         RawTxReceive, RawTxLookup, RawTxCommit, RawTxFails, BxStep, BlockMessage, BlockReadPayments,
         BlockReadChildren, BlockChild, BlockPayment, BlockFails, JobStep
    <3> QED BY <3>1, <3>2, <3>3, <3>4, <3>5, <3>6
  <2>2. p \in Payments /\ status[p] # Absent /\ Due(expires[p], now)
    BY <2>1 DEF MailsHold, Overdue, Absent, TypeOK, JobTyped, JobStates
  <2> QED BY <1>2, <2>2, InTimeGrows
<1> QED BY <1>3, <1>4 DEF MailsHold, Funded

\* The merchant is told only what happened and what stays so: "seen" of a payment
\* covered in time, "confirmed" of one that counts the required confirmations,
\* "expired" of one past its deadline, though the expiry job decides by ids it
\* read before an await and the block handler by a snapshot.
THEOREM MailsAreTrue == Spec => []MailIsTruthful
<1>1. Init => MailsHold
  BY DEF Init, MailsHold, Overdue
<1>2. Core /\ MailsHold => MailIsTruthful
  BY DEF Core, Stages, ConfsFollow, MailsHold, MailIsTruthful, Funded, TypeOK, CallsTyped
<1> QED BY <1>1, <1>2, MailsStep, CoreInvariance, PTL DEF Spec

-----------------------------------------------------------------------------
(* The ledger. detected_at orders the rows, and the handler's copy of the  *)
(* payment's btc_detected_at is still the payment's when it commits, no    *)
(* other activity writing it.                                              *)

\* Rows detected at one moment are of one transaction.
RowsInOrder == \A o, x \in recorded : at[o] = at[x] => TxOf[o] = TxOf[x]

\* The message under way pays each of its payments, is not older than any row if
\* it still has rows to insert, and its lookup is up to date.
MessageInOrder ==
  rx.pc # "idle" =>
    /\ \A p \in rx.todo :
         /\ \E o \in Outputs : TxOf[o] = rx.tx /\ PaidTo[o] = p
         /\ NewRows(p) # {} =>
              \A o \in recorded : at[o] < rx.seenAt \/ (at[o] = rx.seenAt /\ TxOf[o] = rx.tx)
    /\ rx.pc = "commit" => rx.pay \in rx.todo /\ rx.det = detected[rx.pay]

Order == RowsInOrder /\ MessageInOrder

LEMMA OrderStep == Core /\ Order /\ [Next]_vars => Order'
<1> SUFFICES ASSUME Core, Order, [Next]_vars PROVE Order'
  OBVIOUS
<1> USE DEF Core, Order
<1>1. CASE UNCHANGED <<detected, recorded, at, rx>>
  BY <1>1 DEF RowsInOrder, MessageInOrder, NewRows
<1>2. CASE UNCHANGED <<recorded, at>> /\ rx' = RxIdle
  BY <1>2 DEF RowsInOrder, MessageInOrder, RxIdle
<1>3. ASSUME NEW t \in Txids, RawTxReceive(t) PROVE Order'
  <2>1. UNCHANGED <<recorded, at>>
    BY <1>3 DEF RawTxReceive, rowVars
  <2>2. CASE rx' # RxIdle
    <3> DEFINE hits == {PaidTo[o] : o \in {h \in Outputs : TxOf[h] = t /\ PaidTo[h] \in watched}}
    <3>1. rx' = [RxIdle EXCEPT !.pc = "lookup", !.tx = t, !.seenAt = now, !.todo = hits]
      BY <1>3, <2>2 DEF RawTxReceive
    <3>2. rx'.pc = "lookup" /\ rx'.tx = t /\ rx'.seenAt = now /\ rx'.todo = hits
      BY <3>1 DEF RxIdle
    <3>3. (\E o \in Outputs \ recorded : TxOf[o] = t /\ PaidTo[o] \in hits)
             => \A o \in recorded : at[o] < now
      BY <1>3 DEF RawTxReceive
    <3>4. \A p \in hits : \E o \in Outputs : TxOf[o] = t /\ PaidTo[o] = p
      OBVIOUS
    <3> HIDE DEF hits
    <3> QED BY <2>1, <3>2, <3>3, <3>4 DEF RowsInOrder, MessageInOrder, NewRows
  <2> QED BY <1>2, <2>1, <2>2
<1>4. ASSUME NEW p \in Payments, RawTxLookup(p) PROVE Order'
  <2>1. /\ UNCHANGED <<detected, recorded, at>>
        /\ rx' = IF Creditable(p, rx.seenAt)
                 THEN [rx EXCEPT !.pc = "commit", !.pay = p, !.stat = status[p], !.det = detected[p]]
                 ELSE RxAfter(p)
        /\ rx.pc = "lookup" /\ p \in rx.todo
    BY <1>4 DEF RawTxLookup, payVars, rowVars
  <2>2. CASE rx' # RxIdle
    <3>1. /\ rx'.tx = rx.tx /\ rx'.seenAt = rx.seenAt /\ rx'.todo \subseteq rx.todo
          /\ rx'.pc = "commit" => rx'.todo = rx.todo /\ rx'.pay = p /\ rx'.det = detected[p]
      BY <2>1, <2>2 DEF RxAfter, TypeOK, RxTyped, RxStates
    <3>2. \A q : NewRows(q)' = NewRows(q)
      BY <2>1, <3>1 DEF NewRows
    <3> QED BY <2>1, <3>1, <3>2 DEF RowsInOrder, MessageInOrder
  <2> QED BY <1>2, <2>1, <2>2
<1>5. CASE RawTxCommit
  <2>0. PICK p \in Payments : p = rx.pay
    BY <1>5, CommitRows
  <2>1. \A o \in recorded' : at'[o] < rx.seenAt \/ (at'[o] = rx.seenAt /\ TxOf[o] = rx.tx)
                              \/ NewRows(p) = {}
    BY <1>5, <2>0, CommitRows DEF MessageInOrder, TypeOK, RowsTyped, RxTyped, RxStates
  <2>2. RowsInOrder'
    <3>1. CASE NewRows(p) = {}
      BY <1>5, <2>0, <3>1, CommitRows DEF RowsInOrder, TypeOK, RowsTyped
    <3>2. CASE NewRows(p) # {}
      BY <1>5, <2>0, <2>1, <3>2, CommitRows DEF RowsInOrder, TypeOK, RowsTyped, RxTyped, RxStates
    <3> QED BY <3>1, <3>2
  <2>3. CASE rx' = RxIdle
    BY <2>2, <2>3 DEF MessageInOrder, RxIdle
  <2>4. CASE rx' # RxIdle
    <3>1. /\ rx'.pc = "lookup" /\ rx'.tx = rx.tx /\ rx'.seenAt = rx.seenAt
          /\ rx'.todo = rx.todo \ {p}
      BY <1>5, <2>0, <2>4, CommitRows DEF RxAfter, TypeOK, RxTyped, RxStates
    <3>2. ASSUME NEW q \in rx.todo \ {p}, NewRows(q)' # {}
          PROVE  \A o \in recorded' : at'[o] < rx.seenAt \/ (at'[o] = rx.seenAt /\ TxOf[o] = rx.tx)
      <4>1. NewRows(q) # {}
        BY <1>5, <3>1, <3>2, CommitRows DEF NewRows
      <4>2. \A o \in recorded : at[o] < rx.seenAt \/ (at[o] = rx.seenAt /\ TxOf[o] = rx.tx)
        BY <1>5, <4>1, CommitRows DEF MessageInOrder
      <4> QED BY <1>5, <2>0, <4>2, CommitRows DEF TypeOK, RowsTyped
    <3>3. \A q \in rx.todo : \E o \in Outputs : TxOf[o] = rx.tx /\ PaidTo[o] = q
      BY <1>5, CommitRows DEF MessageInOrder
    <3> QED BY <2>2, <3>1, <3>2, <3>3 DEF MessageInOrder
  <2> QED BY <2>3, <2>4
<1>6. \/ UNCHANGED <<detected, recorded, at, rx>>
      \/ UNCHANGED <<recorded, at>> /\ rx' = RxIdle
      \/ \E t \in Txids : RawTxReceive(t)
      \/ \E p \in Payments : RawTxLookup(p)
      \/ RawTxCommit
  <2>1. CASE QuietStep
    BY <2>1, QuietKeeps DEF payVars, rowVars
  <2>2. CASE RawTxFails \/ Crash
    BY <2>2 DEF RawTxFails, Crash, rowVars
  <2>3. CASE BxStep \/ BlockFails
    BY <2>3 DEF BxStep, BlockMessage, BlockReadPayments, BlockReadChildren, BlockChild,
                BlockPayment, BlockFails, payVars, rowVars
  <2>4. CASE \/ \E p \in Payments : CreateInvoice(p)
             \/ \E k \in Jobs : ExpireUpdate(k)
    BY <2>4 DEF CreateInvoice, ExpireUpdate, rowVars
  <2> QED BY <2>1, <2>2, <2>3, <2>4 DEF Next, JobStep, RxStep, QuietStep
<1> QED BY <1>1, <1>2, <1>3, <1>4, <1>5, <1>6

LEMMA OrderInvariance == Spec => []Order
<1>1. Init => Order
  BY DEF Init, Order, RowsInOrder, MessageInOrder, RxIdle
<1> QED BY <1>1, OrderStep, CoreInvariance, PTL DEF Spec

\* The least of a set of numbers is the member no other is below.
LEMMA LeastIs ==
  ASSUME NEW S \in SUBSET Nat, NEW m \in S, \A n \in S : m <= n
  PROVE  Least(S) = m
<1>1. Least(S) \in S /\ \A n \in S : Least(S) <= n
  BY LeastExists
<1>2. Least(S) <= m /\ m <= Least(S) /\ Least(S) \in Nat /\ m \in Nat
  BY <1>1
<1> QED BY <1>2

\* A funded payment has rows, for no invoice is for nothing.
LEMMA FundedHasRows ==
  ASSUME TypeOK, NEW p \in Payments, Funded(p)
  PROVE  OutputsTo(p, recorded) # {}
<1>1. CASE InTime(p) = {}
  <2>1. Total(InTime(p)) = 0
    BY <1>1, TotalEmpty
  <2> QED BY <2>1, ConstantsAssumption DEF Funded
<1>2. CASE InTime(p) # {}
  BY <1>2 DEF InTime
<1> QED BY <1>1, <1>2

\* btc_detected_at, as the rows have it.
FirstDetected(p) ==
  IF OutputsTo(p, recorded) = {} THEN detected[p] = None
  ELSE detected[p] = Least({at[o] : o \in OutputsTo(p, recorded)})

Ledger == \A p \in Payments : received[p] = Total(OutputsTo(p, recorded)) /\ FirstDetected(p)

\* Rows that come later leave the first one the first.
LEMMA LeastStays ==
  ASSUME TypeOK, TypeOK', NEW S, NEW T, S # {}, S \subseteq T, T \subseteq Outputs,
         \A o \in S : at'[o] = at[o], \A o \in S, x \in T \ S : at[o] <= at'[x]
  PROVE  Least({at'[o] : o \in T}) = Least({at[o] : o \in S})
<1> DEFINE A == {at[o] : o \in S}
           B == {at'[o] : o \in T}
<1>1. A \in SUBSET Nat /\ B \in SUBSET Nat /\ A # {}
  BY DEF TypeOK, RowsTyped
<1>2. PICK f \in S : at[f] = Least(A) /\ \A o \in S : at[f] <= at[o]
  <2>1. Least(A) \in A /\ \A n \in A : Least(A) <= n
    <3> HIDE DEF A
    <3> QED BY <1>1, LeastExists
  <2>2. PICK f \in S : at[f] = Least(A)
    BY <2>1
  <2> QED BY <2>1, <2>2
<1>3. at'[f] \in B /\ \A n \in B : at'[f] <= n
  BY <1>2
<1> QED BY <1>1, <1>2, <1>3, LeastIs

LEMMA LedgerStep == Core /\ Core' /\ Order /\ Ledger /\ [Next]_vars => Ledger'
<1> SUFFICES ASSUME Core, Core', Order, Ledger, [Next]_vars PROVE Ledger'
  OBVIOUS
<1> USE DEF Core
<1>1. CASE UNCHANGED <<received, detected, recorded, at>>
  <2>1. ASSUME NEW p \in Payments
        PROVE  received'[p] = Total(OutputsTo(p, recorded))' /\ FirstDetected(p)'
    <3>1. Total(OutputsTo(p, recorded))' = Total(OutputsTo(p, recorded))
      BY <1>1 DEF Total, Coins, OutputsTo
    <3>2. Least({at[o] : o \in OutputsTo(p, recorded)})' = Least({at[o] : o \in OutputsTo(p, recorded)})
      BY <1>1 DEF Least, OutputsTo
    <3>3. OutputsTo(p, recorded)' = OutputsTo(p, recorded)
      BY <1>1 DEF OutputsTo
    <3> QED BY <1>1, <3>1, <3>2, <3>3 DEF Ledger, FirstDetected
  <2> QED BY <2>1 DEF Ledger
<1>2. CASE RawTxCommit
  <2>0. PICK p \in Payments : p = rx.pay
    BY <1>2, CommitRows
  <2> DEFINE rows == OutputsTo(p, recorded)
             new == NewRows(p)
  <2>1. ASSUME NEW q \in Payments, q # p
        PROVE  received'[q] = Total(OutputsTo(q, recorded))' /\ FirstDetected(q)'
    <3>1. received'[q] = received[q] /\ detected'[q] = detected[q]
      BY <1>2, <2>0, <2>1 DEF RawTxCommit, TypeOK, PaymentsTyped
    <3>2. OutputsTo(q, recorded)' = OutputsTo(q, recorded)
      BY <1>2, <2>0, <2>1, CommitRows DEF OutputsTo
    <3>3. \A o \in OutputsTo(q, recorded) : at'[o] = at[o]
      BY <1>2, <2>0, <2>1, CommitRows DEF OutputsTo, TypeOK, RowsTyped
    <3>4. {at[o] : o \in OutputsTo(q, recorded)}' = {at[o] : o \in OutputsTo(q, recorded)}
      BY <3>2, <3>3
    <3>5. Total(OutputsTo(q, recorded))' = Total(OutputsTo(q, recorded))
      BY <3>2 DEF Total, Coins
    <3>6. Least({at[o] : o \in OutputsTo(q, recorded)})' = Least({at[o] : o \in OutputsTo(q, recorded)})
      BY <3>4 DEF Least
    <3> QED BY <3>1, <3>2, <3>5, <3>6 DEF Ledger, FirstDetected
  <2>2. OutputsTo(p, recorded)' = rows \cup new
    BY <1>2, <2>0, CommitRows DEF OutputsTo
  <2>3. received'[p] = Total(OutputsTo(p, recorded))'
    <3>1. received'[p] = Total(OutputsTo(p, recorded \cup new))
      BY <1>2, <2>0 DEF RawTxCommit, TypeOK, PaymentsTyped
    <3>2. OutputsTo(p, recorded \cup new) = rows \cup new
      BY <1>2, <2>0, CommitRows DEF OutputsTo
    <3>3. Total(OutputsTo(p, recorded))' = Total(OutputsTo(p, recorded)')
      BY DEF Total, Coins
    <3> QED BY <2>2, <3>1, <3>2, <3>3
  <2>4. \A o \in rows : at'[o] = at[o]
    BY <1>2, <2>0, CommitRows DEF OutputsTo, TypeOK, RowsTyped
  <2>5. \A o \in new : at'[o] = rx.seenAt
    BY <1>2, <2>0, CommitRows
  <2>6. \A o \in rows, x \in new : at[o] <= rx.seenAt
    BY <1>2, <2>0, CommitRows DEF Order, MessageInOrder, OutputsTo, TypeOK, RowsTyped, RxTyped, RxStates
  <2>7. rows \cup new # {}
    BY <1>2, <2>0, CommitRows DEF Order, MessageInOrder, OutputsTo, NewRows
  <2>8. rows \subseteq Outputs /\ new \subseteq Outputs
    BY <1>2, <2>0, CommitRows DEF OutputsTo, TypeOK, RowsTyped
  <2>9. detected'[p] = Least({at'[o] : o \in rows \cup new})
    <3>1. CASE rows = {}
      <4>1. detected[p] = None /\ rx.det = None /\ rx.stat = "AWAITING_PAYMENT"
        <5>1. detected[p] = None
          BY <3>1 DEF Ledger, FirstDetected
        <5>2. rx.det = None
          BY <1>2, <2>0, <5>1, CommitRows DEF Order, MessageInOrder
        <5>3. ~ Funded(p)
          BY <3>1, FundedHasRows
        <5> QED BY <1>2, <2>0, <5>1, <5>2, <5>3, CommitRows DEF Funding, LookupHolds
      <4>2. detected'[p] = rx.seenAt
        BY <1>2, <2>0, <4>1 DEF RawTxCommit, LookedUpAwaiting, TypeOK, PaymentsTyped
      <4>3. {at'[o] : o \in rows \cup new} = {rx.seenAt} /\ rx.seenAt \in Nat
        BY <2>5, <2>7, <3>1 DEF TypeOK, RxTyped, RxStates
      <4>4. Least({rx.seenAt}) = rx.seenAt
        BY <4>3, LeastIs
      <4> QED BY <4>2, <4>3, <4>4
    <3>2. CASE rows # {}
      <4>1. detected[p] = Least({at[o] : o \in rows})
        BY <3>2 DEF Ledger, FirstDetected
      <4>2. detected[p] \in Nat
        BY <2>8, <3>2, <4>1, LeastExists DEF TypeOK, RowsTyped
      <4>3. rx.det = detected[p] /\ rx.det # None
        BY <1>2, <2>0, <4>2, CommitRows, ConstantsAssumption DEF Order, MessageInOrder
      <4>4. detected'[p] = detected[p]
        BY <1>2, <2>0, <4>3 DEF RawTxCommit, TypeOK, PaymentsTyped
      <4>5. \A o \in rows, x \in (rows \cup new) \ rows : at[o] <= at'[x]
        BY <2>5, <2>6
      <4>6. Least({at'[o] : o \in rows \cup new}) = Least({at[o] : o \in rows})
        BY <2>4, <2>8, <3>2, <4>5, LeastStays
      <4> QED BY <4>1, <4>4, <4>6
    <3> QED BY <3>1, <3>2
  <2>10. FirstDetected(p)'
    <3>1. Least({at[o] : o \in OutputsTo(p, recorded)})' = Least({at'[o] : o \in OutputsTo(p, recorded)'})
      BY DEF Least
    <3> QED BY <2>2, <2>7, <2>9, <3>1 DEF FirstDetected
  <2> QED BY <2>1, <2>3, <2>10 DEF Ledger
<1> QED BY <1>1, <1>2, RowChanges

\* btc_received_sats is what the payment's rows add up to and btc_detected_at the
\* time of the first: a commit that fails, a message delivered again for a block
\* and a lookup that is old by the time of its commit leave both right.
THEOREM LedgerIsConsistent == Spec => []LedgerConsistent
<1>1. Init => Ledger
  <2> SUFFICES ASSUME Init, NEW p \in Payments
               PROVE  received[p] = Total(OutputsTo(p, recorded)) /\ FirstDetected(p)
    BY DEF Ledger
  <2>1. OutputsTo(p, recorded) = {}
    BY DEF Init, OutputsTo
  <2> QED BY <2>1, TotalEmpty DEF Init, FirstDetected
<1>2. Ledger => LedgerConsistent
  BY DEF Ledger, FirstDetected, LedgerConsistent
<1> QED BY <1>1, <1>2, LedgerStep, CoreInvariance, OrderInvariance, PTL DEF Spec

-----------------------------------------------------------------------------
(* Confirmations. The block handler works on copies of the rows, which     *)
(* nobody else counts, and examines a tip once for each life of the worker:*)
(* without reorganisations a row is never ahead of its transaction's depth *)
(* below the last tip examined, but for the restarts.                      *)

\* The rows being counted are as the handler read them, or as it left them.
CopiesHold ==
  bx.pc = "apply" =>
    /\ bx.left \subseteq bx.seen /\ bx.seen \subseteq recorded
    /\ \A o \in bx.seen : bx.conf[o] = conf[o]

\* The steps that touch neither the rows nor what the block handler holds.
LEMMA BlockUntouched ==
  ASSUME [Next]_vars
  PROVE  \/ UNCHANGED <<rowVars, lastBest, bx, crashes>>
         \/ RawTxCommit \/ BxStep \/ BlockFails \/ Crash
<1>1. CASE QuietStep
  BY <1>1 DEF QuietStep, AdvanceClock, LoseMessage, Broadcast, MineBlock, Reorg, TickStart, ExpireFind,
     WatchlistRead, WatchlistAssign, JobFails, vars, countVars
<1>2. CASE \/ RawTxFails
           \/ \E t \in Txids : RawTxReceive(t)
           \/ \E p \in Payments : RawTxLookup(p) \/ CreateInvoice(p)
           \/ \E k \in Jobs : ExpireUpdate(k)
  BY <1>2 DEF RawTxFails, RawTxReceive, RawTxLookup, CreateInvoice, ExpireUpdate, countVars
<1> QED BY <1>1, <1>2 DEF Next, JobStep, RxStep, QuietStep

\* One row is counted, in the table and in the copy.
LEMMA ChildCounted ==
  ASSUME TypeOK, NEW o \in Outputs, BlockChild(o)
  PROVE  /\ bx.pc = "apply" /\ o \in bx.left
         /\ conf'[o] = NewConf(o, bx.txs, bx.conf) /\ bx'.conf[o] = conf'[o]
         /\ \A x \in Outputs : x # o => conf'[x] = conf[x] /\ bx'.conf[x] = bx.conf[x]
         /\ bx'.pc = bx.pc /\ bx'.txs = bx.txs /\ bx'.stat = bx.stat /\ bx'.seen = bx.seen
         /\ bx'.left = bx.left \ {o} /\ bx'.cur = PaidTo[o]
         /\ UNCHANGED <<payVars, recorded, at, calls, lastBest, chain, crashes>>
<1> DEFINE n == NewConf(o, bx.txs, bx.conf)
<1>1. bx' = [bx EXCEPT !.conf[o] = n, !.left = @ \ {o}, !.cur = PaidTo[o]]
  BY DEF BlockChild
<1> HIDE DEF n
<1>2. bx \in BxStates /\ conf \in [Outputs -> Nat]
  BY DEF TypeOK, BxTyped, RowsTyped
<1>3. bx' = [bx EXCEPT !.conf = [bx.conf EXCEPT ![o] = n], !.left = bx.left \ {o}, !.cur = PaidTo[o]]
  BY <1>1, <1>2 DEF BxStates
<1>4. bx'.conf = [bx.conf EXCEPT ![o] = n] /\ conf' = [conf EXCEPT ![o] = n]
  BY <1>2, <1>3 DEF BxStates, BlockChild, n
<1>5. conf'[o] = n /\ bx'.conf[o] = n
  BY <1>2, <1>4 DEF BxStates
<1>6. \A x \in Outputs : x # o => conf'[x] = conf[x] /\ bx'.conf[x] = bx.conf[x]
  BY <1>2, <1>4 DEF BxStates
<1>7. /\ bx'.pc = bx.pc /\ bx'.txs = bx.txs /\ bx'.stat = bx.stat /\ bx'.seen = bx.seen
      /\ bx'.left = bx.left \ {o} /\ bx'.cur = PaidTo[o]
  BY <1>2, <1>3 DEF BxStates
<1> QED BY <1>5, <1>6, <1>7 DEF BlockChild, chainVars, countVars, n

\* What the block handler's other steps leave of what it holds.
LEMMA HandlerHolds ==
  ASSUME TypeOK, \/ BlockMessage \/ BlockReadPayments \/ BlockReadChildren
                 \/ BlockPayment \/ BlockFails \/ Crash
  PROVE  /\ UNCHANGED <<rowVars, chain>>
         /\ \/ UNCHANGED <<bx, lastBest>>
            \/ bx'.pc = "idle" /\ lastBest' \in {lastBest, None}
            \/ /\ BlockMessage /\ bx'.pc = "getblock" /\ bx'.txs = Tip.txs
               /\ lastBest' = Tip.id /\ Tip.id # lastBest
            \/ /\ BlockReadPayments /\ bx.pc = "getblock" /\ bx'.pc = "children"
               /\ bx'.txs = bx.txs /\ lastBest' = lastBest
            \/ /\ BlockReadChildren /\ bx.pc = "children" /\ bx'.pc = "apply"
               /\ bx'.txs = bx.txs /\ bx'.stat = bx.stat /\ lastBest' = lastBest
               /\ bx'.seen = {o \in recorded : bx.stat[PaidTo[o]] # Absent}
               /\ bx'.left \subseteq bx'.seen /\ bx'.conf = conf
            \/ /\ BlockPayment /\ bx.pc = "apply" /\ bx'.pc = "apply"
               /\ bx'.txs = bx.txs /\ bx'.stat = bx.stat /\ bx'.seen = bx.seen
               /\ bx'.left = bx.left /\ bx'.conf = bx.conf /\ lastBest' = lastBest
<1>0. BxIdle.pc = "idle"
  BY DEF BxIdle
<1>1. CASE BlockMessage
  <2>1. BxIdle \in BxStates
    BY DEF BxIdle, BxStates
  <2>2. [BxIdle EXCEPT !.pc = "getblock", !.txs = Tip.txs].pc = "getblock"
        /\ [BxIdle EXCEPT !.pc = "getblock", !.txs = Tip.txs].txs = Tip.txs
    <3> HIDE DEF BxIdle
    <3> QED BY <2>1 DEF BxStates
  <2> QED BY <1>1, <2>2 DEF BlockMessage, TipExamined, chainVars, rowVars
<1>2. CASE BlockReadPayments
  BY <1>2 DEF BlockReadPayments, TypeOK, BxTyped, BxStates, chainVars, rowVars
<1>3. CASE BlockReadChildren
  <2> DEFINE seen == {o \in recorded : bx.stat[PaidTo[o]] # Absent}
             left == {o \in seen : NewConf(o, bx.txs, conf) # conf[o]}
  <2>1. /\ bx.pc = "children" /\ lastBest' = lastBest /\ UNCHANGED <<rowVars, chain>>
        /\ bx' = IF left = {} THEN BxIdle
                 ELSE [bx EXCEPT !.pc = "apply", !.seen = seen, !.conf = conf, !.left = left]
    BY <1>3 DEF BlockReadChildren, chainVars
  <2>2. left \subseteq seen
    OBVIOUS
  <2> HIDE DEF left
  <2> QED BY <1>0, <1>3, <2>1, <2>2 DEF TypeOK, BxTyped, BxStates
<1>4. CASE BlockPayment
  <2>1. UNCHANGED <<rowVars, chain, lastBest>>
    BY <1>4 DEF BlockPayment, chainVars
  <2> QED BY <1>0, <1>4, <2>1, BlockDecision DEF TypeOK, BxTyped, BxStates
<1>5. CASE BlockFails \/ Crash
  BY <1>0, <1>5 DEF BlockFails, Crash, chainVars, rowVars
<1> QED BY <1>1, <1>2, <1>3, <1>4, <1>5

LEMMA CopiesStep == TypeOK /\ Shape /\ CopiesHold /\ [Next]_vars => CopiesHold'
<1> SUFFICES ASSUME TypeOK, Shape, CopiesHold, [Next]_vars PROVE CopiesHold'
  OBVIOUS
<1>1. CASE UNCHANGED <<rowVars, bx>>
  BY <1>1 DEF CopiesHold, rowVars
<1>2. CASE RawTxCommit
  BY <1>2, CommitRows DEF CopiesHold, TypeOK, RowsTyped
<1>3. ASSUME NEW o \in Outputs, BlockChild(o) PROVE CopiesHold'
  BY <1>3, ChildCounted DEF CopiesHold, TypeOK, RowsTyped
<1>4. CASE \/ BlockMessage \/ BlockReadPayments \/ BlockReadChildren
           \/ BlockPayment \/ BlockFails \/ Crash
  BY <1>4, HandlerHolds DEF CopiesHold, rowVars, TypeOK, RowsTyped
<1> QED BY <1>1, <1>2, <1>3, <1>4, BlockUntouched DEF BxStep

\* Without reorganisations a block's identity is its height, a transaction is in
\* one block, and the handler examines a block of the chain.
OneChain ==
  reorgs = 0 =>
    /\ mined = Len(chain)
    /\ \A i \in DOMAIN chain : chain[i].id = i
    /\ \A i, j \in DOMAIN chain : chain[i].txs \cap chain[j].txs # {} => i = j
    /\ lastBest # None => lastBest \in DOMAIN chain
    /\ bx.pc # "idle" => lastBest # None /\ bx.txs = chain[lastBest].txs

\* The chain only grows, unless it is reorganised.
LEMMA ChainGrows ==
  ASSUME TypeOK, [Next]_vars, reorgs' = 0
  PROVE  /\ reorgs = 0 /\ crashes' >= crashes
         /\ DOMAIN chain = 1..Len(chain) /\ DOMAIN chain' = 1..Len(chain')
         /\ Len(chain) \in Nat /\ Len(chain') \in Nat /\ Len(chain) <= Len(chain')
         /\ \A i \in DOMAIN chain : i \in DOMAIN chain' /\ chain'[i] = chain[i]
         /\ \/ UNCHANGED <<chain, mined>>
            \/ /\ UNCHANGED <<lastBest, bx, crashes, conf>> /\ mined' = mined + 1
               /\ Len(chain') = Len(chain) + 1
               /\ chain'[Len(chain')].id = mined + 1
               /\ \A i \in DOMAIN chain : chain'[Len(chain')].txs \cap chain[i].txs = {}
<1>0. /\ chain \in Seq([id : Nat, txs : SUBSET Txids]) /\ mined \in Nat /\ reorgs \in Nat
      /\ crashes \in Nat
  BY DEF TypeOK, ChainTyped, CountersTyped
<1>1. CASE UNCHANGED <<chain, mined, reorgs>> /\ crashes' \in {crashes, crashes + 1}
  BY <1>0, <1>1
<1>2. ASSUME NEW S \in SUBSET Txids, MineBlock(S)
      PROVE  /\ UNCHANGED <<lastBest, bx, crashes, conf, reorgs>> /\ mined' = mined + 1
             /\ DOMAIN chain = 1..Len(chain) /\ DOMAIN chain' = 1..Len(chain')
             /\ Len(chain) \in Nat /\ Len(chain') = Len(chain) + 1
             /\ \A i \in DOMAIN chain : i \in DOMAIN chain' /\ chain'[i] = chain[i]
             /\ chain'[Len(chain')].id = mined + 1
             /\ \A i \in DOMAIN chain : chain'[Len(chain')].txs \cap chain[i].txs = {}
  <2> DEFINE b == [id |-> mined + 1, txs |-> S]
  <2>1. chain' = Append(chain, b) /\ b \in [id : Nat, txs : SUBSET Txids]
    BY <1>0, <1>2 DEF MineBlock
  <2>2. b.id = mined + 1 /\ \A i \in DOMAIN chain : b.txs \cap chain[i].txs = {}
    BY <1>2 DEF MineBlock, TxsOf
  <2>3. /\ Len(chain') = Len(chain) + 1 /\ chain'[Len(chain')] = b
        /\ DOMAIN chain = 1..Len(chain) /\ DOMAIN chain' = 1..Len(chain') /\ Len(chain) \in Nat
        /\ \A i \in DOMAIN chain : i \in DOMAIN chain' /\ chain'[i] = chain[i]
    <3> DEFINE block == [id : Nat, txs : SUBSET Txids]
    <3> HIDE DEF b, block
    <3>1. chain \in Seq(block) /\ b \in block /\ chain' = Append(chain, b)
      BY <1>0, <2>1 DEF block
    <3> QED BY <3>1
  <2> QED BY <1>2, <2>2, <2>3 DEF MineBlock, rowVars, countVars
<1>3. CASE \E S1, S2 \in SUBSET Txids : Reorg(S1, S2)
  BY <1>0, <1>3 DEF Reorg
<1>4. \/ UNCHANGED <<chain, mined, reorgs>> /\ crashes' \in {crashes, crashes + 1}
      \/ \E S \in SUBSET Txids : MineBlock(S)
      \/ \E S1, S2 \in SUBSET Txids : Reorg(S1, S2)
  <2>1. CASE \/ AdvanceClock \/ LoseMessage \/ UNCHANGED vars
             \/ \E t \in Txids : Broadcast(t)
             \/ \E k \in Ticks : TickStart(k)
             \/ \E k \in Jobs : JobStep(k) \/ JobFails(k)
    BY <2>1 DEF AdvanceClock, LoseMessage, Broadcast, TickStart, JobStep, ExpireFind, ExpireUpdate,
       WatchlistRead, WatchlistAssign, JobFails, vars, chainVars, countVars
  <2>2. CASE \/ RxStep \/ RawTxFails \/ BxStep \/ BlockFails \/ Crash
             \/ \E p \in Payments : CreateInvoice(p)
    BY <2>2 DEF RxStep, RawTxReceive, RawTxLookup, RawTxCommit, RawTxFails, BxStep, BlockMessage,
       BlockReadPayments, BlockReadChildren, BlockChild, BlockPayment, BlockFails, Crash,
       CreateInvoice, chainVars, countVars
  <2> QED BY <2>1, <2>2 DEF Next
<1>5. CASE \E S \in SUBSET Txids : MineBlock(S)
  <2>1. PICK S \in SUBSET Txids : MineBlock(S)
    BY <1>5
  <2>2. /\ UNCHANGED <<lastBest, bx, crashes, conf, reorgs>> /\ mined' = mined + 1
        /\ DOMAIN chain = 1..Len(chain) /\ DOMAIN chain' = 1..Len(chain')
        /\ Len(chain) \in Nat /\ Len(chain') = Len(chain) + 1
        /\ \A i \in DOMAIN chain : i \in DOMAIN chain' /\ chain'[i] = chain[i]
        /\ chain'[Len(chain')].id = mined + 1
        /\ \A i \in DOMAIN chain : chain'[Len(chain')].txs \cap chain[i].txs = {}
    BY <1>2, <2>1
  <2> QED BY <1>0, <2>2
<1> QED BY <1>1, <1>3, <1>4, <1>5

\* What the block handler examines is the top of the chain.
LEMMA TipIsTop ==
  ASSUME TypeOK, Shape, BlockMessage
  PROVE  /\ Len(chain) \in DOMAIN chain /\ DOMAIN chain = 1..Len(chain) /\ Len(chain) \in Nat
         /\ Tip = chain[Len(chain)]
<1>1. zmqBlock > 0
  BY DEF BlockMessage
<1>2. chain # <<>> /\ chain \in Seq([id : Nat, txs : SUBSET Txids])
  BY <1>1 DEF Shape, TypeOK, ChainTyped
<1> DEFINE block == [id : Nat, txs : SUBSET Txids]
<1> HIDE DEF block
<1>3. chain \in Seq(block) /\ chain # <<>>
  BY <1>2 DEF block
<1> QED BY <1>3 DEF Tip

LEMMA ChainStep == TypeOK /\ Shape /\ OneChain /\ [Next]_vars => OneChain'
<1> SUFFICES ASSUME TypeOK, Shape, OneChain, [Next]_vars, reorgs' = 0
             PROVE  OneChain'
  BY DEF OneChain
<1> USE ConstantsAssumption
<1>1. reorgs = 0 /\ DOMAIN chain = 1..Len(chain) /\ DOMAIN chain' = 1..Len(chain')
  BY ChainGrows
<1>2. CASE UNCHANGED <<lastBest, bx>>
  <2>1. CASE UNCHANGED <<chain, mined>>
    BY <1>1, <1>2, <2>1 DEF OneChain
  <2>2. CASE /\ mined' = mined + 1 /\ Len(chain') = Len(chain) + 1
             /\ chain'[Len(chain')].id = mined + 1
             /\ \A i \in DOMAIN chain : chain'[Len(chain')].txs \cap chain[i].txs = {}
    <3>1. /\ Len(chain) \in Nat /\ mined = Len(chain)
          /\ \A i \in DOMAIN chain : i \in DOMAIN chain' /\ chain'[i] = chain[i]
          /\ \A i \in DOMAIN chain' : i \in DOMAIN chain \/ i = Len(chain')
      BY <1>1, <2>2, ChainGrows DEF OneChain
    <3>2. mined' = Len(chain') /\ \A i \in DOMAIN chain' : chain'[i].id = i
      BY <1>1, <2>2, <3>1 DEF OneChain
    <3>3. \A i, j \in DOMAIN chain' : chain'[i].txs \cap chain'[j].txs # {} => i = j
      BY <1>1, <2>2, <3>1 DEF OneChain
    <3>4. /\ lastBest' # None => lastBest' \in DOMAIN chain'
          /\ bx'.pc # "idle" => lastBest' # None /\ bx'.txs = chain'[lastBest'].txs
      BY <1>1, <1>2, <3>1 DEF OneChain
    <3> QED BY <3>2, <3>3, <3>4 DEF OneChain
  <2> QED BY <2>1, <2>2, ChainGrows
<1>3. CASE RawTxCommit \/ \E o \in Outputs : BlockChild(o)
  <2>1. UNCHANGED <<lastBest, chain, mined>> /\ bx'.pc = bx.pc /\ bx'.txs = bx.txs
    BY <1>3, ChildCounted DEF RawTxCommit, BlockChild, chainVars
  <2> QED BY <1>1, <2>1 DEF OneChain
<1>4. CASE \/ BlockMessage \/ BlockReadPayments \/ BlockReadChildren
           \/ BlockPayment \/ BlockFails \/ Crash
  <2>1. UNCHANGED <<chain, mined>>
    BY <1>4 DEF BlockMessage, BlockReadPayments, BlockReadChildren, BlockPayment, BlockFails, Crash,
                chainVars
  <2>2. CASE bx'.pc = "idle" /\ lastBest' \in {lastBest, None}
    BY <1>1, <2>1, <2>2 DEF OneChain
  <2>3. CASE BlockMessage /\ bx'.txs = Tip.txs /\ lastBest' = Tip.id
    <3>1. lastBest' = Len(chain) /\ Len(chain) \in DOMAIN chain /\ Tip = chain[Len(chain)]
          /\ Len(chain) # None
      BY <1>1, <2>3, TipIsTop DEF OneChain
    <3> QED BY <1>1, <2>1, <2>3, <3>1 DEF OneChain
  <2>4. CASE bx.pc # "idle" /\ bx'.txs = bx.txs /\ lastBest' = lastBest
    BY <1>1, <2>1, <2>4 DEF OneChain
  <2>5. CASE UNCHANGED <<bx, lastBest>>
    BY <1>2, <2>5
  <2> QED BY <1>4, <2>2, <2>3, <2>4, <2>5, HandlerHolds
<1> QED BY <1>2, <1>3, <1>4, BlockUntouched DEF BxStep

\* The tip under examination has not been counted for o yet.
Ahead(o) == bx.pc \in {"getblock", "children"} \/ (bx.pc = "apply" /\ o \in bx.left)

\* The height up to which o's confirmations can have been counted: after a restart
\* the tip may be examined again, which counts towards the restarts.
CountedTo(o) ==
  crashes + IF lastBest = None THEN Len(chain) ELSE IF Ahead(o) THEN lastBest ELSE lastBest + 1

CountsHold ==
  reorgs = 0 =>
    \A o \in Outputs : conf[o] > 0 =>
      \E i \in DOMAIN chain : TxOf[o] \in chain[i].txs /\ conf[o] + i <= CountedTo(o)

\* A step that counts no row keeps the bound when it does not lower it.
LEMMA CountsStay ==
  ASSUME TypeOK, TypeOK', CountsHold, [Next]_vars, reorgs' = 0, NEW o \in Outputs,
         conf'[o] \in {0, conf[o]}, CountedTo(o) <= CountedTo(o)',
         CountedTo(o) \in Int, CountedTo(o)' \in Int, conf'[o] > 0
  PROVE  \E i \in DOMAIN chain' : TxOf[o] \in chain'[i].txs /\ conf'[o] + i <= CountedTo(o)'
<1>1. PICK i \in DOMAIN chain : TxOf[o] \in chain[i].txs /\ conf[o] + i <= CountedTo(o)
  BY ChainGrows DEF CountsHold
<1>2. i \in DOMAIN chain' /\ chain'[i] = chain[i] /\ i \in Int /\ conf[o] \in Int /\ conf'[o] = conf[o]
  BY ChainGrows DEF TypeOK, RowsTyped
<1> QED BY <1>1, <1>2

LEMMA CountedToType ==
  ASSUME TypeOK, OneChain, reorgs = 0, NEW o
  PROVE  /\ CountedTo(o) \in Int /\ crashes \in Nat /\ Len(chain) \in Nat
         /\ lastBest # None => lastBest \in Nat /\ lastBest <= Len(chain)
<1>1. lastBest \in Nat \cup {None} /\ crashes \in Nat /\ Len(chain) \in Nat
      /\ DOMAIN chain = 1..Len(chain)
  BY DEF TypeOK, MemoryTyped, CountersTyped, ChainTyped
<1>2. lastBest # None => lastBest \in Nat /\ lastBest <= Len(chain)
  BY <1>1 DEF OneChain
<1> QED BY <1>1, <1>2 DEF CountedTo

\* The bound never gets lower: a new tip is above the last one, and a restart counts.
LEMMA CountedToGrows ==
  ASSUME TypeOK, TypeOK', OneChain, OneChain', [Next]_vars, reorgs' = 0, NEW o,
         \/ lastBest' = lastBest /\ (Ahead(o)' => Ahead(o))
         \/ lastBest' = None /\ crashes' = crashes + 1
         \/ lastBest' = Len(chain) /\ lastBest # Len(chain) /\ lastBest' # None /\ Ahead(o)'
  PROVE  CountedTo(o) \in Int /\ CountedTo(o)' \in Int /\ CountedTo(o) <= CountedTo(o)'
<1>1. /\ reorgs = 0 /\ crashes' >= crashes /\ Len(chain) <= Len(chain')
  BY ChainGrows
<1>2. /\ CountedTo(o) \in Int /\ crashes \in Nat /\ Len(chain) \in Nat
      /\ lastBest # None => lastBest \in Nat /\ lastBest <= Len(chain)
  BY <1>1, CountedToType
<1>3. /\ CountedTo(o)' \in Int /\ crashes' \in Nat /\ Len(chain') \in Nat
  <2>1. lastBest' \in Nat \cup {None} /\ crashes' \in Nat /\ Len(chain') \in Nat
    BY DEF TypeOK, MemoryTyped, CountersTyped, ChainTyped
  <2> QED BY <2>1 DEF CountedTo
<1>4. /\ CountedTo(o)' = crashes' + IF lastBest' = None THEN Len(chain')
                                    ELSE IF Ahead(o)' THEN lastBest' ELSE lastBest' + 1
  BY DEF CountedTo, Ahead
<1>5. CASE lastBest' = lastBest /\ (Ahead(o)' => Ahead(o))
  <2>1. CASE lastBest = None
    BY <1>1, <1>2, <1>3, <1>4, <1>5, <2>1 DEF CountedTo
  <2>2. CASE lastBest # None
    BY <1>1, <1>2, <1>3, <1>4, <1>5, <2>2 DEF CountedTo
  <2> QED BY <2>1, <2>2
<1>6. CASE lastBest' = None /\ crashes' = crashes + 1
  <2>1. CASE lastBest = None
    BY <1>1, <1>2, <1>3, <1>4, <1>6, <2>1 DEF CountedTo
  <2>2. CASE lastBest # None
    BY <1>1, <1>2, <1>3, <1>4, <1>6, <2>2 DEF CountedTo
  <2> QED BY <2>1, <2>2
<1>7. CASE lastBest' = Len(chain) /\ lastBest # Len(chain) /\ lastBest' # None /\ Ahead(o)'
  <2>1. CASE lastBest = None
    BY <1>1, <1>2, <1>3, <1>4, <1>7, <2>1 DEF CountedTo
  <2>2. CASE lastBest # None
    BY <1>1, <1>2, <1>3, <1>4, <1>7, <2>2 DEF CountedTo
  <2> QED BY <2>1, <2>2
<1> QED BY <1>2, <1>3, <1>5, <1>6, <1>7

LEMMA CountsStep ==
  TypeOK /\ TypeOK' /\ Shape /\ OneChain /\ OneChain' /\ CopiesHold /\ CountsHold /\ [Next]_vars
    => CountsHold'
<1> SUFFICES ASSUME TypeOK, TypeOK', Shape, OneChain, OneChain', CopiesHold, CountsHold, [Next]_vars,
                    reorgs' = 0, NEW o \in Outputs, conf'[o] > 0
             PROVE  \E i \in DOMAIN chain' : TxOf[o] \in chain'[i].txs /\ conf'[o] + i <= CountedTo(o)'
  BY DEF CountsHold
<1>1. reorgs = 0
  BY ChainGrows
<1>2. ASSUME conf'[o] \in {0, conf[o]},
             \/ lastBest' = lastBest /\ (Ahead(o)' => Ahead(o))
             \/ lastBest' = None /\ crashes' = crashes + 1
             \/ lastBest' = Len(chain) /\ lastBest # Len(chain) /\ lastBest' # None /\ Ahead(o)'
      PROVE  \E i \in DOMAIN chain' : TxOf[o] \in chain'[i].txs /\ conf'[o] + i <= CountedTo(o)'
  BY <1>2, CountedToGrows, CountsStay
<1>3. CASE UNCHANGED <<lastBest, bx, crashes>> /\ conf'[o] \in {0, conf[o]}
  BY <1>2, <1>3 DEF Ahead
<1>4. ASSUME NEW x \in Outputs, BlockChild(x)
      PROVE  \E i \in DOMAIN chain' : TxOf[o] \in chain'[i].txs /\ conf'[o] + i <= CountedTo(o)'
  <2>1. /\ bx.pc = "apply" /\ x \in bx.left /\ bx'.pc = "apply" /\ bx'.left = bx.left \ {x}
        /\ UNCHANGED <<lastBest, chain, crashes>>
        /\ lastBest # None /\ bx.txs = chain[lastBest].txs
        /\ lastBest \in DOMAIN chain
    BY <1>1, <1>4, ChildCounted, ChainGrows DEF OneChain
  <2>2. CASE o # x
    <3>1. conf'[o] = conf[o] /\ (Ahead(o)' => Ahead(o))
      BY <1>4, <2>1, <2>2, ChildCounted DEF Ahead
    <3> QED BY <1>2, <2>1, <3>1
  <2>3. CASE o = x
    <3>1. /\ conf'[o] = NewConf(o, bx.txs, bx.conf) /\ bx.conf[o] = conf[o] /\ conf[o] \in Nat
      BY <1>4, <2>1, <2>3, ChildCounted DEF CopiesHold, TypeOK, RowsTyped
    <3>2. CountedTo(o) = crashes + lastBest /\ CountedTo(o)' = crashes + (lastBest + 1)
      BY <2>1, <2>3 DEF CountedTo, Ahead
    <3>3. crashes \in Nat /\ lastBest \in Nat
      BY <1>1, <2>1, CountedToType
    <3>4. CASE conf[o] = 0
      <4>1. conf'[o] = 1 /\ TxOf[o] \in chain'[lastBest].txs /\ lastBest \in DOMAIN chain'
        BY <2>1, <3>1, <3>4 DEF NewConf
      <4> QED BY <3>2, <3>3, <4>1
    <3>5. CASE conf[o] > 0
      <4>1. PICK i \in DOMAIN chain : TxOf[o] \in chain[i].txs /\ conf[o] + i <= CountedTo(o)
        BY <1>1, <3>5 DEF CountsHold
      <4>2. conf'[o] = conf[o] + 1 /\ i \in Int
        BY <2>1, <3>1, <3>5, <4>1, ChainGrows DEF NewConf
      <4> QED BY <2>1, <3>1, <3>2, <3>3, <4>1, <4>2
    <3> QED BY <3>1, <3>4, <3>5
  <2> QED BY <2>2, <2>3
<1>5. CASE \/ BlockMessage \/ BlockReadPayments \/ BlockReadChildren
           \/ BlockPayment \/ BlockFails \/ Crash
  <2>0. conf'[o] \in {0, conf[o]}
    BY <1>5, HandlerHolds DEF rowVars
  <2>1. CASE UNCHANGED <<bx, lastBest>>
    BY <1>2, <2>0, <2>1 DEF Ahead
  <2>2. CASE bx'.pc = "idle" /\ lastBest' = lastBest
    BY <1>2, <2>0, <2>2 DEF Ahead
  <2>3. CASE Crash
    BY <1>2, <2>0, <2>3 DEF Crash
  <2>4. CASE BlockMessage /\ bx'.pc = "getblock" /\ lastBest' = Tip.id /\ Tip.id # lastBest
    <3>1. /\ lastBest' = Len(chain) /\ lastBest # Len(chain) /\ lastBest' # None
      BY <1>1, <2>4, TipIsTop, ConstantsAssumption DEF OneChain
    <3> QED BY <1>2, <2>0, <2>4, <3>1 DEF Ahead
  <2>5. CASE bx.pc \in {"getblock", "children"} /\ lastBest' = lastBest
    BY <1>2, <2>0, <2>5 DEF Ahead
  <2>6. CASE bx.pc = "apply" /\ bx'.pc = "apply" /\ bx'.left = bx.left /\ lastBest' = lastBest
    BY <1>2, <2>0, <2>6 DEF Ahead
  <2>7. lastBest' = lastBest \/ BlockMessage \/ Crash
    BY <1>5 DEF BlockReadPayments, BlockReadChildren, BlockPayment, BlockFails
  <2>8. ASSUME BlockMessage PROVE lastBest' = lastBest \/ lastBest' # None
    <3>1. Tip.id = Len(chain) /\ Len(chain) # None
      BY <1>1, <2>8, TipIsTop, ConstantsAssumption DEF OneChain
    <3> QED BY <2>8, <3>1 DEF BlockMessage
  <2> QED BY <1>5, <2>1, <2>2, <2>3, <2>4, <2>5, <2>6, <2>7, <2>8, HandlerHolds
<1>6. CASE RawTxCommit
  <2>1. conf'[o] \in {0, conf[o]} /\ UNCHANGED <<lastBest, bx, crashes>>
    BY <1>6, CommitRows DEF RawTxCommit, countVars
  <2> QED BY <1>3, <2>1
<1>7. CASE UNCHANGED <<rowVars, lastBest, bx, crashes>>
  BY <1>3, <1>7 DEF rowVars
<1> QED BY <1>4, <1>5, <1>6, <1>7, BlockUntouched DEF BxStep

\* The depth of a transaction of the chain, and of any other one.
LEMMA DepthIsNumber ==
  ASSUME TypeOK, NEW t
  PROVE  Depth(t) \in Nat
<1>1. Len(chain) \in Nat /\ DOMAIN chain = 1..Len(chain)
  BY DEF TypeOK, ChainTyped
<1>2. CASE \E i \in DOMAIN chain : t \in chain[i].txs
  <2> DEFINE j == CHOOSE n \in DOMAIN chain : t \in chain[n].txs
  <2>1. j \in DOMAIN chain
    BY <1>2
  <2>2. Depth(t) = Len(chain) - j + 1
    BY <1>2 DEF Depth
  <2> HIDE DEF j
  <2> QED BY <1>1, <2>1, <2>2
<1>3. CASE ~ \E i \in DOMAIN chain : t \in chain[i].txs
  BY <1>3 DEF Depth
<1> QED BY <1>2, <1>3

LEMMA DepthIs ==
  ASSUME TypeOK, OneChain, reorgs = 0, NEW t
  PROVE  /\ Depth(t) \in Nat
         /\ \A i \in DOMAIN chain : t \in chain[i].txs => Depth(t) = Len(chain) - i + 1
<1>1. Len(chain) \in Nat /\ DOMAIN chain = 1..Len(chain)
  BY DEF TypeOK, ChainTyped
<1>2. ASSUME NEW i \in DOMAIN chain, t \in chain[i].txs
      PROVE  Depth(t) = Len(chain) - i + 1 /\ Depth(t) \in Nat
  <2> DEFINE j == CHOOSE n \in DOMAIN chain : t \in chain[n].txs
  <2>1. j \in DOMAIN chain /\ t \in chain[j].txs
    BY <1>2
  <2>2. j = i
    BY <1>2, <2>1 DEF OneChain
  <2>3. Depth(t) = Len(chain) - j + 1
    BY <1>2 DEF Depth
  <2> HIDE DEF j
  <2> QED BY <1>1, <2>2, <2>3
<1>3. CASE ~ \E i \in DOMAIN chain : t \in chain[i].txs
  BY <1>3 DEF Depth
<1> QED BY <1>2, <1>3

Counted == CopiesHold /\ OneChain /\ CountsHold

LEMMA CountedInvariance == Spec => []Counted
<1>1. Init => Counted
  BY DEF Init, Counted, CopiesHold, OneChain, CountsHold, BxIdle
<1>2. Core /\ Core' /\ Counted /\ [Next]_vars => Counted'
  BY CopiesStep, ChainStep, CountsStep DEF Core, Counted
<1> QED BY <1>1, <1>2, CoreStep, CoreInvariance, PTL DEF Spec

\* A row never counts more confirmations than its transaction has, save one for
\* each restart: a tip announced twice is examined once, a tip is not counted
\* twice for a row however the handler fails between two updates, and a row that
\* comes late starts at nought.
THEOREM CountsAreNotInflated == Spec => []NoOvercount
<1>1. Core /\ Counted => NoOvercount
  <2> SUFFICES ASSUME TypeOK, OneChain, CountsHold, reorgs = 0, NEW o \in recorded
               PROVE  conf[o] <= Depth(TxOf[o]) + crashes
    BY DEF Core, Counted, NoOvercount
  <2>0. o \in Outputs /\ conf[o] \in Nat /\ Depth(TxOf[o]) \in Nat
    BY DepthIs DEF TypeOK, RowsTyped
  <2>1. /\ CountedTo(o) \in Int /\ crashes \in Nat /\ Len(chain) \in Nat
        /\ lastBest # None => lastBest \in Nat /\ lastBest <= Len(chain)
    BY CountedToType
  <2>2. CASE conf[o] = 0
    BY <2>0, <2>1, <2>2
  <2>3. CASE conf[o] > 0
    <3>1. PICK i \in DOMAIN chain : TxOf[o] \in chain[i].txs /\ conf[o] + i <= CountedTo(o)
      BY <2>0, <2>3 DEF CountsHold
    <3>2. i \in Nat
      BY <2>1 DEF TypeOK, ChainTyped
    <3>3. Depth(TxOf[o]) = Len(chain) - i + 1
      BY <3>1, DepthIs
    <3>4. CountedTo(o) <= crashes + Len(chain) + 1
      <4>1. CASE lastBest = None
        BY <2>1, <4>1 DEF CountedTo
      <4>2. CASE lastBest # None
        BY <2>1, <4>2 DEF CountedTo
      <4> QED BY <4>1, <4>2
    <3> QED BY <2>0, <2>1, <3>1, <3>2, <3>3, <3>4
  <2> QED BY <2>0, <2>2, <2>3
<1> QED BY <1>1, CoreInvariance, CountedInvariance, PTL

-----------------------------------------------------------------------------
(* CONFIRMED is not early. The rows the block handler read still cover the *)
(* amount in time when it decides, so the earliest rows that cover it are  *)
(* all in time; and what is buried stays so.                               *)

Covers ==
  bx.pc = "apply" =>
    \A p \in Payments :
      bx.stat[p] \in PostThreshold => Total(InTime(p) \cap bx.seen) >= Expected[p]

\* More rows in time cover what fewer did.
LEMMA CoverStays ==
  ASSUME TypeOK, TypeOK', NEW p \in Payments, InTime(p) \subseteq InTime(p)',
         bx'.seen = bx.seen, Total(InTime(p) \cap bx.seen) >= Expected[p]
  PROVE  Total(InTime(p) \cap bx.seen)' >= Expected[p]
<1> DEFINE old == InTime(p) \cap bx.seen
           new == InTime(p)' \cap bx.seen
<1>1. new \in SUBSET Outputs /\ old \in SUBSET new
  BY DEF TypeOK, RowsTyped, InTime, OutputsTo
<1>2. Total(old) <= Total(new) /\ Total(old) \in Nat /\ Total(new) \in Nat /\ Expected[p] \in Nat
  BY <1>1, TotalMonotone, CoinsFinite, ConstantsAssumption
<1>3. Total(InTime(p) \cap bx.seen)' = Total(new)
  BY DEF Total, Coins
<1> QED BY <1>2, <1>3

LEMMA CoversStep == Core /\ Core' /\ Covers /\ [Next]_vars => Covers'
<1> SUFFICES ASSUME Core, Core', Covers, [Next]_vars, bx'.pc = "apply",
                    NEW p \in Payments, bx'.stat[p] \in PostThreshold
             PROVE  Total(InTime(p) \cap bx.seen)' >= Expected[p]
  BY DEF Covers
<1> USE DEF Core
<1>1. CASE bx.pc = "apply" /\ bx'.stat = bx.stat /\ bx'.seen = bx.seen
  BY <1>1, CoverStays, InTimeGrows DEF Covers
<1>2. CASE BlockReadChildren
  <2>1. bx'.stat = bx.stat /\ bx'.seen = {o \in recorded : bx.stat[PaidTo[o]] # Absent}
    BY <1>2, HandlerHolds DEF BlockReadChildren
  <2>2. InTime(p)' = InTime(p) /\ Funded(p)'
    <3>1. UNCHANGED <<expires, recorded, at>>
      BY <1>2 DEF BlockReadChildren, payVars, rowVars
    <3> QED BY <2>1, <3>1, FundedUnchanged DEF Funding, SnapshotHolds
  <2>3. InTime(p)' \cap bx'.seen = InTime(p)'
    BY <2>1, <2>2 DEF InTime, OutputsTo, PostThreshold, Absent
  <2>4. Total(InTime(p) \cap bx.seen)' = Total(InTime(p)' \cap bx'.seen)
    BY DEF Total, Coins
  <2>5. Total(InTime(p)') = Total(InTime(p))'
    BY DEF Total, Coins
  <2> QED BY <2>2, <2>3, <2>4, <2>5 DEF Funded
<1>3. CASE RawTxCommit \/ UNCHANGED <<rowVars, lastBest, bx, crashes>>
  BY <1>1, <1>3, CommitRows
<1>4. ASSUME NEW o \in Outputs, BlockChild(o) PROVE Total(InTime(p) \cap bx.seen)' >= Expected[p]
  BY <1>1, <1>4, ChildCounted
<1>5. CASE BlockMessage \/ BlockReadPayments \/ BlockPayment \/ BlockFails \/ Crash
  <2>1. UNCHANGED <<bx>> \/ (bx.pc = "apply" /\ bx'.stat = bx.stat /\ bx'.seen = bx.seen)
        \/ BlockReadChildren
    BY <1>5, HandlerHolds
  <2> QED BY <1>1, <1>2, <2>1
<1> QED BY <1>2, <1>3, <1>4, <1>5, BlockUntouched DEF BxStep

\* The earliest rows that cover the amount are in time, the rows in time covering it.
LEMMA CompletingInTime ==
  ASSUME TypeOK, NEW p \in Payments, NEW C \in CompletingSubsets(p, OutputsTo(p, bx.seen)),
         bx.seen \subseteq recorded, Total(InTime(p) \cap bx.seen) >= Expected[p]
  PROVE  C \subseteq InTime(p)
<1> SUFFICES ASSUME NEW o \in C, o \notin InTime(p) PROVE FALSE
  OBVIOUS
<1> DEFINE rows == OutputsTo(p, bx.seen)
           S == InTime(p) \cap bx.seen
<1>1. /\ C \subseteq rows /\ rows \subseteq recorded /\ recorded \subseteq Outputs
      /\ \A x \in C, y \in rows \ C : at[x] <= at[y]
  BY DEF CompletingSubsets, OutputsTo, TypeOK, RowsTyped
<1>2. PICK last \in C : (\A x \in C : at[x] <= at[last]) /\ Total(C \ {last}) < Expected[p]
  BY DEF CompletingSubsets
<1>3. expires[p] # NoDeadline /\ ~(at[o] < expires[p])
  BY <1>1 DEF InTime, OutputsTo
<1>4. expires[p] \in Nat /\ \A x \in C \cup rows : at[x] \in Nat
  BY <1>1, <1>3 DEF TypeOK, PaymentsTyped, RowsTyped, Deadlines
<1>5. \A x \in S : x \in rows /\ at[x] < expires[p]
  BY <1>3 DEF InTime, OutputsTo
<1>6. \A x \in S : x \in C /\ x # last
  <2> TAKE x \in S
  <2>1. at[x] < expires[p] /\ expires[p] <= at[o] /\ at[o] <= at[last] /\ x \in rows
    BY <1>2, <1>3, <1>4, <1>5
  <2> QED BY <1>1, <1>4, <2>1
<1>7. S \in SUBSET (C \ {last}) /\ C \ {last} \in SUBSET Outputs
  BY <1>1, <1>6
<1>8. Total(S) <= Total(C \ {last}) /\ Total(S) \in Nat /\ Total(C \ {last}) \in Nat
      /\ Expected[p] \in Nat
  BY <1>7, TotalMonotone, CoinsFinite, ConstantsAssumption
<1> QED BY <1>2, <1>8

\* Blocks are only added on top.
LEMMA DepthGrows ==
  ASSUME TypeOK, TypeOK', OneChain, OneChain', [Next]_vars, reorgs' = 0, NEW t
  PROVE  Depth(t) <= Depth(t)' /\ Depth(t)' \in Nat
<1>1. reorgs = 0
  BY ChainGrows
<1>2. Depth(t) \in Nat
  BY <1>1, DepthIs
<1>3. Depth(t)' \in Nat /\ \A i \in DOMAIN chain' : t \in chain'[i].txs => Depth(t)' = Len(chain') - i + 1
  <2>1. Len(chain') \in Nat /\ DOMAIN chain' = 1..Len(chain')
    BY ChainGrows
  <2>2. ASSUME NEW i \in DOMAIN chain', t \in chain'[i].txs
        PROVE  Depth(t)' = Len(chain') - i + 1 /\ Depth(t)' \in Nat
    <3> DEFINE j == CHOOSE n \in DOMAIN chain' : t \in chain'[n].txs
    <3>1. j \in DOMAIN chain' /\ t \in chain'[j].txs
      BY <2>2
    <3>2. j = i
      BY <2>2, <3>1 DEF OneChain
    <3>3. Depth(t)' = Len(chain') - j + 1
      BY <2>2 DEF Depth
    <3> HIDE DEF j
    <3> QED BY <2>1, <3>2, <3>3
  <2>3. CASE ~ \E i \in DOMAIN chain' : t \in chain'[i].txs
    BY <2>3 DEF Depth
  <2> QED BY <2>2, <2>3
<1>4. CASE \E i \in DOMAIN chain : t \in chain[i].txs
  <2>1. PICK i \in DOMAIN chain : t \in chain[i].txs
    BY <1>4
  <2>2. i \in Int /\ i \in DOMAIN chain' /\ t \in chain'[i].txs
    BY <2>1, ChainGrows
  <2>3. Depth(t) = Len(chain) - i + 1 /\ Depth(t)' = Len(chain') - i + 1
    BY <1>1, <1>3, <2>1, <2>2, DepthIs
  <2> QED BY <2>2, <2>3, ChainGrows
<1>5. CASE ~ \E i \in DOMAIN chain : t \in chain[i].txs
  BY <1>3, <1>5 DEF Depth
<1> QED BY <1>3, <1>4, <1>5

Burial == Core /\ Counted /\ Covers

LEMMA BurialStep ==
  Burial /\ Burial' /\ NoOvercount /\ ConfirmedIsBuried /\ [Next]_vars => ConfirmedIsBuried'
<1> SUFFICES ASSUME Burial, Burial', NoOvercount, ConfirmedIsBuried, [Next]_vars,
                    reorgs' = 0, crashes' = 0, NEW p \in Payments, status'[p] = "CONFIRMED"
             PROVE  \E C \in SUBSET InTime(p)' : /\ Total(C) >= Expected[p]
                                                /\ \A o \in C : Depth(TxOf[o])' >= Required
  <2>1. \A C : Total(C)' = Total(C)
    BY DEF Total, Coins
  <2> QED BY <2>1 DEF ConfirmedIsBuried
<1>0. reorgs = 0 /\ crashes = 0
  BY ChainGrows DEF Burial, Core, TypeOK, CountersTyped
<1>1. InTime(p) \subseteq InTime(p)' /\ \A t : Depth(t) <= Depth(t)'
  BY InTimeGrows, DepthGrows DEF Burial, Core, Counted
<1>2. \A t : Depth(t) \in Nat
  BY <1>0, DepthIs DEF Burial, Core, Counted
<1>3. \A t : Depth(t)' \in Nat
  BY DepthGrows DEF Burial, Core, Counted
<1>4. ASSUME NEW C \in SUBSET InTime(p), Total(C) >= Expected[p],
             \A o \in C : Depth(TxOf[o]) >= Required
      PROVE  \E D \in SUBSET InTime(p)' : /\ Total(D) >= Expected[p]
                                         /\ \A o \in D : Depth(TxOf[o])' >= Required
  <2>1. \A o \in C : Depth(TxOf[o])' >= Required
    BY <1>1, <1>2, <1>3, <1>4, ConstantsAssumption
  <2> QED BY <1>1, <1>4, <2>1
<1>5. CASE status[p] = "CONFIRMED"
  BY <1>0, <1>4, <1>5 DEF ConfirmedIsBuried
<1>6. CASE BlockWrites(p)
  <2>1. PICK C \in CompletingSubsets(p, OutputsTo(p, bx.seen)), m \in Nat \ {0} :
          /\ m = Least({bx.conf[o] : o \in C})
          /\ status'[p] = IF m >= Required THEN "CONFIRMED" ELSE "CONFIRMING"
    BY <1>6 DEF BlockWrites
  <2>2. bx.pc = "apply" /\ bx.stat[p] \in PostThreshold /\ m >= Required
    BY <1>6, <2>1 DEF BlockWrites, BlockPayment
  <2>3. C \subseteq bx.seen /\ C # {} /\ bx.seen \subseteq recorded /\ Total(C) >= Expected[p]
    BY <2>2 DEF CompletingSubsets, OutputsTo, Burial, Counted, CopiesHold
  <2>4. C \subseteq InTime(p)
    BY <2>2, <2>3, CompletingInTime DEF Burial, Core, Covers
  <2>5. \A o \in C : conf[o] >= Required
    <3> DEFINE counts == {bx.conf[o] : o \in C}
    <3>1. counts \in SUBSET Nat /\ counts # {}
      BY <2>3 DEF Burial, Core, TypeOK, RowsTyped, BxTyped, BxStates
    <3>2. \A n \in counts : m <= n
      <4>1. m = Least(counts)
        BY <2>1
      <4> HIDE DEF counts
      <4> QED BY <3>1, <4>1, LeastExists
    <3>3. \A o \in C : bx.conf[o] = conf[o] /\ conf[o] \in Nat
      BY <2>2, <2>3 DEF Burial, Core, Counted, CopiesHold, TypeOK, RowsTyped
    <3> QED BY <2>2, <3>2, <3>3, ConstantsAssumption
  <2>6. \A o \in C : Depth(TxOf[o]) >= Required
    <3> TAKE o \in C
    <3>1. conf[o] <= Depth(TxOf[o]) + crashes /\ conf[o] \in Nat
      BY <1>0, <2>3 DEF NoOvercount, Burial, Core, TypeOK, RowsTyped
    <3> QED BY <1>0, <1>2, <2>5, <3>1, ConstantsAssumption
  <2> QED BY <1>4, <2>3, <2>4, <2>6
<1>7. CASE status'[p] = status[p]
  BY <1>5, <1>7
<1> QED BY <1>5, <1>6, <1>7, PaymentChanges DEF Burial, Core, TransactionWrites

\* CONFIRMED is never early, on a chain without reorganisations and a worker
\* without restarts: outputs that were in time and cover the amount are as deep
\* as the required confirmations ask, whatever rows come late and however far
\* apart the handler's two queries, its updates and the chain's tip are.
THEOREM ConfirmedMeansBuried == Spec => []ConfirmedIsBuried
<1>1. Init => ConfirmedIsBuried
  BY DEF Init, ConfirmedIsBuried, Absent
<1>2. Init => Covers
  BY DEF Init, Covers, BxIdle
<1>3. Spec => []Covers
  BY <1>2, CoversStep, CoreInvariance, PTL DEF Spec
<1> QED BY <1>1, <1>3, BurialStep, CoreInvariance, CountedInvariance, CountsAreNotInflated, PTL DEF Spec, Burial

-----------------------------------------------------------------------------
(* The confirmations shown. What a payment shows is backed by its completing*)
(* subset, which rows that come later do not enter. Two outputs of one     *)
(* transaction to one payment have one detected_at, and then the earliest  *)
(* rows are not determined: completingSubsetMinConf sorts by detected_at   *)
(* alone, and when the handler failed between the two rows' updates they   *)
(* may count differently. The theorem leaves that case out.                *)

OneOutputEach ==
  \A o, x \in Outputs : TxOf[o] = TxOf[x] /\ PaidTo[o] = PaidTo[x] => o = x

\* CompletingSubsets, as a function of detected_at.
Completing(p, S, time) ==
  {C \in SUBSET S :
     /\ Total(C) >= Expected[p]
     /\ \A o \in C, x \in S \ C : time[o] <= time[x]
     /\ \E last \in C : /\ \A o \in C : time[o] <= time[last]
                        /\ Total(C \ {last}) < Expected[p]}

\* Later rows leave the completing subset alone.
LEMMA CompletingStays ==
  ASSUME NEW p, NEW T \in SUBSET Outputs, NEW S \in SUBSET T,
         NEW old, NEW new, \A o \in S : new[o] = old[o],
         \A o \in S, x \in T \ S : old[o] <= new[x],
         NEW C \in Completing(p, S, old)
  PROVE  C \in Completing(p, T, new)
<1>1. PICK last \in C : (\A o \in C : old[o] <= old[last]) /\ Total(C \ {last}) < Expected[p]
  BY DEF Completing
<1>2. C \subseteq S /\ Total(C) >= Expected[p] /\ \A o \in C, x \in S \ C : old[o] <= old[x]
  BY DEF Completing
<1>3. \A o \in C, x \in T \ C : new[o] <= new[x]
  BY <1>2
<1>4. \A o \in C : new[o] <= new[last]
  BY <1>1, <1>2
<1> QED BY <1>1, <1>2, <1>3, <1>4 DEF Completing

\* Of two completing subsets of rows detected one after the other, one has the other's rows.
LEMMA CompletingWithin ==
  ASSUME NEW p \in Payments, NEW S \in SUBSET Outputs, NEW time \in [Outputs -> Nat],
         \A o, x \in S : time[o] = time[x] => o = x,
         NEW C \in Completing(p, S, time), NEW D \in Completing(p, S, time)
  PROVE  C \subseteq D
<1> SUFFICES ASSUME NEW o \in C, o \notin D PROVE FALSE
  OBVIOUS
<1>1. /\ C \subseteq S /\ D \subseteq S /\ Total(D) >= Expected[p]
      /\ \A a \in C, x \in S \ C : time[a] <= time[x]
      /\ \A d \in D, x \in S \ D : time[d] <= time[x]
  BY DEF Completing
<1>2. PICK last \in C : (\A a \in C : time[a] <= time[last]) /\ Total(C \ {last}) < Expected[p]
  BY DEF Completing
<1>3. \A x \in S : time[x] \in Nat
  BY <1>1
<1>4. \A d \in D : d \in C /\ d # last
  <2> TAKE d \in D
  <2>1. time[d] <= time[o] /\ d \in S /\ o \in S /\ d # o
    BY <1>1
  <2>2. d \in C
    <3>1. SUFFICES ASSUME d \notin C PROVE FALSE
      OBVIOUS
    <3>2. time[o] <= time[d]
      BY <1>1, <2>1, <3>1
    <3>3. time[o] = time[d]
      BY <1>3, <2>1, <3>2
    <3> QED BY <2>1, <3>3
  <2>3. d # last
    <3>1. SUFFICES ASSUME d = last PROVE FALSE
      OBVIOUS
    <3>2. time[o] <= time[d]
      BY <1>2, <3>1
    <3>3. time[o] = time[d]
      BY <1>3, <2>1, <3>2
    <3> QED BY <2>1, <3>3
  <2> QED BY <2>2, <2>3
<1>5. C \ {last} \in SUBSET Outputs /\ D \in SUBSET (C \ {last})
  BY <1>1, <1>4
<1>6. Total(D) <= Total(C \ {last}) /\ Total(D) \in Nat /\ Total(C \ {last}) \in Nat
      /\ Expected[p] \in Nat
  BY <1>5, TotalMonotone, CoinsFinite, ConstantsAssumption
<1> QED BY <1>1, <1>2, <1>6

\* Rows are only added, at the end, and only count up.
LEMMA RowsKept ==
  ASSUME Core, Core', Order, CopiesHold, [Next]_vars
  PROVE  /\ recorded \subseteq recorded' /\ recorded' \subseteq Outputs
         /\ \A o \in recorded : at'[o] = at[o] /\ conf'[o] >= conf[o]
         /\ \A o \in recorded, x \in recorded' \ recorded : at[o] <= at'[x]
<1> USE DEF Core
<1>1. recorded' \subseteq Outputs /\ at \in [Outputs -> Nat] /\ conf \in [Outputs -> Nat]
      /\ recorded \subseteq Outputs
  BY DEF TypeOK, RowsTyped
<1>2. CASE UNCHANGED rowVars
  BY <1>1, <1>2 DEF rowVars
<1>3. CASE RawTxCommit
  <2>1. \A o \in recorded : at'[o] = at[o] /\ conf'[o] = conf[o]
    BY <1>1, <1>3, CommitRows
  <2>2. ASSUME NEW o \in recorded, NEW x \in NewRows(rx.pay)
        PROVE  at[o] <= at'[x]
    <3>1. at[o] < rx.seenAt \/ at[o] = rx.seenAt
      BY <1>3, <2>2, CommitRows DEF Order, MessageInOrder
    <3>2. at'[x] = rx.seenAt /\ rx.seenAt \in Nat /\ at[o] \in Nat
      BY <1>1, <1>3, <2>2, CommitRows DEF TypeOK, RxTyped, RxStates
    <3> QED BY <3>1, <3>2
  <2> QED BY <1>1, <1>3, <2>1, <2>2, CommitRows
<1>4. ASSUME NEW c \in Outputs, BlockChild(c)
      PROVE  recorded' = recorded /\ \A o \in recorded : at'[o] = at[o] /\ conf'[o] >= conf[o]
  <2>1. bx.conf[c] = conf[c] /\ recorded' = recorded /\ at' = at
    BY <1>4, ChildCounted DEF CopiesHold
  <2>2. conf'[c] >= conf[c]
    BY <1>1, <1>4, <2>1, ChildCounted DEF NewConf
  <2>3. \A o \in Outputs : o # c => conf'[o] = conf[o]
    BY <1>4, ChildCounted
  <2> QED BY <1>1, <2>1, <2>2, <2>3
<1>5. CASE \/ BlockMessage \/ BlockReadPayments \/ BlockReadChildren
           \/ BlockPayment \/ BlockFails \/ Crash
  BY <1>2, <1>5, HandlerHolds
<1> QED BY <1>1, <1>2, <1>3, <1>4, <1>5, BlockUntouched DEF BxStep, rowVars

\* What the block handler has not read was detected later than what it has.
SeenFirst ==
  bx.pc = "apply" =>
    \A o \in bx.seen, x \in recorded \ bx.seen : PaidTo[o] = PaidTo[x] => at[o] <= at[x]

LEMMA SeenFirstStep ==
  Core /\ Core' /\ Order /\ CopiesHold /\ SeenFirst /\ [Next]_vars => SeenFirst'
<1> SUFFICES ASSUME Core, Core', Order, CopiesHold, SeenFirst, [Next]_vars, bx'.pc = "apply",
                    NEW o \in bx'.seen, NEW x \in recorded' \ bx'.seen, PaidTo[o] = PaidTo[x]
             PROVE  at'[o] <= at'[x]
  BY DEF SeenFirst
<1> USE DEF Core
<1>1. CASE bx.pc = "apply" /\ bx'.seen = bx.seen
  <2>1. o \in recorded /\ at'[o] = at[o]
    BY <1>1, RowsKept DEF CopiesHold
  <2>2. CASE x \in recorded
    BY <1>1, <2>1, <2>2, RowsKept DEF SeenFirst
  <2>3. CASE x \notin recorded
    BY <2>1, <2>3, RowsKept
  <2> QED BY <2>2, <2>3
<1>2. CASE BlockReadChildren
  <2>1. bx'.seen = {r \in recorded : bx.stat[PaidTo[r]] # Absent} /\ recorded' = recorded
    BY <1>2, HandlerHolds DEF BlockReadChildren, rowVars
  <2> QED BY <2>1
<1>3. CASE RawTxCommit \/ UNCHANGED <<rowVars, lastBest, bx, crashes>>
  BY <1>1, <1>3, CommitRows
<1>4. ASSUME NEW c \in Outputs, BlockChild(c) PROVE at'[o] <= at'[x]
  BY <1>1, <1>4, ChildCounted
<1>5. CASE BlockMessage \/ BlockReadPayments \/ BlockPayment \/ BlockFails \/ Crash
  BY <1>1, <1>2, <1>5, HandlerHolds
<1> QED BY <1>2, <1>3, <1>4, <1>5, BlockUntouched DEF BxStep

Backed ==
  \A p \in Payments : confs[p] > 0 =>
    \E C \in Completing(p, OutputsTo(p, recorded), at) : \A o \in C : conf[o] >= confs[p]

\* A decision of the block handler is about the payment's completing subset, as
\* the table has it by then.
LEMMA DecisionIsCurrent ==
  ASSUME Core, CopiesHold, SeenFirst, NEW p \in Payments, BlockWrites(p)
  PROVE  \E C \in Completing(p, OutputsTo(p, recorded), at) :
           \A m \in Nat : (\A o \in C : m <= conf[o]) <=> m <= confs'[p]
<1> USE DEF Core
<1>1. PICK C \in CompletingSubsets(p, OutputsTo(p, bx.seen)), m \in Nat \ {0} :
        m = Least({bx.conf[o] : o \in C}) /\ confs'[p] = m
  BY DEF BlockWrites
<1>2. bx.pc = "apply" /\ bx.seen \subseteq recorded /\ recorded \subseteq Outputs
  BY DEF BlockWrites, BlockPayment, CopiesHold, TypeOK, RowsTyped
<1>3. C \in Completing(p, OutputsTo(p, bx.seen), at) /\ C \subseteq bx.seen /\ C # {}
  BY <1>1 DEF CompletingSubsets, Completing, OutputsTo
<1>4. C \in Completing(p, OutputsTo(p, recorded), at)
  <2> DEFINE S == OutputsTo(p, bx.seen)
             T == OutputsTo(p, recorded)
  <2>1. T \in SUBSET Outputs /\ S \in SUBSET T
    BY <1>2 DEF OutputsTo
  <2>2. \A o \in S, x \in T \ S : at[o] <= at[x]
    BY <1>2 DEF OutputsTo, SeenFirst
  <2> HIDE DEF S, T
  <2>3. C \in Completing(p, S, at)
    BY <1>3 DEF S
  <2>4. C \in Completing(p, T, at)
    BY <2>1, <2>2, <2>3, CompletingStays
  <2> QED BY <2>4 DEF T
<1>5. \A n \in Nat : (\A o \in C : n <= conf[o]) <=> n <= m
  <2> DEFINE counts == {bx.conf[o] : o \in C}
  <2>1. counts \in SUBSET Nat /\ counts # {} /\ m = Least(counts)
    BY <1>1, <1>2, <1>3 DEF TypeOK, BxTyped, BxStates
  <2>2. m \in counts /\ \A n \in counts : m <= n
    <3> HIDE DEF counts
    <3> QED BY <2>1, LeastExists
  <2>3. \A o \in C : bx.conf[o] = conf[o] /\ conf[o] \in Nat
    BY <1>2, <1>3 DEF CopiesHold, TypeOK, RowsTyped
  <2>4. \A o \in C : m <= conf[o]
    BY <2>2, <2>3
  <2>5. \E o \in C : m = conf[o]
    BY <2>2, <2>3
  <2> QED BY <2>3, <2>4, <2>5
<1> QED BY <1>1, <1>4, <1>5

LEMMA BackedStep ==
  Core /\ Core' /\ Order /\ CopiesHold /\ SeenFirst /\ Backed /\ [Next]_vars => Backed'
<1> SUFFICES ASSUME Core, Core', Order, CopiesHold, SeenFirst, Backed, [Next]_vars,
                    NEW p \in Payments, confs'[p] > 0
             PROVE  \E C \in Completing(p, OutputsTo(p, recorded'), at') :
                      \A o \in C : conf'[o] >= confs'[p]
  BY DEF Backed, OutputsTo
<1> USE DEF Core
<1> DEFINE S == OutputsTo(p, recorded)
           T == OutputsTo(p, recorded')
<1>1. /\ T \in SUBSET Outputs /\ S \in SUBSET T /\ S \subseteq recorded
      /\ \A o \in S : at'[o] = at[o] /\ conf'[o] >= conf[o]
      /\ \A o \in S, x \in T \ S : at[o] <= at'[x]
  BY RowsKept DEF OutputsTo
<1>2. confs'[p] \in Nat /\ \A o \in S : conf[o] \in Nat /\ conf'[o] \in Nat
  BY <1>1 DEF TypeOK, PaymentsTyped, RowsTyped
<1>3. ASSUME NEW C \in Completing(p, S, at), \A o \in C : conf[o] >= confs'[p]
      PROVE  \E D \in Completing(p, T, at') : \A o \in D : conf'[o] >= confs'[p]
  <2>1. C \in Completing(p, T, at') /\ C \subseteq S
    <3>1. C \subseteq S
      BY DEF Completing
    <3> HIDE DEF S, T
    <3> QED BY <1>1, <3>1, CompletingStays
  <2>2. \A o \in C : conf'[o] >= confs'[p]
    BY <1>1, <1>2, <1>3, <2>1
  <2> QED BY <2>1, <2>2
<1>4. CASE confs'[p] = confs[p]
  BY <1>3, <1>4 DEF Backed
<1>5. CASE TransactionWrites(p)
  BY <1>5 DEF TransactionWrites
<1>6. CASE BlockWrites(p)
  <2>1. PICK C \in Completing(p, S, at) :
          \A m \in Nat : (\A o \in C : m <= conf[o]) <=> m <= confs'[p]
    BY <1>6, DecisionIsCurrent
  <2>2. C \subseteq S
    BY DEF Completing
  <2>3. \A o \in C : conf[o] >= confs'[p]
    BY <1>2, <2>1, <2>2
  <2> QED BY <1>3, <2>3
<1> QED BY <1>4, <1>5, <1>6, PaymentChanges

LEMMA BackedInvariance == Spec => [](SeenFirst /\ Backed)
<1>1. Init => SeenFirst /\ Backed
  BY DEF Init, SeenFirst, Backed, BxIdle
<1>2. Core /\ Core' /\ Order /\ Counted /\ SeenFirst /\ Backed /\ [Next]_vars
        => (SeenFirst /\ Backed)'
  BY SeenFirstStep, BackedStep DEF Counted
<1> QED BY <1>1, <1>2, CoreStep, CoreInvariance, OrderInvariance, CountedInvariance, PTL DEF Spec

\* The confirmations shown for a payment never go down, where no transaction pays
\* one payment twice: a decision made from an old snapshot is about the same
\* completing subset as the last one, whose rows only count up.
THEOREM CountsNeverGoDown == ASSUME OneOutputEach PROVE Spec => ConfirmationsNeverDecrease
<1> DEFINE Step == \A p \in Payments : confs'[p] >= confs[p]
<1>1. Core /\ Core' /\ Order /\ Counted /\ SeenFirst /\ Backed /\ [Next]_vars => [Step]_vars
  <2> SUFFICES ASSUME Core, Core', Order, Counted, SeenFirst, Backed, [Next]_vars, NEW p \in Payments
               PROVE  confs'[p] >= confs[p]
    OBVIOUS
  <2>1. confs[p] \in Nat
    BY DEF Core, TypeOK, PaymentsTyped
  <2>2. CASE confs'[p] = confs[p]
    BY <2>1, <2>2
  <2>3. CASE TransactionWrites(p)
    BY <2>3 DEF TransactionWrites, Core, Stages, LookupIsEarly
  <2>4. CASE BlockWrites(p)
    <3> DEFINE S == OutputsTo(p, recorded)
    <3>1. PICK C \in Completing(p, S, at) :
            \A m \in Nat : (\A o \in C : m <= conf[o]) <=> m <= confs'[p]
      BY <2>4, DecisionIsCurrent DEF Counted
    <3>2. CASE confs[p] = 0
      <4>1. 0 <= confs'[p]
        BY DEF Core, TypeOK, PaymentsTyped
      <4> QED BY <3>2, <4>1 DEF Core, TypeOK, PaymentsTyped
    <3>3. CASE confs[p] > 0
      <4>1. PICK D \in Completing(p, S, at) : \A o \in D : conf[o] >= confs[p]
        BY <3>3 DEF Backed
      <4>2. \A o, x \in S : at[o] = at[x] => o = x
        BY OneOutputEach DEF Order, RowsInOrder, OutputsTo, OneOutputEach, Core, TypeOK, RowsTyped
      <4>3. S \in SUBSET Outputs /\ at \in [Outputs -> Nat] /\ \A o \in S : conf[o] \in Nat
        BY DEF OutputsTo, Core, TypeOK, RowsTyped
      <4>4. C \subseteq D /\ C \subseteq S
        <5>1. C \subseteq S
          BY DEF Completing
        <5> HIDE DEF S
        <5> QED BY <4>2, <4>3, <5>1, CompletingWithin
      <4>5. \A o \in C : confs[p] <= conf[o]
        BY <2>1, <4>1, <4>3, <4>4
      <4> QED BY <2>1, <3>1, <4>5 DEF Core, TypeOK, PaymentsTyped
    <3> QED BY <2>1, <3>2, <3>3
  <2> QED BY <2>2, <2>3, <2>4, PaymentChanges
<1> QED BY <1>1, CoreStep, CoreInvariance, OrderInvariance, CountedInvariance, BackedInvariance, PTL
        DEF Spec, ConfirmationsNeverDecrease

=============================================================================
