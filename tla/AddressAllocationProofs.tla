----------------------- MODULE AddressAllocationProofs -----------------------
(***************************************************************************)
(* The allocation of addresses, for every number of versions, operations   *)
(* and overlapping calls: types, one address for one operation, burned     *)
(* indexes, and the refinement of AllocationLedger.                        *)
(***************************************************************************)
EXTENDS AddressAllocation, TLAPS

Indexes == 0 .. IndexLimit - 1
Addresses == {AddressOf(v, i) : v \in Versions, i \in Indexes}

Rows == [key : Keys, draft : Drafts, index : Indexes, address : Addresses]
Entries == [version : Versions, index : Indexes, address : Addresses, payment : Nat]
Results == [key : Keys, draft : Drafts, index : Indexes, address : Addresses, payment : Nat]

Active ==
  [pc : {"consume", "lookup", "derive", "persist", "conflict", "return"},
   key : Keys, draft : Drafts, index : {NoIndex} \cup Indexes, payment : Nat]

Typed ==
  /\ wallet \in [Versions -> [lifecycle : {"ACTIVE", "RETIRED"},
                              recovery : {"READY", "RECOVERY_REQUIRED"}]]
  /\ consumed \in [Keys -> Nat \cup {NoIndex}]
  /\ hwm \in [Versions -> Nat]
  /\ allocations \subseteq Entries
  /\ payments \in Seq(Rows)
  /\ call \in [Calls -> {Idle} \cup Active]
  /\ answers \subseteq Results

\* The authority gives every index of a version once.
IndexesAreDistinct ==
  \A k, l \in Keys :
    /\ consumed[k] < hwm[k[1]]
    /\ k # l /\ k[1] = l[1] /\ consumed[k] # NoIndex => consumed[k] # consumed[l]

\* The index a call works at is its operation's, for ever; the payment it is
\* about to return is its operation's and of its intent.
CallHolds(c) ==
  /\ call[c].pc # "idle" => call[c].payment \in {Burned} \cup DOMAIN payments
  /\ call[c].pc \in {"lookup", "derive", "persist", "conflict", "return"} =>
       call[c].index \in Indexes /\ call[c].index = consumed[call[c].key]
  /\ call[c].pc = "return" =>
       /\ call[c].payment \in DOMAIN payments
       /\ payments[call[c].payment].key = call[c].key
       /\ payments[call[c].payment].draft = call[c].draft

\* A payment is at its operation's index, and in the allocations.
PaymentHolds(n) ==
  /\ payments[n].index = consumed[payments[n].key]
  /\ payments[n].address = AddressOf(payments[n].key[1], payments[n].index)
  /\ \E a \in allocations : /\ a.payment = n
                            /\ a.version = payments[n].key[1]
                            /\ a.index = payments[n].index
                            /\ a.address = payments[n].address

\* An allocation is burned or its payment's; addresses are unique.
AllocationsHold ==
  /\ \A a \in allocations : a.payment # Burned =>
       /\ a.payment \in DOMAIN payments
       /\ payments[a.payment].key[1] = a.version
       /\ payments[a.payment].index = a.index
  /\ \A a, b \in allocations : a.address = b.address => a = b

PaymentsDiffer ==
  \A n, m \in DOMAIN payments : n # m =>
    /\ payments[n].key # payments[m].key
    /\ payments[n].address # payments[m].address

\* What was returned is booked.
AnswerHolds(x) ==
  /\ x.payment \in DOMAIN payments
  /\ payments[x.payment].key = x.key
  /\ payments[x.payment].draft = x.draft
  /\ payments[x.payment].index = x.index
  /\ payments[x.payment].address = x.address

IInv ==
  /\ Typed
  /\ IndexesAreDistinct
  /\ \A c \in Calls : CallHolds(c)
  /\ \A n \in DOMAIN payments : PaymentHolds(n)
  /\ AllocationsHold
  /\ PaymentsDiffer
  /\ \A x \in answers : AnswerHolds(x)

-----------------------------------------------------------------------------
(* Lemmas *)

LEMMA KeysHaveVersions == \A k \in Keys : k[1] \in Versions
BY ConstantsAssumption

LEMMA PaymentsDomain ==
  ASSUME Typed
  PROVE  /\ DOMAIN payments = 1 .. Len(payments)
         /\ Len(payments) \in Nat
         /\ Burned \notin DOMAIN payments
         /\ \A n \in DOMAIN payments : payments[n] \in Rows
BY DEF Typed, Burned

LEMMA AddressTyped ==
  ASSUME NEW v \in Versions, NEW i \in Indexes
  PROVE  AddressOf(v, i) \in Addresses
BY DEF Addresses

\* A call that is not idle is a record of an active one.
LEMMA ActiveCall ==
  ASSUME Typed, NEW c \in Calls, call[c].pc # "idle"
  PROVE  call[c] \in Active
BY DEF Typed, Idle

\* A step that changes one call and nothing else keeps everything but what it
\* says of this call.
LEMMA OneCallMoves ==
  ASSUME IInv, NEW c \in Calls, NEW r \in {Idle} \cup Active,
         call' = [call EXCEPT ![c] = r],
         UNCHANGED <<wallet, authority, database, answers>>,
         r.pc # "idle" => r.payment \in {Burned} \cup DOMAIN payments,
         r.pc \in {"lookup", "derive", "persist", "conflict", "return"} =>
           r.index \in Indexes /\ r.index = consumed[r.key],
         r.pc = "return" =>
           /\ r.payment \in DOMAIN payments
           /\ payments[r.payment].key = r.key
           /\ payments[r.payment].draft = r.draft
  PROVE  IInv'
<1> USE DEF authority, database
<1>1. call' \in [Calls -> {Idle} \cup Active] /\ call'[c] = r
      /\ \A d \in Calls \ {c} : call'[d] = call[d]
  BY DEF IInv, Typed
<1>2. Typed'
  BY <1>1 DEF IInv, Typed
<1>3. IndexesAreDistinct' /\ AllocationsHold' /\ PaymentsDiffer'
  BY DEF IInv, IndexesAreDistinct, AllocationsHold, PaymentsDiffer
<1>4. ASSUME NEW d \in Calls PROVE CallHolds(d)'
  <2>1. CASE d = c
    BY <1>1, <2>1 DEF CallHolds
  <2>2. CASE d # c
    BY <1>1, <2>2 DEF CallHolds, IInv
  <2> QED BY <2>1, <2>2
<1>5. (\A n \in DOMAIN payments : PaymentHolds(n))'
  BY DEF IInv, PaymentHolds
<1>6. (\A x \in answers : AnswerHolds(x))'
  BY DEF IInv, AnswerHolds
<1> QED BY <1>2, <1>3, <1>4, <1>5, <1>6 DEF IInv

\* A call that ends.
LEMMA CallEnds ==
  ASSUME IInv, NEW c \in Calls, End(c),
         UNCHANGED <<wallet, authority, database, answers>>
  PROVE  IInv'
<1>1. Idle.pc = "idle"
  BY DEF Idle
<1> QED BY <1>1, OneCallMoves DEF End

\* A call that goes on to another place with what it knows.
LEMMA CallGoesOn ==
  ASSUME IInv, NEW c \in Calls, NEW pc \in {"derive", "persist", "conflict"},
         call[c].pc \in {"lookup", "derive", "persist"}, GoTo(c, pc),
         UNCHANGED <<wallet, authority, database, answers>>
  PROVE  IInv'
<1> DEFINE r == [call[c] EXCEPT !.pc = pc]
<1>1. call[c] \in Active
  BY ActiveCall DEF IInv
<1>2. /\ r \in Active /\ r.pc = pc /\ r.payment = call[c].payment
      /\ r.index = call[c].index /\ r.key = call[c].key
  BY <1>1 DEF Active
<1>3. call' = [call EXCEPT ![c] = r]
  BY DEF GoTo
<1>4. CallHolds(c)
  BY DEF IInv
<1> HIDE DEF r
<1>5. /\ r.payment \in {Burned} \cup DOMAIN payments
      /\ r.index \in Indexes /\ r.index = consumed[r.key]
  BY <1>2, <1>4 DEF CallHolds
<1> QED BY <1>2, <1>3, <1>5, OneCallMoves

\* What is adopted is the payment of the call's own operation: at one index of
\* a version there is one operation.
LEMMA AdoptedIsOwn ==
  ASSUME IInv, NEW c \in Calls,
         call[c].pc \in {"lookup", "derive", "persist", "conflict"},
         NEW a \in AllocationsAt(call[c].key[1], call[c].index), Matches(c, a)
  PROVE  /\ a.payment \in DOMAIN payments
         /\ payments[a.payment].key = call[c].key
         /\ payments[a.payment].draft = call[c].draft
<1>1. call[c] \in Active /\ CallHolds(c)
  BY ActiveCall DEF IInv
<1>2. /\ a \in allocations /\ a.version = call[c].key[1] /\ a.index = call[c].index
      /\ a.payment # Burned /\ payments[a.payment].draft = call[c].draft
  BY DEF AllocationsAt, Matches
<1>3. /\ a.payment \in DOMAIN payments
      /\ payments[a.payment].key[1] = a.version
      /\ payments[a.payment].index = a.index
  BY <1>2 DEF IInv, AllocationsHold
<1> DEFINE k == payments[a.payment].key
<1>4. k \in Keys /\ call[c].key \in Keys
  BY <1>1, <1>3, PaymentsDomain DEF IInv, Rows, Active
<1>5. consumed[k] = consumed[call[c].key] /\ consumed[k] # NoIndex
  <2>1. consumed[k] = a.index
    BY <1>3 DEF IInv, PaymentHolds
  <2>2. call[c].index \in Indexes /\ call[c].index = consumed[call[c].key]
    BY <1>1 DEF CallHolds
  <2> QED BY <2>1, <2>2, <1>2 DEF Indexes, NoIndex
<1>6. k = call[c].key
  BY <1>2, <1>3, <1>4, <1>5 DEF IInv, IndexesAreDistinct
<1> QED BY <1>2, <1>3, <1>6

LEMMA AdoptKeeps ==
  ASSUME IInv, NEW c \in Calls,
         call[c].pc \in {"lookup", "derive", "persist", "conflict"},
         NEW a \in AllocationsAt(call[c].key[1], call[c].index), Adopt(c, a),
         UNCHANGED <<wallet, authority, database, answers>>
  PROVE  IInv'
<1>1. CASE ~ Matches(c, a)
  BY <1>1, CallEnds DEF Adopt
<1>2. CASE Matches(c, a)
  <2> DEFINE r == [call[c] EXCEPT !.pc = "return", !.payment = a.payment]
  <2>1. call[c] \in Active /\ CallHolds(c)
    BY ActiveCall DEF IInv
  <2>2. /\ a.payment \in DOMAIN payments
        /\ payments[a.payment].key = call[c].key
        /\ payments[a.payment].draft = call[c].draft
    BY <1>2, AdoptedIsOwn
  <2>3. a.payment \in Nat
    BY <2>2, PaymentsDomain DEF IInv
  <2>4. /\ r \in Active /\ r.pc = "return" /\ r.payment = a.payment
        /\ r.index = call[c].index /\ r.key = call[c].key /\ r.draft = call[c].draft
    BY <2>1, <2>3 DEF Active
  <2>5. call' = [call EXCEPT ![c] = r]
    BY <1>2 DEF Adopt
  <2>6. call[c].index \in Indexes /\ call[c].index = consumed[call[c].key]
    BY <2>1 DEF CallHolds
  <2> HIDE DEF r
  <2> QED BY <2>2, <2>4, <2>5, <2>6, OneCallMoves
<1> QED BY <1>1, <1>2

\* The wallet's life changes nothing the invariant is about.
LEMMA WalletMoves ==
  ASSUME IInv, UNCHANGED <<authority, database, call, answers>>,
         wallet' \in [Versions -> [lifecycle : {"ACTIVE", "RETIRED"},
                                   recovery : {"READY", "RECOVERY_REQUIRED"}]]
  PROVE  IInv'
<1> USE DEF authority, database
<1>1. Typed'
  BY DEF IInv, Typed
<1>2. IndexesAreDistinct' /\ AllocationsHold' /\ PaymentsDiffer'
  BY DEF IInv, IndexesAreDistinct, AllocationsHold, PaymentsDiffer
<1>3. (\A c \in Calls : CallHolds(c))'
  BY DEF IInv, CallHolds
<1>4. (\A n \in DOMAIN payments : PaymentHolds(n))' /\ (\A x \in answers : AnswerHolds(x))'
  BY DEF IInv, PaymentHolds, AnswerHolds
<1> QED BY <1>1, <1>2, <1>3, <1>4 DEF IInv

-----------------------------------------------------------------------------
(* The steps *)

\* The authority's step, whatever the call makes of its answer: taken indexes
\* stay, and a new one is nobody's.
LEMMA AuthorityAdvances ==
  ASSUME IInv, NEW k \in Keys, TakeIndex(k)
  PROVE  /\ consumed' \in [Keys -> Nat \cup {NoIndex}]
         /\ hwm' \in [Versions -> Nat]
         /\ consumed'[k] \in Nat
         /\ \A l \in Keys : consumed[l] # NoIndex \/ l # k => consumed'[l] = consumed[l]
         /\ \A l \in Keys : l[1] = k[1] /\ l # k /\ consumed[k] = NoIndex
                              => consumed[l] # consumed'[k]
         /\ IndexesAreDistinct'
<1>1. k[1] \in Versions /\ \A l \in Keys : l[1] \in Versions
  BY KeysHaveVersions
<1>2. consumed \in [Keys -> Nat \cup {NoIndex}] /\ hwm \in [Versions -> Nat]
  BY DEF IInv, Typed
<1>3. \A l \in Keys : consumed[l] < hwm[l[1]]
  BY DEF IInv, IndexesAreDistinct
<1>4. CASE consumed[k] = NoIndex
  <2>1. consumed' = [consumed EXCEPT ![k] = hwm[k[1]]]
        /\ hwm' = [hwm EXCEPT ![k[1]] = hwm[k[1]] + 1]
    BY <1>4 DEF TakeIndex
  <2>2. /\ consumed' \in [Keys -> Nat \cup {NoIndex}] /\ hwm' \in [Versions -> Nat]
        /\ consumed'[k] = hwm[k[1]] /\ consumed'[k] \in Nat
        /\ \A l \in Keys : l # k => consumed'[l] = consumed[l]
        /\ hwm'[k[1]] = hwm[k[1]] + 1
        /\ \A v \in Versions : v # k[1] => hwm'[v] = hwm[v]
    BY <1>1, <1>2, <2>1
  <2>3. \A l \in Keys : l[1] = k[1] => consumed[l] # hwm[k[1]]
    BY <1>1, <1>2, <1>3 DEF NoIndex
  <2>4. \A l \in Keys : consumed'[l] < hwm'[l[1]]
    BY <1>1, <1>2, <1>3, <2>2 DEF NoIndex
  <2>5. ASSUME NEW l \in Keys, NEW j \in Keys, l # j, l[1] = j[1], consumed'[l] # NoIndex
        PROVE  consumed'[l] # consumed'[j]
    <3>1. CASE l = k
      BY <2>2, <2>3, <2>5, <3>1
    <3>2. CASE j = k
      BY <2>2, <2>3, <2>5, <3>2
    <3>3. CASE l # k /\ j # k
      BY <2>2, <2>5, <3>3 DEF IInv, IndexesAreDistinct
    <3> QED BY <3>1, <3>2, <3>3
  <2> QED BY <1>4, <2>2, <2>3, <2>4, <2>5 DEF IndexesAreDistinct
<1>5. CASE consumed[k] # NoIndex
  <2>1. consumed' = consumed /\ hwm' = hwm
    BY <1>1, <1>2, <1>5 DEF TakeIndex
  <2> QED BY <1>2, <1>5, <2>1 DEF IInv, IndexesAreDistinct, NoIndex
<1> QED BY <1>4, <1>5

\* Consume and ConsumeUnheard.
LEMMA ConsumeKeeps ==
  ASSUME IInv, NEW c \in Calls, call[c].pc = "consume", TakeIndex(call[c].key),
         UNCHANGED <<wallet, database, answers>>,
         NEW r \in {Idle} \cup Active, call' = [call EXCEPT ![c] = r],
         r = Idle \/ /\ r.pc = "lookup" /\ r.key = call[c].key
                     /\ r.payment = call[c].payment
                     /\ r.index \in Indexes /\ r.index = consumed'[r.key]
  PROVE  IInv'
<1> USE DEF database
<1> DEFINE k == call[c].key
<1>1. call[c] \in Active /\ CallHolds(c)
  BY ActiveCall DEF IInv
<1>2. k \in Keys
  BY <1>1 DEF Active
<1>3. /\ consumed' \in [Keys -> Nat \cup {NoIndex}] /\ hwm' \in [Versions -> Nat]
      /\ IndexesAreDistinct'
      /\ \A l \in Keys : consumed[l] # NoIndex => consumed'[l] = consumed[l]
  BY <1>2, AuthorityAdvances
<1>4. /\ call' \in [Calls -> {Idle} \cup Active] /\ call'[c] = r
      /\ \A d \in Calls \ {c} : call'[d] = call[d]
  BY DEF IInv, Typed
<1>5. Typed'
  BY <1>3, <1>4 DEF IInv, Typed
<1>6. ASSUME NEW d \in Calls PROVE CallHolds(d)'
  <2>1. CASE d = c
    BY <1>1, <1>4, <2>1 DEF CallHolds, Idle
  <2>2. CASE d # c
    <3>1. call'[d] = call[d] /\ CallHolds(d)
      BY <1>4, <2>2 DEF IInv
    <3>2. CASE call[d].pc \in {"lookup", "derive", "persist", "conflict", "return"}
      <4>1. call[d] \in Active
        BY <3>2, ActiveCall DEF IInv
      <4>2. consumed[call[d].key] # NoIndex /\ call[d].key \in Keys
        BY <3>1, <3>2, <4>1 DEF CallHolds, Active, Indexes, NoIndex
      <4> QED BY <1>3, <3>1, <4>2 DEF CallHolds
    <3>3. CASE call[d].pc \notin {"lookup", "derive", "persist", "conflict", "return"}
      BY <3>1, <3>3 DEF CallHolds
    <3> QED BY <3>2, <3>3
  <2> QED BY <2>1, <2>2
<1>7. ASSUME NEW n \in DOMAIN payments' PROVE PaymentHolds(n)'
  <2>1. PaymentHolds(n) /\ payments[n] \in Rows
    BY <1>7, PaymentsDomain DEF IInv
  <2>2. payments[n].key \in Keys /\ consumed[payments[n].key] # NoIndex
    BY <2>1 DEF PaymentHolds, Rows, Indexes, NoIndex
  <2> QED BY <1>3, <2>1, <2>2 DEF PaymentHolds
<1>8. AllocationsHold' /\ PaymentsDiffer' /\ (\A x \in answers : AnswerHolds(x))'
  BY DEF IInv, AllocationsHold, PaymentsDiffer, AnswerHolds
<1> QED BY <1>3, <1>5, <1>6, <1>7, <1>8 DEF IInv

\* An index that recovery gives up has a free address.
LEMMA BurnKeeps ==
  ASSUME IInv, NEW v \in Versions, Burn(v)
  PROVE  IInv'
<1>1. PICK i \in 0 .. hwm[v] :
        /\ ValidIndex(i)
        /\ \A a \in allocations : a.address # AddressOf(v, i)
        /\ allocations' = allocations \cup
             {[version |-> v, index |-> i, address |-> AddressOf(v, i), payment |-> Burned]}
        /\ hwm' = [hwm EXCEPT ![v] = IF i = @ THEN i + 1 ELSE @]
  BY DEF Burn
<1>2. UNCHANGED <<wallet, consumed, payments, call, answers>>
  BY DEF Burn
<1> DEFINE new == [version |-> v, index |-> i, address |-> AddressOf(v, i), payment |-> Burned]
<1>3. i \in Indexes /\ AddressOf(v, i) \in Addresses
  BY <1>1, AddressTyped DEF ValidIndex, Indexes
<1>4. new \in Entries /\ new.payment = Burned /\ new.address = AddressOf(v, i)
  BY <1>3 DEF Entries, Burned
<1>5. allocations' = allocations \cup {new}
  BY <1>1
<1> HIDE DEF new
<1>6. hwm' \in [Versions -> Nat] /\ \A w \in Versions : hwm[w] <= hwm'[w]
  <2>1. hwm \in [Versions -> Nat] /\ i \in Nat
    BY <1>1 DEF IInv, Typed
  <2> QED BY <1>1, <2>1
<1>7. Typed'
  BY <1>2, <1>4, <1>5, <1>6 DEF IInv, Typed
<1>8. IndexesAreDistinct'
  <2>1. \A k \in Keys : consumed[k] < hwm[k[1]] /\ hwm[k[1]] <= hwm'[k[1]]
    BY <1>6, KeysHaveVersions DEF IInv, IndexesAreDistinct
  <2>2. \A k \in Keys : consumed[k] \in Int /\ hwm[k[1]] \in Int /\ hwm'[k[1]] \in Int
    BY <1>6, KeysHaveVersions DEF IInv, Typed, NoIndex
  <2>3. \A k \in Keys : consumed[k] < hwm'[k[1]]
    BY <2>1, <2>2
  <2> QED BY <1>2, <2>3 DEF IInv, IndexesAreDistinct
<1>9. (\A c \in Calls : CallHolds(c))' /\ PaymentsDiffer' /\ (\A x \in answers : AnswerHolds(x))'
  BY <1>2 DEF IInv, CallHolds, PaymentsDiffer, AnswerHolds
<1>10. (\A n \in DOMAIN payments : PaymentHolds(n))'
  BY <1>2, <1>5 DEF IInv, PaymentHolds
<1>11. AllocationsHold'
  BY <1>1, <1>2, <1>4, <1>5 DEF IInv, AllocationsHold
<1> QED BY <1>7, <1>8, <1>9, <1>10, <1>11 DEF IInv

\* The row PersistNew inserts, and what it changes.
NewPayment(c) ==
  [key |-> call[c].key, draft |-> call[c].draft, index |-> call[c].index,
   address |-> AddressOf(call[c].key[1], call[c].index)]

LEMMA Inserted ==
  ASSUME IInv, NEW c \in Calls, PersistNew(c)
  PROVE  /\ NewPayment(c) \in Rows
         /\ call[c] \in Active /\ CallHolds(c) /\ call[c].pc = "persist"
         /\ payments' = Append(payments, NewPayment(c))
         /\ DOMAIN payments' = DOMAIN payments \cup {Len(payments) + 1}
         /\ Len(payments) + 1 \in Nat /\ Len(payments) + 1 \notin DOMAIN payments
         /\ Len(payments) + 1 # Burned
         /\ \A n \in DOMAIN payments : payments'[n] = payments[n]
         /\ payments'[Len(payments) + 1] = NewPayment(c)
         /\ payments' \in Seq(Rows)
<1>1. call[c].pc = "persist" /\ call[c] \in Active /\ CallHolds(c)
  BY ActiveCall DEF PersistNew, IInv
<1>2. call[c].index \in Indexes /\ call[c].key \in Keys /\ call[c].draft \in Drafts
  BY <1>1 DEF CallHolds, Active
<1>3. AddressOf(call[c].key[1], call[c].index) \in Addresses
  BY <1>2, AddressTyped, KeysHaveVersions
<1>4. NewPayment(c) \in Rows
  BY <1>2, <1>3 DEF NewPayment, Rows
<1>5. payments' = Append(payments, NewPayment(c))
  BY DEF PersistNew, NewPayment
<1>6. payments \in Seq(Rows)
  BY DEF IInv, Typed
<1> QED BY <1>1, <1>4, <1>5, <1>6 DEF Burned

\* The new payment's address was free and its operation had no payment.
LEMMA PersistKeeps ==
  ASSUME IInv, NEW c \in Calls, PersistNew(c)
  PROVE  IInv'
<1> DEFINE id == Len(payments) + 1
           p == NewPayment(c)
           new == [version |-> p.key[1], index |-> p.index, address |-> p.address,
                   payment |-> id]
           r == [call[c] EXCEPT !.pc = "return", !.payment = id]
<1>1. /\ p \in Rows /\ call[c] \in Active /\ CallHolds(c) /\ call[c].pc = "persist"
      /\ DOMAIN payments' = DOMAIN payments \cup {id}
      /\ id \in Nat /\ id \notin DOMAIN payments /\ id # Burned
      /\ \A n \in DOMAIN payments : payments'[n] = payments[n]
      /\ payments'[id] = p /\ payments' \in Seq(Rows)
  BY Inserted
<1>2. /\ p.key = call[c].key /\ p.draft = call[c].draft /\ p.index = call[c].index
      /\ p.address = AddressOf(p.key[1], p.index)
  BY DEF NewPayment
<1>3. /\ allocations' = allocations \cup {new}
      /\ call' = [call EXCEPT ![c] = r]
      /\ UNCHANGED <<wallet, consumed, hwm, answers>>
      /\ AllocationsAt(p.key[1], p.index) = {}
      /\ \A a \in allocations : a.address # p.address
  BY <1>2 DEF PersistNew, AddressFree, authority
<1>4. /\ new \in Entries /\ new.version = p.key[1] /\ new.index = p.index
      /\ new.address = p.address /\ new.payment = id
  BY <1>1, KeysHaveVersions DEF Entries, Rows
<1>5. /\ r \in Active /\ r.pc = "return" /\ r.payment = id /\ r.index = p.index
      /\ r.key = p.key /\ r.draft = p.draft
  BY <1>1, <1>2 DEF Active
<1>6. p.index \in Indexes /\ p.index = consumed[p.key]
  BY <1>1, <1>2 DEF CallHolds
<1> HIDE DEF id, p, new, r
<1>7. Typed'
  BY <1>1, <1>3, <1>4, <1>5 DEF IInv, Typed
<1>8. IndexesAreDistinct'
  BY <1>3 DEF IInv, IndexesAreDistinct
<1>9. ASSUME NEW d \in Calls PROVE CallHolds(d)'
  <2>1. CASE d = c
    <3>1. call'[d] = r
      BY <1>3, <2>1 DEF IInv, Typed
    <3> QED BY <1>1, <1>3, <1>5, <1>6, <3>1 DEF CallHolds
  <2>2. CASE d # c
    <3>1. call'[d] = call[d] /\ CallHolds(d)
      BY <1>3, <2>2 DEF IInv, Typed
    <3> QED BY <1>1, <1>3, <3>1 DEF CallHolds
  <2> QED BY <2>1, <2>2
<1>10. ASSUME NEW n \in DOMAIN payments' PROVE PaymentHolds(n)'
  <2>1. CASE n \in DOMAIN payments
    <3>1. PaymentHolds(n) /\ payments'[n] = payments[n]
      BY <1>1, <2>1 DEF IInv
    <3> QED BY <1>3, <3>1 DEF PaymentHolds
  <2>2. CASE n = id
    <3>1. payments'[n] = p /\ new \in allocations'
      BY <1>1, <1>3, <2>2
    <3> QED BY <1>2, <1>3, <1>4, <1>6, <2>2, <3>1 DEF PaymentHolds
  <2> QED BY <1>1, <2>1, <2>2
<1>11. AllocationsHold'
  <2>1. \A a \in allocations : a.payment # Burned =>
          /\ a.payment \in DOMAIN payments
          /\ payments[a.payment].key[1] = a.version
          /\ payments[a.payment].index = a.index
    BY DEF IInv, AllocationsHold
  <2>2. \A a, b \in allocations : a.address = b.address => a = b
    BY DEF IInv, AllocationsHold
  <2>3. \A a \in allocations' : a.payment # Burned =>
          /\ a.payment \in DOMAIN payments'
          /\ payments'[a.payment].key[1] = a.version
          /\ payments'[a.payment].index = a.index
    BY <1>1, <1>3, <1>4, <2>1
  <2>4. \A a, b \in allocations' : a.address = b.address => a = b
    BY <1>3, <1>4, <2>2
  <2> QED BY <2>3, <2>4 DEF AllocationsHold
<1>12. PaymentsDiffer'
  <2>1. ASSUME NEW n \in DOMAIN payments
        PROVE  payments[n].key # p.key /\ payments[n].address # p.address
    <3>1. PaymentHolds(n)
      BY DEF IInv
    <3>2. PICK a \in allocations : /\ a.version = payments[n].key[1]
                                   /\ a.index = payments[n].index
                                   /\ a.address = payments[n].address
      BY <3>1 DEF PaymentHolds
    <3>3. payments[n].address # p.address
      BY <1>3, <3>2
    <3>4. payments[n].key # p.key
      <4> SUFFICES ASSUME payments[n].key = p.key PROVE FALSE
        OBVIOUS
      <4>1. payments[n].index = p.index
        BY <1>6, <3>1 DEF PaymentHolds
      <4> QED BY <1>3, <3>2, <4>1 DEF AllocationsAt
    <3> QED BY <3>3, <3>4
  <2>2. \A n, m \in DOMAIN payments : n # m =>
          payments[n].key # payments[m].key /\ payments[n].address # payments[m].address
    BY DEF IInv, PaymentsDiffer
  <2> QED BY <1>1, <2>1, <2>2 DEF PaymentsDiffer
<1>13. (\A x \in answers : AnswerHolds(x))'
  BY <1>1, <1>3 DEF IInv, AnswerHolds
<1> QED BY <1>7, <1>8, <1>9, <1>10, <1>11, <1>12, <1>13 DEF IInv

\* What Return answers is the booking of the call's payment.
Result(c) ==
  [key |-> call[c].key, draft |-> call[c].draft, index |-> call[c].index,
   address |-> payments[call[c].payment].address, payment |-> call[c].payment]

LEMMA ReturnIsBooked ==
  ASSUME IInv, NEW c \in Calls, Return(c)
  PROVE  AnswerHolds(Result(c)) /\ Result(c) \in Results
<1>1. call[c].pc = "return" /\ call[c] \in Active /\ CallHolds(c)
  BY ActiveCall DEF Return, IInv
<1>2. /\ call[c].payment \in DOMAIN payments
      /\ payments[call[c].payment].key = call[c].key
      /\ payments[call[c].payment].draft = call[c].draft
      /\ call[c].index \in Indexes /\ call[c].index = consumed[call[c].key]
  BY <1>1 DEF CallHolds
<1>3. PaymentHolds(call[c].payment) /\ payments[call[c].payment] \in Rows
  BY <1>2, PaymentsDomain DEF IInv
<1>4. AnswerHolds(Result(c))
  BY <1>2, <1>3 DEF AnswerHolds, Result, PaymentHolds
<1>5. call[c].payment \in Nat
  BY <1>1 DEF Active
<1> QED BY <1>2, <1>3, <1>4, <1>5 DEF Result, Results, Rows

LEMMA ReturnKeeps ==
  ASSUME IInv, NEW c \in Calls, Return(c)
  PROVE  IInv'
<1>1. AnswerHolds(Result(c)) /\ Result(c) \in Results
  BY ReturnIsBooked
<1>2. /\ answers' = answers \cup {Result(c)}
      /\ call' = [call EXCEPT ![c] = Idle]
      /\ UNCHANGED <<wallet, consumed, hwm, allocations, payments>>
  BY DEF Return, Result, End, authority, database
<1> DEFINE x == Result(c)
<1> HIDE DEF x
<1>3. /\ call' \in [Calls -> {Idle} \cup Active] /\ call'[c] = Idle
      /\ \A d \in Calls \ {c} : call'[d] = call[d]
  BY <1>2 DEF IInv, Typed
<1>4. Typed'
  BY <1>1, <1>2, <1>3 DEF IInv, Typed
<1>5. IndexesAreDistinct' /\ AllocationsHold' /\ PaymentsDiffer'
  BY <1>2 DEF IInv, IndexesAreDistinct, AllocationsHold, PaymentsDiffer
<1>6. ASSUME NEW d \in Calls PROVE CallHolds(d)'
  BY <1>2, <1>3 DEF IInv, CallHolds, Idle
<1>7. (\A n \in DOMAIN payments : PaymentHolds(n))'
  BY <1>2 DEF IInv, PaymentHolds
<1>8. (\A y \in answers : AnswerHolds(y))'
  <2>1. \A y \in answers' : AnswerHolds(y)
    BY <1>1, <1>2 DEF IInv
  <2> QED BY <1>2, <2>1 DEF AnswerHolds
<1> QED BY <1>4, <1>5, <1>6, <1>7, <1>8 DEF IInv

LEMMA StartKeeps ==
  ASSUME IInv, NEW c \in Calls, Start(c)
  PROVE  IInv'
<1>1. PICK k \in Keys, draft \in Drafts :
        call' = [call EXCEPT ![c] =
          [pc |-> "consume", key |-> k, draft |-> draft, index |-> NoIndex,
           payment |-> Burned]]
  BY DEF Start
<1> DEFINE r == [pc |-> "consume", key |-> k, draft |-> draft, index |-> NoIndex,
                 payment |-> Burned]
<1>2. r \in Active /\ r.pc = "consume" /\ r.payment = Burned
  BY DEF Active, Burned
<1>3. call' = [call EXCEPT ![c] = r] /\ UNCHANGED <<wallet, authority, database, answers>>
  BY <1>1 DEF Start
<1> HIDE DEF r
<1> QED BY <1>2, <1>3, OneCallMoves

LEMMA CallStepKeeps ==
  ASSUME IInv, NEW c \in Calls, CallStep(c)
  PROVE  IInv'
<1>1. CASE Start(c)
  BY <1>1, StartKeeps
<1>2. CASE Consume(c)
  <2>1. call[c].pc = "consume" /\ call[c] \in Active
    BY <1>2, ActiveCall DEF Consume, IInv
  <2> DEFINE i == consumed'[call[c].key]
             r == [call[c] EXCEPT !.pc = "lookup", !.index = i]
  <2>2. CASE ValidIndex(i)
    <3>1. i \in Indexes
      BY <2>2 DEF ValidIndex, Indexes
    <3>2. /\ r \in Active /\ r.pc = "lookup" /\ r.key = call[c].key
          /\ r.payment = call[c].payment /\ r.index = i
      BY <2>1, <3>1 DEF Active
    <3>3. call' = [call EXCEPT ![c] = r]
      BY <1>2, <2>2 DEF Consume
    <3>4. TakeIndex(call[c].key) /\ UNCHANGED <<wallet, database, answers>>
      BY <1>2 DEF Consume
    <3> HIDE DEF r
    <3> QED BY <2>1, <3>1, <3>2, <3>3, <3>4, ConsumeKeeps
  <2>3. CASE ~ ValidIndex(i)
    BY <1>2, <2>1, <2>3, ConsumeKeeps DEF Consume, End
  <2> QED BY <2>2, <2>3
<1>3. CASE ConsumeUnheard(c)
  BY <1>3, ConsumeKeeps DEF ConsumeUnheard, End
<1>4. CASE ConsumeFails(c)
  BY <1>4, CallEnds DEF ConsumeFails
<1>5. CASE Lookup(c)
  BY <1>5, AdoptKeeps, CallGoesOn DEF Lookup
<1>6. CASE Derive(c)
  BY <1>6, CallGoesOn DEF Derive
<1>7. CASE PersistRefused(c)
  BY <1>7, CallEnds DEF PersistRefused
<1>8. CASE PersistFound(c)
  BY <1>8, AdoptKeeps DEF PersistFound
<1>9. CASE PersistNew(c)
  BY <1>9, PersistKeeps
<1>10. CASE PersistConflicts(c)
  BY <1>10, CallGoesOn DEF PersistConflicts
<1>11. CASE Reread(c)
  BY <1>11, AdoptKeeps, CallEnds DEF Reread
<1>12. CASE Return(c)
  BY <1>12, ReturnKeeps
<1>13. CASE Fail(c)
  BY <1>13, CallEnds DEF Fail
<1> QED BY <1>1, <1>2, <1>3, <1>4, <1>5, <1>6, <1>7, <1>8, <1>9, <1>10,
           <1>11, <1>12, <1>13 DEF CallStep

LEMMA WalletKeeps ==
  ASSUME IInv, NEW v \in Versions, Retire(v) \/ ChangeRecovery(v)
  PROVE  IInv'
<1>1. wallet \in [Versions -> [lifecycle : {"ACTIVE", "RETIRED"},
                               recovery : {"READY", "RECOVERY_REQUIRED"}]]
  BY DEF IInv, Typed
<1>2. CASE Retire(v)
  BY <1>1, <1>2, WalletMoves DEF Retire
<1>3. CASE ChangeRecovery(v)
  <2>1. PICK state \in {"READY", "RECOVERY_REQUIRED"} :
          wallet' = [wallet EXCEPT ![v].recovery = state]
    BY <1>3 DEF ChangeRecovery
  <2>2. UNCHANGED <<authority, database, call, answers>>
    BY <1>3 DEF ChangeRecovery
  <2> QED BY <1>1, <2>1, <2>2, WalletMoves
<1> QED BY <1>2, <1>3

LEMMA InitHolds == Init => IInv
<1> SUFFICES ASSUME Init PROVE IInv
  OBVIOUS
<1>1. Typed
  BY DEF Init, Typed, NoIndex, Idle
<1>2. IndexesAreDistinct
  BY KeysHaveVersions DEF Init, IndexesAreDistinct, NoIndex
<1>3. \A c \in Calls : CallHolds(c)
  BY DEF Init, CallHolds, Idle
<1>4. DOMAIN payments = {} /\ allocations = {} /\ answers = {}
  BY DEF Init
<1> QED BY <1>1, <1>2, <1>3, <1>4 DEF IInv, AllocationsHold, PaymentsDiffer

LEMMA StepHolds == IInv /\ [Next]_vars => IInv'
<1> SUFFICES ASSUME IInv, [Next]_vars PROVE IInv'
  OBVIOUS
<1>1. CASE UNCHANGED vars
  <2>1. Typed'
    BY <1>1 DEF vars, IInv, Typed
  <2>2. IndexesAreDistinct' /\ AllocationsHold' /\ PaymentsDiffer'
    BY <1>1 DEF vars, IInv, IndexesAreDistinct, AllocationsHold, PaymentsDiffer
  <2>3. (\A c \in Calls : CallHolds(c))'
    BY <1>1 DEF vars, IInv, CallHolds
  <2>4. (\A n \in DOMAIN payments : PaymentHolds(n))' /\ (\A x \in answers : AnswerHolds(x))'
    BY <1>1 DEF vars, IInv, PaymentHolds, AnswerHolds
  <2> QED BY <2>1, <2>2, <2>3, <2>4 DEF IInv
<1>2. CASE \E v \in Versions : Retire(v) \/ ChangeRecovery(v) \/ Burn(v)
  BY <1>2, WalletKeeps, BurnKeeps
<1>3. CASE \E c \in Calls : CallStep(c)
  BY <1>3, CallStepKeeps
<1> QED BY <1>1, <1>2, <1>3 DEF Next

LEMMA Invariance == Spec => []IInv
BY InitHolds, StepHolds, PTL DEF Spec

-----------------------------------------------------------------------------
(* Theorems *)

\* Every stored value is of its type and every index within the table's range:
\* whatever addressAllocation.ts stores can be stored.
THEOREM TypeCorrect == Spec => []TypeOK
<1>1. IInv => TypeOK
  <2> SUFFICES ASSUME IInv PROVE TypeOK
    OBVIOUS
  <2>1. \A a \in allocations : /\ a.version \in Versions /\ ValidIndex(a.index)
                               /\ a.payment \in {Burned} \cup DOMAIN payments
    BY DEF IInv, Typed, Entries, AllocationsHold, ValidIndex, Indexes
  <2>2. ASSUME NEW c \in Calls PROVE call[c] \in CallStates
    <3>1. CASE call[c] = Idle
      BY <3>1 DEF CallStates
    <3>2. CASE call[c] \in Active
      <4>1. call[c].pc # "idle" /\ CallHolds(c)
        BY <3>2 DEF Active, IInv
      <4>2. call[c].payment \in {Burned} \cup DOMAIN payments
        BY <4>1 DEF CallHolds
      <4> QED BY <3>2, <4>2 DEF Active, CallStates, Indexes
    <3> QED BY <3>1, <3>2 DEF IInv, Typed
  <2> QED BY <2>1, <2>2 DEF TypeOK, IInv, Typed
<1> QED BY <1>1, Invariance, PTL

\* The unique indexes and the idempotent authority suffice: however calls
\* overlap, fail and are tried again, an operation has one address and one
\* payment, and an address one operation.
THEOREM OneAddressForOneOperation == Spec => []OneOperationOneAddress
<1>1. IInv => OneOperationOneAddress
  BY DEF IInv, OneOperationOneAddress, AnswerHolds, PaymentsDiffer
<1> QED BY <1>1, Invariance, PTL

\* An index that recovery gives up was never a payer's.
THEOREM BurnedBelongsToNobody == Spec => []BurnedIsNobodys
<1>1. IInv => BurnedIsNobodys
  <2> SUFFICES ASSUME IInv, NEW a \in allocations, a.payment = Burned,
                      NEW n \in DOMAIN payments, payments[n].address = a.address
               PROVE  FALSE
    BY DEF BurnedIsNobodys
  <2>1. PICK b \in allocations : b.payment = n /\ b.address = payments[n].address
    BY DEF IInv, PaymentHolds
  <2>2. a = b
    BY <2>1 DEF IInv, AllocationsHold
  <2> QED BY <2>1, <2>2, PaymentsDomain DEF IInv
<1> QED BY <1>1, Invariance, PTL

\* No other step creates a payment.
LEMMA OnlyPersistPays ==
  ASSUME Next
  PROVE  (\E c \in Calls : PersistNew(c)) \/ UNCHANGED payments
<1>1. ASSUME NEW c \in Calls, CallStep(c), ~ PersistNew(c) PROVE UNCHANGED payments
  BY <1>1 DEF CallStep, Start, Consume, ConsumeUnheard, ConsumeFails, Lookup,
    Derive, PersistRefused, PersistFound, PersistConflicts, Reread, Return, Fail,
    database
<1>2. ASSUME NEW v \in Versions, Retire(v) \/ ChangeRecovery(v) \/ Burn(v)
      PROVE  UNCHANGED payments
  BY <1>2 DEF Retire, ChangeRecovery, Burn, database
<1> QED BY <1>1, <1>2 DEF Next

\* EligibleUnderLock is Eligible read again under the version's lock: what was
\* read before, however long ago, admits no payment.
THEOREM WithdrawnStaysClosed == Spec => WithdrawnTakesNoMore
<1> DEFINE Closed(v) == wallet[v].lifecycle # "ACTIVE" \/ wallet[v].recovery # "READY"
           Step == \A v \in Versions : Closed(v) =>
                     \A n \in DOMAIN payments' \ DOMAIN payments : payments'[n].key[1] # v
<1>1. IInv /\ [Next]_vars => [Step]_vars
  <2> SUFFICES ASSUME IInv, Next PROVE Step
    OBVIOUS
  <2>1. CASE \E c \in Calls : PersistNew(c)
    <3>1. PICK c \in Calls : PersistNew(c)
      BY <2>1
    <3>2. Eligible(call[c].key[1], call[c].draft)
      BY <3>1 DEF PersistNew, EligibleUnderLock
    <3>3. /\ DOMAIN payments' = DOMAIN payments \cup {Len(payments) + 1}
          /\ payments'[Len(payments) + 1] = NewPayment(c)
      BY <3>1, Inserted
    <3>4. NewPayment(c).key = call[c].key
      BY DEF NewPayment
    <3> QED BY <3>2, <3>3, <3>4 DEF Eligible
  <2>2. CASE UNCHANGED payments
    BY <2>2
  <2> QED BY <2>1, <2>2, OnlyPersistPays
<1> QED BY <1>1, Invariance, PTL DEF Spec, WithdrawnTakesNoMore

-----------------------------------------------------------------------------
(* Refinement *)

Booking(n) ==
  [key |-> payments[n].key, draft |-> payments[n].draft,
   index |-> payments[n].index, address |-> payments[n].address, payment |-> n]

LEMMA BookedByNumber == Booked = {Booking(n) : n \in DOMAIN payments}
BY DEF Booked, Booking

\* The authority's step consumes an index, or gives the one it gave before.
LEMMA TakeIndexMaps ==
  ASSUME IInv, NEW k \in Keys, TakeIndex(k), UNCHANGED <<payments, answers>>
  PROVE  [Ledger!Next]_Ledger!vars
<1>1. UNCHANGED <<Booked, answers>>
  BY DEF Booked
<1>2. CASE consumed[k] = NoIndex
  <2>1. consumed' = [consumed EXCEPT ![k] = consumed'[k]]
    BY DEF TakeIndex, IInv, Typed
  <2>2. /\ consumed'[k] \in Nat
        /\ \A l \in Keys : l[1] = k[1] /\ l # k => consumed[l] # consumed'[k]
    BY <1>2, AuthorityAdvances
  <2>3. Ledger!Consume(k)
    BY <1>1, <1>2, <2>1, <2>2 DEF Ledger!Consume, Ledger!NoIndex, NoIndex
  <2> QED BY <2>3 DEF Ledger!Next
<1>3. CASE consumed[k] # NoIndex
  <2>1. consumed' = consumed
    BY <1>3 DEF TakeIndex, IInv, Typed
  <2> QED BY <1>1, <2>1 DEF Ledger!vars
<1> QED BY <1>2, <1>3

\* The new payment is a booking at the operation's own index, unlike any other.
LEMMA PersistNewMaps ==
  ASSUME IInv, NEW c \in Calls, PersistNew(c)
  PROVE  [Ledger!Next]_Ledger!vars
<1> DEFINE id == Len(payments) + 1
           p == NewPayment(c)
           b == [key |-> p.key, draft |-> p.draft, index |-> p.index,
                 address |-> p.address, payment |-> id]
<1>1. /\ p \in Rows /\ CallHolds(c) /\ call[c].pc = "persist"
      /\ p.key = call[c].key /\ p.index = call[c].index
      /\ DOMAIN payments' = DOMAIN payments \cup {id} /\ id \notin DOMAIN payments
      /\ \A n \in DOMAIN payments : payments'[n] = payments[n]
      /\ payments'[id] = p
  BY Inserted DEF NewPayment
<1>2. UNCHANGED <<consumed, answers>>
  BY DEF PersistNew, authority
<1>3. PaymentsDiffer'
  BY PersistKeeps DEF IInv
<1>4. p.key \in Keys /\ p.draft \in Drafts /\ p.index \in Indexes
      /\ p.index = consumed[p.key]
  BY <1>1 DEF Rows, CallHolds
<1> HIDE DEF id, p
<1>5. Booked' = Booked \cup {b}
  BY <1>1 DEF Booked
<1>6. \A other \in Booked : /\ other.key # b.key
                            /\ other.address # b.address
                            /\ other.payment # b.payment
  BY <1>1, <1>3 DEF Booked, PaymentsDiffer
<1>7. Ledger!Book(b)
  BY <1>2, <1>4, <1>5, <1>6 DEF Ledger!Book, Ledger!NoIndex, Indexes
<1>8. b \in Booked' \ Booked
  BY <1>5, <1>6
<1> QED BY <1>7, <1>8 DEF Ledger!Next

LEMMA ReturnMaps ==
  ASSUME IInv, NEW c \in Calls, Return(c)
  PROVE  [Ledger!Next]_Ledger!vars
<1>1. /\ answers' = answers \cup {Result(c)}
      /\ UNCHANGED <<consumed, payments>>
  BY DEF Return, Result, authority, database
<1>2. AnswerHolds(Result(c))
  BY ReturnIsBooked
<1>3. Result(c) = Booking(call[c].payment)
  BY <1>2 DEF AnswerHolds, Result, Booking
<1>4. Result(c) \in Booked
  BY <1>2, <1>3, BookedByNumber DEF AnswerHolds, Result
<1>5. UNCHANGED Booked
  BY <1>1 DEF Booked
<1> QED BY <1>1, <1>4, <1>5 DEF Ledger!Next, Ledger!Answer

LEMMA StepMaps == IInv /\ [Next]_vars => [Ledger!Next]_Ledger!vars
<1> SUFFICES ASSUME IInv, [Next]_vars PROVE [Ledger!Next]_Ledger!vars
  OBVIOUS
<1>1. CASE UNCHANGED <<consumed, payments, answers>>
  BY <1>1 DEF Ledger!vars, Booked
<1>2. ASSUME NEW c \in Calls, Consume(c) \/ ConsumeUnheard(c)
      PROVE  [Ledger!Next]_Ledger!vars
  <2>1. call[c].pc = "consume" /\ TakeIndex(call[c].key) /\ UNCHANGED <<payments, answers>>
    BY <1>2 DEF Consume, ConsumeUnheard, database
  <2>2. call[c].key \in Keys
    BY <2>1, ActiveCall DEF IInv, Active
  <2> QED BY <2>1, <2>2, TakeIndexMaps
<1>3. ASSUME NEW c \in Calls, CallStep(c) PROVE [Ledger!Next]_Ledger!vars
  <2>1. CASE PersistNew(c)
    BY <2>1, PersistNewMaps
  <2>2. CASE Return(c)
    BY <2>2, ReturnMaps
  <2> QED BY <1>1, <1>2, <1>3, <2>1, <2>2 DEF CallStep, Start, ConsumeFails, Lookup,
        Derive, PersistRefused, PersistFound, PersistConflicts, Reread, Fail,
        authority, database
<1>4. CASE \E v \in Versions : Retire(v) \/ ChangeRecovery(v) \/ Burn(v)
  BY <1>1, <1>4 DEF Retire, ChangeRecovery, Burn, authority, database
<1> QED BY <1>1, <1>3, <1>4 DEF Next, vars

LEMMA InitMaps == Init => Ledger!Init
BY DEF Init, Ledger!Init, Booked, NoIndex, Ledger!NoIndex

\* Every run of the service is one of AllocationLedger: the indexes consumed and
\* never used, the payments whose answer was lost and the calls that met a
\* conflict are stutters of it or bookings that a later call is given.
THEOREM AllocationIsALedger == Spec => Implements
BY InitMaps, StepMaps, Invariance, PTL DEF Spec, Implements, Ledger!Spec

=============================================================================
