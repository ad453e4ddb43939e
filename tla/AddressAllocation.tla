------------------------- MODULE AddressAllocation -------------------------
(***************************************************************************)
(* allocateReceivingAddress: a payment and its address for a wallet        *)
(* version, at an index an external authority, the durable high-water      *)
(* mark, has consumed for the operation.                                   *)
(*                                                                         *)
(* A call reads the wallet without a lock, has an index consumed, looks    *)
(* for an allocation at that index, derives the address, and then runs one *)
(* transaction that locks the version, reads everything again and creates  *)
(* the payment and its allocation. Each of these may fail or be cut off by *)
(* a crash, and the caller then calls again for the same operation. The    *)
(* transaction is one step: it holds the advisory lock of its version and  *)
(* both of its rows, and unique indexes decide between versions.           *)
(*                                                                         *)
(* The high-water mark, the recovery that burns indexes and changes a      *)
(* wallet's state, and the callers are not in the repository: the first is *)
(* modelled from the contract of DurableHwmStore, the others by what the   *)
(* tables and this service expect of them. A descriptor never changes, so  *)
(* its checksum is not modelled. A call that is refused before it asks for *)
(* an index, and a transaction that is run again after a serialization     *)
(* failure, have changed nothing and are no steps.                         *)
(***************************************************************************)
EXTENDS Integers, Sequences

CONSTANTS
  Versions, Calls,
  Keys,         \* the operations asked for, each with its wallet version
  Drafts,       \* payment intents: network, amount, for what is compared
  KeyOf,        \* the account key of each version's descriptor
  NetworkOf,    \* the network of each version
  IndexLimit    \* BIP84_EXTERNAL_INDEX_LIMIT, 2^31

ASSUME ConstantsAssumption ==
  /\ IndexLimit \in Nat \ {0}
  /\ \A k \in Keys : k = <<k[1], k[2]>> /\ k[1] \in Versions

VARIABLES
  wallet,       \* lifecycle and recovery state of each version
  consumed,     \* the authority: the index of each key, for ever
  hwm,          \* the authority: the next index of each version
  allocations,  \* table wallet_address_allocations
  payments,     \* table payments, in the order of creation
  call,         \* the calls under way
  answers       \* what was returned to callers

vars == <<wallet, consumed, hwm, allocations, payments, call, answers>>
database == <<allocations, payments>>
authority == <<consumed, hwm>>

NoIndex == -1
Burned == 0     \* an allocation without a payment

Idle == [pc |-> "idle"]

\* The address every wallet with this key derives at the index.
AddressOf(v, i) == <<KeyOf[v], i>>

\* lifecycle, recovery state and network, as read now.
Eligible(v, draft) ==
  /\ wallet[v].lifecycle = "ACTIVE"
  /\ wallet[v].recovery = "READY"
  /\ NetworkOf[v] = draft.network

\* isValidExternalIndex
ValidIndex(i) == i \in 0 .. IndexLimit - 1

AllocationsAt(v, i) == {a \in allocations : a.version = v /\ a.index = i}

Init ==
  /\ wallet = [v \in Versions |-> [lifecycle |-> "ACTIVE", recovery |-> "READY"]]
  /\ consumed = [k \in Keys |-> NoIndex]
  /\ hwm = [v \in Versions |-> 0]
  /\ allocations = {}
  /\ payments = << >>
  /\ call = [c \in Calls |-> Idle]
  /\ answers = {}

-----------------------------------------------------------------------------
(* The wallet's own life *)

Retire(v) ==
  /\ wallet[v].lifecycle = "ACTIVE"
  /\ wallet' = [wallet EXCEPT ![v].lifecycle = "RETIRED"]
  /\ UNCHANGED <<authority, database, call, answers>>

ChangeRecovery(v) ==
  /\ \E state \in {"READY", "RECOVERY_REQUIRED"} \ {wallet[v].recovery} :
       wallet' = [wallet EXCEPT ![v].recovery = state]
  /\ UNCHANGED <<authority, database, call, answers>>

\* Recovery gives up an index, consumed without a payment or beyond the mark;
\* every unique index holds for its row too.
Burn(v) ==
  /\ wallet[v].recovery # "READY"
  /\ \E i \in 0 .. hwm[v] :
       /\ ValidIndex(i)
       /\ \A a \in allocations : /\ ~ (a.version = v /\ a.index = i)
                                 /\ a.address # AddressOf(v, i)
       /\ allocations' = allocations \cup
            {[version |-> v, index |-> i, address |-> AddressOf(v, i),
              payment |-> Burned]}
       /\ hwm' = [hwm EXCEPT ![v] = IF i = @ THEN i + 1 ELSE @]
  /\ UNCHANGED <<wallet, consumed, payments, call, answers>>

-----------------------------------------------------------------------------
(* A call *)

End(c) == call' = [call EXCEPT ![c] = Idle]

GoTo(c, pc) == call' = [call EXCEPT ![c].pc = pc]

\* validateInput: the other fields are never empty here.
ValidInput(draft) == draft.amount > 0

\* The unlocked read, for a new operation or one that is tried again.
Start(c) ==
  /\ call[c].pc = "idle"
  /\ \E k \in Keys, draft \in Drafts :
       /\ ValidInput(draft)
       /\ Eligible(k[1], draft)
       /\ call' = [call EXCEPT ![c] =
            [pc |-> "consume", key |-> k, draft |-> draft, index |-> NoIndex,
             payment |-> Burned]]
  /\ UNCHANGED <<wallet, authority, database, answers>>

\* The authority's side of consumeNext: idempotent by operation, distinct and
\* increasing otherwise.
TakeIndex(k) ==
  /\ consumed' = [consumed EXCEPT ![k] = IF @ = NoIndex THEN hwm[k[1]] ELSE @]
  /\ hwm' = [hwm EXCEPT ![k[1]] = IF consumed[k] = NoIndex THEN @ + 1 ELSE @]

\* Mutant: the index is not validated.
ConsumeAny(c) ==
  /\ call[c].pc = "consume"
  /\ TakeIndex(call[c].key)
  /\ call' = [call EXCEPT ![c].pc = "lookup", ![c].index = consumed'[call[c].key]]
  /\ UNCHANGED <<wallet, database, answers>>

\* Consumed, and the index is one that can be derived and stored.
Consume(c) ==
  /\ call[c].pc = "consume"
  /\ TakeIndex(call[c].key)
  /\ LET i == consumed'[call[c].key]
     IN IF ValidIndex(i)
        THEN call' = [call EXCEPT ![c].pc = "lookup", ![c].index = i]
        ELSE End(c)
  /\ UNCHANGED <<wallet, database, answers>>

\* AMBIGUOUS where it did happen.
ConsumeUnheard(c) ==
  /\ call[c].pc = "consume"
  /\ TakeIndex(call[c].key)
  /\ End(c)
  /\ UNCHANGED <<wallet, database, answers>>

\* Mutant: an index from the ledger, MAX + 1, when the authority does not answer.
ConsumeFromLedger(c) ==
  /\ call[c].pc = "consume"
  /\ \E i \in 0 .. IndexLimit - 1 :
       /\ \A a \in allocations : a.version = call[c].key[1] => a.index < i
       /\ i = 0 \/ AllocationsAt(call[c].key[1], i - 1) # {}
       /\ call' = [call EXCEPT ![c].pc = "lookup", ![c].index = i]
  /\ UNCHANGED <<wallet, authority, database, answers>>

\* ADAPTER_MISSING, UNAVAILABLE, or AMBIGUOUS where it did not happen.
ConsumeFails(c) ==
  /\ call[c].pc = "consume"
  /\ End(c)
  /\ UNCHANGED <<wallet, authority, database, answers>>

\* Mutant: whoever asks is given the payment.
MatchesAny(c, a) == a.payment # Burned

\* resolveExistingAllocation: not burned, and for the same intent.
Matches(c, a) ==
  /\ a.payment # Burned
  /\ payments[a.payment].draft = call[c].draft

\* Returns the payment of an allocation that is there, or refuses.
Adopt(c, a) ==
  \/ /\ Matches(c, a)
     /\ call' = [call EXCEPT ![c].pc = "return", ![c].payment = a.payment]
  \/ /\ ~ Matches(c, a)
     /\ End(c)

\* The allocation at the consumed index, if an earlier call stored one.
Lookup(c) ==
  LET found == AllocationsAt(call[c].key[1], call[c].index)
  IN /\ call[c].pc = "lookup"
     /\ \/ found = {} /\ GoTo(c, "derive")
        \/ \E a \in found : Adopt(c, a)
     /\ UNCHANGED <<wallet, authority, database, answers>>

\* deriveAddressAtIndex succeeds; the address is AddressOf the index.
Derive(c) ==
  /\ call[c].pc = "derive"
  /\ GoTo(c, "persist")
  /\ UNCHANGED <<wallet, authority, database, answers>>

\* The transaction may not go on: the wallet has changed since it was read.
PersistRefused(c) ==
  /\ call[c].pc = "persist"
  /\ ~ Eligible(call[c].key[1], call[c].draft)
  /\ End(c)
  /\ UNCHANGED <<wallet, authority, database, answers>>

\* Mutant: the unlocked read at the start is taken as good.
EligibleOnceRead(v, draft) == NetworkOf[v] = draft.network

EligibleUnderLock(v, draft) == Eligible(v, draft)

\* Another call stored the allocation meanwhile.
PersistFound(c) ==
  /\ call[c].pc = "persist"
  /\ EligibleUnderLock(call[c].key[1], call[c].draft)
  /\ \E a \in AllocationsAt(call[c].key[1], call[c].index) : Adopt(c, a)
  /\ UNCHANGED <<wallet, authority, database, answers>>

\* Mutant: addresses are not unique over the table.
AnyAddress(address) == TRUE

AddressFree(address) == \A a \in allocations : a.address # address

\* Payment and allocation are committed together.
PersistNew(c) ==
  LET v == call[c].key[1]
      i == call[c].index
      id == Len(payments) + 1
  IN /\ call[c].pc = "persist"
     /\ EligibleUnderLock(v, call[c].draft)
     /\ AllocationsAt(v, i) = {}
     /\ AddressFree(AddressOf(v, i))
     /\ payments' = Append(payments,
          [key |-> call[c].key, draft |-> call[c].draft, index |-> i,
           address |-> AddressOf(v, i)])
     /\ allocations' = allocations \cup
          {[version |-> v, index |-> i, address |-> AddressOf(v, i),
            payment |-> id]}
     /\ call' = [call EXCEPT ![c].pc = "return", ![c].payment = id]
     /\ UNCHANGED <<wallet, authority, answers>>

\* A unique index refused the transaction: what is at the index now?
PersistConflicts(c) ==
  LET v == call[c].key[1]
      i == call[c].index
  IN /\ call[c].pc = "persist"
     /\ EligibleUnderLock(v, call[c].draft)
     /\ AllocationsAt(v, i) = {}
     /\ ~ AddressFree(AddressOf(v, i))
     /\ GoTo(c, "conflict")
     /\ UNCHANGED <<wallet, authority, database, answers>>

Reread(c) ==
  LET winner == AllocationsAt(call[c].key[1], call[c].index)
  IN /\ call[c].pc = "conflict"
     /\ \/ winner = {} /\ End(c)
        \/ \E a \in winner : Adopt(c, a)
     /\ UNCHANGED <<wallet, authority, database, answers>>

Return(c) ==
  /\ call[c].pc = "return"
  /\ LET p == payments[call[c].payment]
     IN answers' = answers \cup
          {[key |-> call[c].key, draft |-> call[c].draft, index |-> call[c].index,
            address |-> p.address, payment |-> call[c].payment]}
  /\ End(c)
  /\ UNCHANGED <<wallet, authority, database>>

\* Any other failure: the derivation, a query, the last of MAX_RETRIES attempts,
\* the answer to the commit, or the process. Nothing is undone.
Fail(c) ==
  /\ call[c].pc # "idle"
  /\ End(c)
  /\ UNCHANGED <<wallet, authority, database, answers>>

CallStep(c) ==
  \/ Start(c) \/ Consume(c) \/ ConsumeUnheard(c) \/ ConsumeFails(c)
  \/ Lookup(c) \/ Derive(c)
  \/ PersistRefused(c) \/ PersistFound(c) \/ PersistNew(c)
  \/ PersistConflicts(c) \/ Reread(c)
  \/ Return(c) \/ Fail(c)

Next ==
  \/ \E v \in Versions : Retire(v) \/ ChangeRecovery(v) \/ Burn(v)
  \/ \E c \in Calls : CallStep(c)

Spec == Init /\ [][Next]_vars

-----------------------------------------------------------------------------
(* Properties *)

CallStates ==
  {Idle} \cup
  [pc : {"consume", "lookup", "derive", "persist", "conflict", "return"},
   key : Keys, draft : Drafts, index : {NoIndex} \cup 0 .. IndexLimit - 1,
   payment : {Burned} \cup DOMAIN payments]

\* The stored values are of their types: an index within the range the table's
\* check allows (it would refuse others, with a payment half made).
TypeOK ==
  /\ wallet \in [Versions -> [lifecycle : {"ACTIVE", "RETIRED"},
                              recovery : {"READY", "RECOVERY_REQUIRED"}]]
  /\ consumed \in [Keys -> Nat \cup {NoIndex}]
  /\ hwm \in [Versions -> Nat]
  /\ \A a \in allocations :
       /\ a.version \in Versions
       /\ ValidIndex(a.index)
       /\ a.payment \in {Burned} \cup DOMAIN payments
  /\ \A c \in Calls : call[c] \in CallStates

\* Two answers name the same payment exactly when they are for the same
\* operation, and the same address exactly then: retries, races, lost answers
\* and crashes never give an operation a second address, nor an address to a
\* second operation, and never one that recovery has burned.
OneOperationOneAddress ==
  \A x, y \in answers :
    /\ (x.key = y.key) <=> (x.payment = y.payment)
    /\ (x.key = y.key) <=> (x.address = y.address)

\* Recovery may take an index as burned only if no payer was given its address.
BurnedIsNobodys ==
  \A a \in allocations : a.payment = Burned =>
    \A p \in DOMAIN payments : payments[p].address # a.address

\* A wallet version that is retired, or whose recovery state was withdrawn, takes
\* no new payment, however long ago the call read it as eligible.
WithdrawnTakesNoMore ==
  [][\A v \in Versions :
       wallet[v].lifecycle # "ACTIVE" \/ wallet[v].recovery # "READY"
       => \A n \in DOMAIN payments' \ DOMAIN payments : payments'[n].key[1] # v]_vars

\* What the service promises, whatever fails: every booking is the payment an
\* operation was given at its own index.
Booked ==
  {[key |-> payments[n].key, draft |-> payments[n].draft,
    index |-> payments[n].index, address |-> payments[n].address,
    payment |-> n] : n \in DOMAIN payments}

Ledger == INSTANCE AllocationLedger WITH booked <- Booked

Implements == Ledger!Spec

=============================================================================
