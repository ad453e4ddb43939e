----------------------- MODULE WalletOnboardingProofs -----------------------
(***************************************************************************)
(* Theorems about WalletOnboarding, for any number of merchants, calls,    *)
(* materials and challenges: its types, that consumed challenges and       *)
(* wallets are one thing, and that only a live challenge makes a wallet.   *)
(*                                                                         *)
(* Types says what the calls carry; Bound, which wallet each consumed      *)
(* challenge made.                                                         *)
(***************************************************************************)
EXTENDS WalletOnboarding, FiniteSetTheorems, SequenceTheorems, TLAPS

-----------------------------------------------------------------------------
(* Types *)

Descriptors == {CanonicalDescriptor(o.material) : o \in Offered}
Addresses == {FirstAddress(o.material) : o \in Offered}
OfferedNetworks == {o.network : o \in Offered}

Challenges ==
  [merchant : Merchants, network : OfferedNetworks, descriptor : Descriptors,
   address0 : Addresses, expires : Nat, consumed : BOOLEAN, attempts : 0 .. MaxConfirmAttempts, there : BOOLEAN]

Wallets ==
  [merchant : Merchants, version : {1}, descriptor : Descriptors, network : OfferedNetworks,
   lifecycle : {"ACTIVE"}, recovery : {"RECOVERY_REQUIRED"}, monitoring : {"PENDING"}]

CallRecords ==
  [pc : {"idle"}]
  \cup [pc : {"node"}, merchant : Merchants, offer : Offered]
  \cup [pc : {"stale"}, merchant : Merchants, offer : Offered, at : Nat]
  \cup [pc : {"delete", "issue"}, merchant : Merchants, offer : Offered, at : Nat, ids : SUBSET Nat]
  \cup [pc : {"miss", "consume"}, merchant : Merchants, token : Nat]

Types ==
  /\ challenges \in Seq(Challenges)
  /\ wallets \in SUBSET Wallets
  /\ call \in [Calls -> CallRecords]
  /\ now \in Nat
  /\ \A c \in Calls : call[c].pc \in {"miss", "consume"} => call[c].token \in DOMAIN challenges

\* A sequence of challenges, as a function.
LEMMA ChallengesAre ==
  ASSUME Types
  PROVE  /\ Len(challenges) \in Nat /\ DOMAIN challenges = 1 .. Len(challenges)
         /\ \A n \in DOMAIN challenges : challenges[n] \in Challenges
BY DEF Types

\* A call carries what its stage needs.
LEMMA CallIs ==
  ASSUME Types, NEW c \in Calls
  PROVE  /\ call[c].pc \in {"idle", "node", "stale", "delete", "issue", "miss", "consume"}
         /\ call[c].pc # "idle" => call[c].merchant \in Merchants
         /\ call[c].pc \in {"node", "stale", "delete", "issue"} => call[c].offer \in Offered
         /\ call[c].pc \in {"stale", "delete", "issue"} => call[c].at \in Nat
         /\ call[c].pc \in {"miss", "consume"} =>
              call[c].token \in DOMAIN challenges /\ call[c].token \in Nat
<1>1. call[c] \in CallRecords
  BY DEF Types
<1>2. call[c].pc \in {"miss", "consume"} => call[c].token \in DOMAIN challenges
  BY DEF Types
<1> QED BY <1>1, <1>2 DEF CallRecords

\* The calls after a step of one of them.
LEMMA CallsStay ==
  ASSUME Types, NEW c \in Calls, NEW r \in CallRecords, call' = [call EXCEPT ![c] = r],
         DOMAIN challenges \subseteq DOMAIN challenges',
         r.pc \in {"miss", "consume"} => r.token \in DOMAIN challenges'
  PROVE  /\ call' \in [Calls -> CallRecords]
         /\ \A k \in Calls : call'[k].pc \in {"miss", "consume"} =>
                               call'[k].token \in DOMAIN challenges'
<1>1. \A k \in Calls : call'[k] = IF k = c THEN r ELSE call[k]
  BY DEF Types
<1> QED BY <1>1 DEF Types

\* The steps that change no table.
NoWrite(c) ==
  \/ Validate(c) \/ AskNode(c) \/ ReadStale(c) \/ Confirm(c) \/ ConfirmRefused(c) \/ CallFails(c)

LEMMA NoWriteStep ==
  ASSUME Types, NEW c \in Calls, NoWrite(c)
  PROVE  Types' /\ UNCHANGED <<challenges, wallets, audit, now>>
<1>1. UNCHANGED <<challenges, wallets, audit, now>>
  BY DEF NoWrite, Validate, AskNode, ReadStale, Confirm, ConfirmRefused, CallFails
<1>2. \E r \in CallRecords :
        /\ call' = [call EXCEPT ![c] = r]
        /\ r.pc \in {"miss", "consume"} => r.token \in DOMAIN challenges'
  <2>1. CASE Validate(c)
    <3>1. PICK m \in Merchants, offer \in Offered :
            call' = [call EXCEPT ![c] = [pc |-> "node", merchant |-> m, offer |-> offer]]
      BY <2>1 DEF Validate
    <3>2. [pc |-> "node", merchant |-> m, offer |-> offer] \in CallRecords
      BY DEF CallRecords
    <3> QED BY <3>1, <3>2
  <2>2. CASE End(c)
    <3>1. Idle \in CallRecords /\ Idle.pc = "idle"
      BY DEF Idle, CallRecords
    <3> QED BY <2>2, <3>1 DEF End
  <2>3. CASE AskNode(c) /\ ~ End(c)
    <3> DEFINE r == [pc |-> "stale", merchant |-> call[c].merchant, offer |-> call[c].offer,
                     at |-> now]
    <3>1. call' = [call EXCEPT ![c] = r] /\ call[c].pc = "node"
      BY <2>3 DEF AskNode
    <3>2. r \in CallRecords
      BY <3>1, CallIs DEF CallRecords, Types
    <3> QED BY <3>1, <3>2
  <2>4. CASE ReadStale(c)
    <3> DEFINE stale == {n \in DOMAIN challenges :
                           /\ challenges[n].there
                           /\ challenges[n].merchant = call[c].merchant
                           /\ Stale(n, call[c].at)}
               oldest == {n \in stale : Cardinality({k \in stale : k < n}) < CleanupBatch}
               r == [pc |-> "delete", merchant |-> call[c].merchant, offer |-> call[c].offer,
                     at |-> call[c].at, ids |-> oldest]
    <3>1. call' = [call EXCEPT ![c] = r] /\ call[c].pc = "stale"
      BY <2>4 DEF ReadStale
    <3>2. oldest \in SUBSET Nat
      BY ChallengesAre
    <3> HIDE DEF oldest
    <3>3. r \in CallRecords /\ r.pc = "delete"
      BY <3>1, <3>2, CallIs DEF CallRecords
    <3> QED BY <3>1, <3>3
  <2>5. CASE Confirm(c)
    <3>1. PICK m \in Merchants, n \in DOMAIN challenges, pc \in {"miss", "consume"} :
            call' = [call EXCEPT ![c] = [pc |-> pc, merchant |-> m, token |-> n]]
      BY <2>5 DEF Confirm
    <3>2. [pc |-> pc, merchant |-> m, token |-> n] \in CallRecords
      BY ChallengesAre DEF CallRecords
    <3> QED BY <1>1, <3>1, <3>2
  <2> QED BY <2>1, <2>2, <2>3, <2>4, <2>5 DEF NoWrite, ConfirmRefused, CallFails
<1>3. /\ call' \in [Calls -> CallRecords]
      /\ \A k \in Calls : call'[k].pc \in {"miss", "consume"} =>
                            call'[k].token \in DOMAIN challenges'
  BY <1>1, <1>2, CallsStay
<1> QED BY <1>1, <1>3 DEF Types


LEMMA EndStays ==
  ASSUME Types, NEW c \in Calls, End(c), DOMAIN challenges \subseteq DOMAIN challenges'
  PROVE  /\ call' \in [Calls -> CallRecords]
         /\ \A k \in Calls : call'[k].pc \in {"miss", "consume"} =>
                               call'[k].token \in DOMAIN challenges'
<1>1. Idle \in CallRecords /\ Idle.pc = "idle"
  BY DEF Idle, CallRecords
<1>2. call' = [call EXCEPT ![c] = Idle]
  BY DEF End
<1> QED BY <1>1, <1>2, CallsStay

\* Clean-up keeps every number: a deleted challenge is only no longer there.
LEMMA DeleteTypes ==
  ASSUME Types, NEW c \in Calls, DeleteStale(c)
  PROVE  /\ Types'
         /\ DOMAIN challenges' = DOMAIN challenges
         /\ \A n \in DOMAIN challenges :
              /\ challenges'[n].merchant = challenges[n].merchant
              /\ challenges'[n].descriptor = challenges[n].descriptor
              /\ challenges'[n].network = challenges[n].network
              /\ challenges'[n].consumed = challenges[n].consumed
<1> DEFINE there(n) == challenges[n].there /\ ~ (n \in call[c].ids /\ Stale(n, now))
<1>1. /\ call[c].pc = "delete"
      /\ challenges' = [n \in DOMAIN challenges |-> [challenges[n] EXCEPT !.there = there(n)]]
      /\ call' = [call EXCEPT ![c].pc = "issue"]
      /\ UNCHANGED <<wallets, audit, now>>
  BY DEF DeleteStale, GoTo
<1>2. \A n \in DOMAIN challenges : there(n) \in BOOLEAN
  BY ChallengesAre DEF Challenges
<1> HIDE DEF there
<1>3. \A n \in DOMAIN challenges :
        /\ challenges'[n] \in Challenges
        /\ challenges'[n].merchant = challenges[n].merchant
        /\ challenges'[n].descriptor = challenges[n].descriptor
        /\ challenges'[n].network = challenges[n].network
        /\ challenges'[n].consumed = challenges[n].consumed
  BY <1>1, <1>2, ChallengesAre DEF Challenges
<1>4. DOMAIN challenges' = DOMAIN challenges
  BY <1>1
<1>5. challenges' \in Seq(Challenges)
  <2>1. challenges' \in [1 .. Len(challenges) -> Challenges]
    BY <1>1, <1>3, ChallengesAre
  <2> QED BY <2>1, ChallengesAre
<1>6. [call[c] EXCEPT !.pc = "issue"] \in CallRecords
  <2>1. call[c] \in [pc : {"delete", "issue"}, merchant : Merchants, offer : Offered,
                     at : Nat, ids : SUBSET Nat]
    BY <1>1 DEF Types, CallRecords
  <2> QED BY <2>1 DEF CallRecords
<1>7. /\ call' \in [Calls -> CallRecords]
      /\ \A k \in Calls : call'[k].pc \in {"miss", "consume"} =>
                            call'[k].token \in DOMAIN challenges'
  <2>1. call' = [call EXCEPT ![c] = [call[c] EXCEPT !.pc = "issue"]]
    BY <1>1
  <2>2. [call[c] EXCEPT !.pc = "issue"].pc = "issue"
    <3>1. "pc" \in DOMAIN call[c]
      BY <1>1 DEF Types, CallRecords
    <3> QED BY <3>1
  <2> QED BY <1>4, <1>6, <2>1, <2>2, CallsStay
<1> QED BY <1>1, <1>3, <1>4, <1>5, <1>7 DEF Types

\* A new challenge takes the next number, and is not consumed.
LEMMA IssueTypes ==
  ASSUME Types, NEW c \in Calls, IssueChallenge(c)
  PROVE  /\ Types'
         /\ DOMAIN challenges' = DOMAIN challenges \cup {Len(challenges) + 1}
         /\ \A n \in DOMAIN challenges : challenges'[n] = challenges[n]
         /\ ~ challenges'[Len(challenges) + 1].consumed
<1> DEFINE material == call[c].offer.material
           new == [merchant |-> call[c].merchant, network |-> call[c].offer.network,
                   descriptor |-> CanonicalDescriptor(material),
                   address0 |-> FirstAddress(material),
                   expires |-> call[c].at + ChallengeLife,
                   consumed |-> FALSE, attempts |-> 0, there |-> TRUE]
<1>1. /\ call[c].pc = "issue" /\ challenges' = Append(challenges, new) /\ End(c)
      /\ UNCHANGED <<wallets, audit, now>>
  BY DEF IssueChallenge
<1>2. new \in Challenges
  <2>1. /\ call[c].merchant \in Merchants /\ call[c].offer \in Offered /\ call[c].at \in Nat
    BY <1>1, CallIs
  <2>2. ChallengeLife \in Nat /\ MaxConfirmAttempts \in Nat
    BY ConstantsAssumption
  <2>3. /\ CanonicalDescriptor(material) \in Descriptors /\ FirstAddress(material) \in Addresses
        /\ call[c].offer.network \in OfferedNetworks
    BY <2>1 DEF Descriptors, Addresses, OfferedNetworks
  <2>4. call[c].at + ChallengeLife \in Nat /\ 0 \in 0 .. MaxConfirmAttempts
    BY <2>1, <2>2
  <2> QED BY <2>1, <2>3, <2>4 DEF Challenges
<1>3. ~ new.consumed
  OBVIOUS
<1> HIDE DEF new
<1>4. challenges \in Seq(Challenges)
  BY DEF Types
<1>5. challenges' \in Seq(Challenges)
  BY <1>1, <1>2, <1>4
<1>6. DOMAIN challenges' = DOMAIN challenges \cup {Len(challenges) + 1}
  BY <1>1, <1>2, <1>4, ChallengesAre
<1>7. \A n \in DOMAIN challenges : challenges'[n] = challenges[n]
  BY <1>1, <1>2, <1>4, ChallengesAre
<1>8. challenges'[Len(challenges) + 1] = new
  BY <1>1, <1>2, <1>4
<1>9. /\ call' \in [Calls -> CallRecords]
      /\ \A k \in Calls : call'[k].pc \in {"miss", "consume"} =>
                            call'[k].token \in DOMAIN challenges'
  BY <1>1, <1>6, EndStays
<1> QED BY <1>1, <1>3, <1>5, <1>6, <1>7, <1>8, <1>9 DEF Types

\* A wrong address is counted below the cap, and nothing else is.
LEMMA MismatchTypes ==
  ASSUME Types, NEW c \in Calls, CountMismatch(c)
  PROVE  /\ Types'
         /\ DOMAIN challenges' = DOMAIN challenges
         /\ \A n \in DOMAIN challenges :
              /\ challenges'[n].merchant = challenges[n].merchant
              /\ challenges'[n].descriptor = challenges[n].descriptor
              /\ challenges'[n].network = challenges[n].network
              /\ challenges'[n].consumed = challenges[n].consumed
<1>1. PICK n : n = call[c].token
  OBVIOUS
<1>2. /\ call[c].pc = "miss" /\ End(c) /\ UNCHANGED <<wallets, audit, now>>
      /\ challenges' = IF MayCount(n, call[c].merchant)
                       THEN [challenges EXCEPT ![n].attempts = @ + 1] ELSE challenges
  BY <1>1 DEF CountMismatch
<1>3. n \in DOMAIN challenges
  BY <1>1, <1>2, CallIs
<1>4. CASE MayCount(n, call[c].merchant)
  <2>1. challenges[n].attempts + 1 \in 0 .. MaxConfirmAttempts
    <3>1. challenges[n].attempts < MaxConfirmAttempts
      BY <1>4 DEF MayCount
    <3>2. challenges[n].attempts \in 0 .. MaxConfirmAttempts /\ MaxConfirmAttempts \in Nat
      BY <1>3, ChallengesAre, ConstantsAssumption DEF Challenges
    <3> QED BY <3>1, <3>2
  <2>2. challenges' = [challenges EXCEPT ![n] =
                         [challenges[n] EXCEPT !.attempts = challenges[n].attempts + 1]]
    BY <1>2, <1>4
  <2>3. [challenges[n] EXCEPT !.attempts = challenges[n].attempts + 1] \in Challenges
    BY <1>3, <2>1, ChallengesAre DEF Challenges
  <2>4. challenges' \in Seq(Challenges) /\ DOMAIN challenges' = DOMAIN challenges
    BY <1>3, <2>2, <2>3 DEF Types
  <2>5. \A k \in DOMAIN challenges :
          /\ challenges'[k].merchant = challenges[k].merchant
          /\ challenges'[k].descriptor = challenges[k].descriptor
          /\ challenges'[k].network = challenges[k].network
          /\ challenges'[k].consumed = challenges[k].consumed
    BY <1>3, <2>2, ChallengesAre DEF Challenges
  <2> QED BY <1>2, <2>4, <2>5, EndStays DEF Types
<1>5. CASE ~ MayCount(n, call[c].merchant)
  <2>1. challenges' = challenges
    BY <1>2, <1>5
  <2> QED BY <1>2, <2>1, EndStays DEF Types
<1> QED BY <1>4, <1>5

\* The transaction makes one wallet of one live challenge.
LEMMA ConsumeTypes ==
  ASSUME Types, NEW c \in Calls, ConsumeChallenge(c)
  PROVE  /\ Types'
         /\ DOMAIN challenges' = DOMAIN challenges
         /\ call[c].token \in DOMAIN challenges
         /\ challenges[call[c].token].merchant = call[c].merchant
         /\ \A n \in DOMAIN challenges :
              /\ challenges'[n].merchant = challenges[n].merchant
              /\ challenges'[n].descriptor = challenges[n].descriptor
              /\ challenges'[n].network = challenges[n].network
              /\ challenges'[n].consumed = (challenges[n].consumed \/ n = call[c].token)
<1>1. PICK n, m : n = call[c].token /\ m = call[c].merchant
  OBVIOUS
<1>2. /\ call[c].pc = "consume" /\ MayConsume(n, m) /\ End(c) /\ now' = now
      /\ challenges' = [challenges EXCEPT ![n].consumed = TRUE]
      /\ wallets' = wallets \cup {NewWallet(m, n)}
  BY <1>1 DEF ConsumeChallenge
<1>3. n \in DOMAIN challenges /\ m \in Merchants
  BY <1>1, <1>2, CallIs
<1>4. challenges[n].merchant = m
  BY <1>2 DEF MayConsume, MayCount
<1>5. NewWallet(m, n) \in Wallets
  BY <1>3, ChallengesAre DEF NewWallet, Wallets, Challenges
<1>6. challenges' = [challenges EXCEPT ![n] = [challenges[n] EXCEPT !.consumed = TRUE]]
  BY <1>2
<1>7. [challenges[n] EXCEPT !.consumed = TRUE] \in Challenges
  BY <1>3, ChallengesAre DEF Challenges
<1>8. challenges' \in Seq(Challenges) /\ DOMAIN challenges' = DOMAIN challenges
  BY <1>3, <1>6, <1>7 DEF Types
<1>9. \A k \in DOMAIN challenges :
        /\ challenges'[k].merchant = challenges[k].merchant
        /\ challenges'[k].descriptor = challenges[k].descriptor
        /\ challenges'[k].network = challenges[k].network
        /\ challenges'[k].consumed = (challenges[k].consumed \/ k = n)
  BY <1>3, <1>6, ChallengesAre DEF Challenges
<1>10. Types'
  BY <1>2, <1>5, <1>8, EndStays DEF Types
<1> QED BY <1>1, <1>3, <1>4, <1>8, <1>9, <1>10


LEMMA TypesStep ==
  ASSUME Types, [Next]_vars
  PROVE  Types'
<1>1. CASE UNCHANGED vars
  BY <1>1 DEF vars, Types
<1>2. CASE AdvanceClock
  BY <1>2 DEF AdvanceClock, Types
<1>3. ASSUME NEW c \in Calls, CallStep(c) PROVE Types'
  BY <1>3, NoWriteStep, DeleteTypes, IssueTypes, MismatchTypes, ConsumeTypes
     DEF CallStep, NoWrite
<1> QED BY <1>1, <1>2, <1>3 DEF Next

LEMMA TypesInit == Init => Types
<1> SUFFICES ASSUME Init PROVE Types
  OBVIOUS
<1>1. challenges = << >> /\ wallets = {} /\ call = [c \in Calls |-> Idle] /\ now = 0
  BY DEF Init
<1>2. Idle \in CallRecords /\ Idle.pc = "idle"
  BY DEF Idle, CallRecords
<1> QED BY <1>1, <1>2 DEF Types

LEMMA TypesAlways == Spec => []Types
<1>1. Types /\ [Next]_vars => Types'
  BY TypesStep
<1> QED BY <1>1, TypesInit, PTL DEF Spec

\* What is stored is of its type, and a challenge's attempts never pass the cap,
\* however many wrong addresses are on their way at once.
THEOREM TypeCorrect == Spec => []TypeOK
<1>1. Types => TypeOK
  <2> SUFFICES ASSUME Types PROVE TypeOK
    OBVIOUS
  <2>1. \A n \in DOMAIN challenges :
          /\ challenges[n].merchant \in Merchants
          /\ challenges[n].attempts \in 0 .. MaxConfirmAttempts
    BY ChallengesAre DEF Challenges
  <2>2. \A w \in wallets : w.merchant \in Merchants
    BY DEF Types, Wallets
  <2> QED BY <2>1, <2>2, CallIs DEF TypeOK
<1> QED BY <1>1, TypesAlways, PTL

-----------------------------------------------------------------------------
(* Only a live challenge makes a wallet. *)

\* A call that read a live challenge may find it dead when it consumes it: the
\* consumption then takes no step, whatever the other calls did in between.
THEOREM DeadStayDead == Spec => DeadChallengesMakeNothing
<1> DEFINE Good ==
      \A n \in DOMAIN challenges :
        challenges'[n].consumed /\ ~ challenges[n].consumed
        => /\ challenges[n].there
           /\ challenges[n].expires > now
           /\ challenges[n].attempts < MaxConfirmAttempts
<1>1. Types /\ [Next]_vars => [Good]_vars
  <2> SUFFICES ASSUME Types, Next PROVE Good
    OBVIOUS
  <2>1. CASE AdvanceClock
    BY <2>1 DEF AdvanceClock
  <2>2. ASSUME NEW c \in Calls, ConsumeChallenge(c) PROVE Good
    <3>1. \A n \in DOMAIN challenges :
            challenges'[n].consumed = (challenges[n].consumed \/ n = call[c].token)
      BY <2>2, ConsumeTypes
    <3>2. /\ challenges[call[c].token].there
          /\ challenges[call[c].token].expires > now
          /\ challenges[call[c].token].attempts < MaxConfirmAttempts
      BY <2>2 DEF ConsumeChallenge, MayConsume, MayCount
    <3> QED BY <3>1, <3>2
  <2>3. ASSUME NEW c \in Calls, CallStep(c), ~ ConsumeChallenge(c) PROVE Good
    <3>1. \A n \in DOMAIN challenges : challenges'[n].consumed = challenges[n].consumed
      BY <2>3, NoWriteStep, DeleteTypes, IssueTypes, MismatchTypes DEF CallStep, NoWrite
    <3> QED BY <3>1
  <2> QED BY <2>1, <2>2, <2>3 DEF Next
<1> QED BY <1>1, TypesAlways, PTL DEF Spec, DeadChallengesMakeNothing

-----------------------------------------------------------------------------
(* A consumed challenge and a wallet are one thing. *)

Consumed == {n \in DOMAIN challenges : challenges[n].consumed}

Events == [merchant : Merchants, event : {"WALLET_CREATED"}]

Bound ==
  /\ audit \in Seq(Events)
  /\ IsFiniteSet(wallets)
  /\ Len(audit) = Cardinality(wallets)
  /\ Cardinality(Consumed) = Cardinality(wallets)
  /\ \A v, w \in wallets : v.merchant = w.merchant \/ v.descriptor = w.descriptor => v = w
  /\ \A n \in Consumed : NewWallet(challenges[n].merchant, n) \in wallets
  /\ \A w \in wallets : \E n \in Consumed : challenges[n].merchant = w.merchant

LEMMA BoundInit == Init => Bound
<1> SUFFICES ASSUME Init PROVE Bound
  OBVIOUS
<1>1. challenges = << >> /\ wallets = {} /\ audit = << >>
  BY DEF Init
<1>2. Consumed = {}
  BY <1>1 DEF Consumed
<1>3. IsFiniteSet({}) /\ Cardinality({}) = 0
  BY FS_EmptySet
<1> QED BY <1>1, <1>2, <1>3 DEF Bound

\* A step that makes no wallet, and leaves what was confirmed as it was.
LEMMA BoundKept ==
  ASSUME Types, Bound, UNCHANGED <<wallets, audit>>,
         DOMAIN challenges \subseteq DOMAIN challenges',
         \A n \in DOMAIN challenges :
           /\ challenges'[n].merchant = challenges[n].merchant
           /\ challenges'[n].descriptor = challenges[n].descriptor
           /\ challenges'[n].network = challenges[n].network
           /\ challenges'[n].consumed = challenges[n].consumed,
         \A n \in DOMAIN challenges' : n \notin DOMAIN challenges => ~ challenges'[n].consumed
  PROVE  Bound'
<1>1. Consumed' = Consumed
  BY DEF Consumed
<1>2. \A n \in Consumed : NewWallet(challenges[n].merchant, n)' = NewWallet(challenges[n].merchant, n)
  BY DEF Consumed, NewWallet
<1>3. \A w \in wallets : \E n \in Consumed' : challenges'[n].merchant = w.merchant
  BY <1>1 DEF Bound, Consumed
<1> QED BY <1>1, <1>2, <1>3 DEF Bound

\* The transaction adds one to each count, for a merchant and a descriptor that
\* have no wallet.
LEMMA BoundConsume ==
  ASSUME Types, Bound, NEW c \in Calls, ConsumeChallenge(c)
  PROVE  Bound'
<1>1. PICK n, m : n = call[c].token /\ m = call[c].merchant
  OBVIOUS
<1>2. /\ MayConsume(n, m) /\ NoUniqueConflict(m, n)
      /\ wallets' = wallets \cup {NewWallet(m, n)}
      /\ audit' = Append(audit, [merchant |-> m, event |-> "WALLET_CREATED"])
  BY <1>1 DEF ConsumeChallenge
<1>3. /\ n \in DOMAIN challenges /\ challenges[n].merchant = m
      /\ DOMAIN challenges' = DOMAIN challenges
      /\ \A k \in DOMAIN challenges :
           /\ challenges'[k].merchant = challenges[k].merchant
           /\ challenges'[k].descriptor = challenges[k].descriptor
           /\ challenges'[k].network = challenges[k].network
           /\ challenges'[k].consumed = (challenges[k].consumed \/ k = n)
  BY <1>1, ConsumeTypes
<1>4. ~ challenges[n].consumed
  BY <1>2 DEF MayConsume, MayCount
<1>5. /\ NewWallet(m, n) \notin wallets
      /\ NewWallet(m, n).merchant = m
      /\ NewWallet(m, n).descriptor = challenges[n].descriptor
  BY <1>2 DEF NoUniqueConflict, NewWallet
<1>6. IsFiniteSet(wallets') /\ Cardinality(wallets') = Cardinality(wallets) + 1
  BY <1>2, <1>5, FS_AddElement DEF Bound
<1>7. Consumed' = Consumed \cup {n} /\ n \notin Consumed
  BY <1>3, <1>4 DEF Consumed
<1>8. Cardinality(Consumed') = Cardinality(Consumed) + 1
  <2>1. IsFiniteSet(DOMAIN challenges)
    BY ChallengesAre, FS_Interval
  <2>2. IsFiniteSet(Consumed)
    BY <2>1, FS_Subset DEF Consumed
  <2> QED BY <1>7, <2>2, FS_AddElement
<1>9. audit' \in Seq(Events) /\ Len(audit') = Len(audit) + 1
  <2>1. m \in Merchants
    BY <1>3, ChallengesAre DEF Challenges
  <2> QED BY <1>2, <2>1 DEF Bound, Events
<1>10. \A v, w \in wallets' : v.merchant = w.merchant \/ v.descriptor = w.descriptor => v = w
  BY <1>2, <1>5 DEF Bound, NoUniqueConflict
<1>11. \A k \in Consumed' : NewWallet(challenges[k].merchant, k)' \in wallets'
  <2> SUFFICES ASSUME NEW k \in Consumed' PROVE NewWallet(challenges[k].merchant, k)' \in wallets'
    OBVIOUS
  <2>1. k \in DOMAIN challenges /\ challenges'[k].descriptor = challenges[k].descriptor
        /\ challenges'[k].network = challenges[k].network
        /\ challenges'[k].merchant = challenges[k].merchant
    BY <1>3 DEF Consumed
  <2>2. NewWallet(challenges[k].merchant, k)' = NewWallet(challenges[k].merchant, k)
    BY <2>1 DEF NewWallet
  <2> QED BY <1>2, <1>3, <1>7, <2>2 DEF Bound
<1>12. \A w \in wallets' : \E k \in Consumed' : challenges'[k].merchant = w.merchant
  <2> SUFFICES ASSUME NEW w \in wallets' PROVE \E k \in Consumed' : challenges'[k].merchant = w.merchant
    OBVIOUS
  <2>1. CASE w \in wallets
    BY <1>3, <1>7, <2>1 DEF Bound, Consumed
  <2>2. CASE w = NewWallet(m, n)
    BY <1>3, <1>5, <1>7, <2>2
  <2> QED BY <1>2, <2>1, <2>2
<1> QED BY <1>6, <1>8, <1>9, <1>10, <1>11, <1>12 DEF Bound

LEMMA BoundStep ==
  ASSUME Types, Bound, [Next]_vars
  PROVE  Bound'
<1>1. CASE UNCHANGED vars
  BY <1>1, BoundKept DEF vars
<1>2. CASE AdvanceClock
  BY <1>2, BoundKept DEF AdvanceClock
<1>3. ASSUME NEW c \in Calls, CallStep(c) PROVE Bound'
  <2>1. CASE NoWrite(c)
    BY <2>1, NoWriteStep, BoundKept
  <2>2. CASE DeleteStale(c)
    BY <2>2, DeleteTypes, BoundKept DEF DeleteStale
  <2>3. CASE IssueChallenge(c)
    BY <2>3, IssueTypes, BoundKept DEF IssueChallenge
  <2>4. CASE CountMismatch(c)
    BY <2>4, MismatchTypes, BoundKept DEF CountMismatch
  <2>5. CASE ConsumeChallenge(c)
    BY <2>5, BoundConsume
  <2> QED BY <1>3, <2>1, <2>2, <2>3, <2>4, <2>5 DEF CallStep, NoWrite
<1> QED BY <1>1, <1>2, <1>3 DEF Next

\* What a merchant whose challenge was consumed has, and what config says of it.
LEMMA ConfigOfConfirmed ==
  ASSUME Types, Bound, NEW n \in DOMAIN challenges, challenges[n].consumed
  PROVE  /\ {w.descriptor : w \in WalletsOf(challenges[n].merchant)} = {challenges[n].descriptor}
         /\ ConfigData(challenges[n].merchant) = Unrecovered(challenges[n].network)
<1>1. PICK m, w : m = challenges[n].merchant /\ w = NewWallet(m, n)
  OBVIOUS
<1>2. w \in wallets
  BY <1>1 DEF Bound, Consumed
<1>3. /\ w.merchant = m /\ w.version = 1 /\ w.descriptor = challenges[n].descriptor
      /\ w.network = challenges[n].network /\ w.lifecycle = "ACTIVE"
      /\ w.recovery = "RECOVERY_REQUIRED" /\ w.monitoring = "PENDING"
  BY <1>1 DEF NewWallet
<1>4. WalletsOf(m) = {w}
  BY <1>2, <1>3 DEF WalletsOf, Bound
<1>5. {v \in WalletsOf(m) : v.lifecycle = "ACTIVE"} = {w}
  BY <1>3, <1>4
<1>6. Cardinality({w}) = 1
  BY FS_Singleton
<1>7. ConfigData(m) =
        [configured |-> TRUE,
         activeVersion |-> {[version |-> v.version, network |-> v.network,
                             lifecycle |-> v.lifecycle] : v \in {w}},
         recoveryState |-> {v.recovery : v \in {w}},
         monitoringStatus |-> {v.monitoring : v \in {w}},
         walletReady |-> \E v \in {w} : v.lifecycle = "ACTIVE" /\ v.recovery = "READY"]
  BY <1>4, <1>5, <1>6, Zenon DEF ConfigData
<1>8. /\ {[version |-> v.version, network |-> v.network,
            lifecycle |-> v.lifecycle] : v \in {w}}
           = {[version |-> 1, network |-> challenges[n].network, lifecycle |-> "ACTIVE"]}
      /\ {v.recovery : v \in {w}} = {"RECOVERY_REQUIRED"}
      /\ {v.monitoring : v \in {w}} = {"PENDING"}
      /\ (\E v \in {w} : v.lifecycle = "ACTIVE" /\ v.recovery = "READY") = FALSE
  BY <1>3
<1>9. {v.descriptor : v \in WalletsOf(m)} = {challenges[n].descriptor}
  BY <1>3, <1>4
<1> QED BY <1>1, <1>7, <1>8, <1>9 DEF Unrecovered

\* Who has no wallet is not configured.
LEMMA ConfigOfOthers ==
  ASSUME Bound, NEW m \in Merchants, ConfigData(m).configured
  PROVE  \E n \in Consumed : challenges[n].merchant = m
<1>1. WalletsOf(m) # {}
  BY DEF ConfigData
<1> QED BY <1>1 DEF WalletsOf, Bound

\* Each consumed challenge made its merchant's only wallet, from the descriptor
\* and for the network it had validated, and config says so without a readiness
\* no recovery has established; the unique indexes keep the wallets apart, and no
\* call that overlaps, is refused or fails leaves a part of it.
THEOREM WalletsHaveTheirChallenge == Spec => []WalletsAreConfirmed
<1>1. Types /\ Bound /\ [Next]_vars => Bound'
  BY BoundStep
<1>2. Types /\ Bound => WalletsAreConfirmed
  BY ConfigOfConfirmed, ConfigOfOthers DEF Bound, Consumed, WalletsAreConfirmed
<1> QED BY <1>1, <1>2, BoundInit, TypesAlways, PTL DEF Spec

=============================================================================
