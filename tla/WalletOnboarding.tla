-------------------------- MODULE WalletOnboarding --------------------------
(***************************************************************************)
(* POST /api/wallet/onboard/validate and .../confirm, and what GET         *)
(* /api/wallet/config says of the result. A merchant offers public wallet  *)
(* material, is shown the first address it derives, and confirms it by the *)
(* token of a challenge that can be used once, for ten minutes, with at    *)
(* most a few wrong addresses. Every await is a place where other calls    *)
(* run; the transaction of confirm is one step, under the merchant's       *)
(* advisory lock and the unique indexes.                                   *)
(*                                                                         *)
(* A token is its challenge's number. Whom the origin check, the limiter   *)
(* or the session refuses takes no step here; the limiter is in RateLimit, *)
(* the session in LoginCodes. An address is named after the key and index  *)
(* it is derived from, so that two descriptors of one key share it.        *)
(***************************************************************************)
EXTENDS Descriptor, Sequences, FiniteSets

CONSTANTS
  Merchants, Calls,
  Offered,            \* materials with the network each is offered for
  NodeChain,          \* the chain the node says it is on
  ChallengeLife,      \* CHALLENGE_TTL_MS
  MaxConfirmAttempts,
  CleanupBatch,       \* take: 50
  MaxChallenges, MaxTime   \* bounds

ASSUME ConstantsAssumption ==
  {ChallengeLife, MaxConfirmAttempts, CleanupBatch} \subseteq Nat \ {0}

VARIABLES
  challenges,   \* table merchant_wallet_onboarding_challenge
  wallets,      \* tables merchant_wallets, _versions, _recovery_state, _monitoring
  audit,        \* table wallet_audit_events
  call,         \* the calls under way
  now

vars == <<challenges, wallets, audit, call, now>>

Idle == [pc |-> "idle"]

Init ==
  /\ challenges = << >>
  /\ wallets = {}
  /\ audit = << >>
  /\ call = [c \in Calls |-> Idle]
  /\ now = 0

WalletsOf(m) == {w \in wallets : w.merchant = m}

FirstAddress(material) == <<material.key, 0>>

Stale(n, t) == challenges[n].consumed \/ challenges[n].expires <= t

End(c) == call' = [call EXCEPT ![c] = Idle]

GoTo(c, pc) == call' = [call EXCEPT ![c].pc = pc]

-----------------------------------------------------------------------------
(* validate *)

\* The existing wallet is looked for, and the material is normalized.
Validate(c) ==
  /\ call[c].pc = "idle"
  /\ \E m \in Merchants, offer \in Offered :
       /\ WalletsOf(m) = {}
       /\ Verdict(offer.material, offer.network) = "OK"
       /\ call' = [call EXCEPT ![c] =
            [pc |-> "node", merchant |-> m, offer |-> offer]]
  /\ UNCHANGED <<challenges, wallets, audit, now>>

\* getNodeNetwork
NodeNetwork == ChainToNetwork(NodeChain)

\* getNodeNetwork, getDescriptorInfo and deriveAddress0; the time is taken after.
AskNode(c) ==
  /\ call[c].pc = "node"
  /\ \/ /\ call[c].offer.network = NodeNetwork
        /\ Accepted(call[c].offer.material, NodeNetwork)
        /\ call' = [call EXCEPT ![c] =
             [pc |-> "stale", merchant |-> call[c].merchant,
              offer |-> call[c].offer, at |-> now]]
     \/ End(c)    \* another network, refused, or no answer
  /\ UNCHANGED <<challenges, wallets, audit, now>>

\* The oldest stale challenges of the merchant, at most CleanupBatch of them.
ReadStale(c) ==
  LET stale == {n \in DOMAIN challenges :
                  /\ challenges[n].there
                  /\ challenges[n].merchant = call[c].merchant
                  /\ Stale(n, call[c].at)}
      oldest == {n \in stale : Cardinality({k \in stale : k < n}) < CleanupBatch}
  IN /\ call[c].pc = "stale"
     /\ call' = [call EXCEPT ![c] =
          [pc |-> "delete", merchant |-> call[c].merchant, offer |-> call[c].offer,
           at |-> call[c].at, ids |-> oldest]]
     /\ UNCHANGED <<challenges, wallets, audit, now>>

\* deleteMany of those, if they are still stale.
DeleteStale(c) ==
  /\ call[c].pc = "delete"
  /\ challenges' = [n \in DOMAIN challenges |->
       [challenges[n] EXCEPT !.there = @ /\ ~ (n \in call[c].ids /\ Stale(n, now))]]
  /\ GoTo(c, "issue")
  /\ UNCHANGED <<wallets, audit, now>>

\* The challenge keeps what was validated, so that confirm cannot substitute it.
IssueChallenge(c) ==
  LET material == call[c].offer.material
  IN /\ call[c].pc = "issue"
     /\ Len(challenges) < MaxChallenges
     /\ challenges' = Append(challenges,
          [merchant |-> call[c].merchant, network |-> call[c].offer.network,
           descriptor |-> CanonicalDescriptor(material),
           address0 |-> FirstAddress(material),
           expires |-> call[c].at + ChallengeLife,
           consumed |-> FALSE, attempts |-> 0, there |-> TRUE])
     /\ End(c)
     /\ UNCHANGED <<wallets, audit, now>>

-----------------------------------------------------------------------------
(* confirm *)

\* evaluateConfirm: the decision on a row as it was read.
Decision(n, m, address, t) ==
  FirstFailure(
    << <<n \notin DOMAIN challenges \/ ~ challenges[n].there, "NOT_FOUND">>,
       <<challenges[n].merchant # m, "CROSS_MERCHANT">>,
       <<challenges[n].consumed, "CONSUMED">>,
       <<challenges[n].expires <= t, "EXPIRED">>,
       <<challenges[n].attempts >= MaxConfirmAttempts, "TOO_MANY_ATTEMPTS">>,
       <<challenges[n].address0 # address, "MISMATCH">> >>)

\* The token of any challenge, an address of any of the keys.
Confirm(c) ==
  /\ call[c].pc = "idle"
  /\ \E m \in Merchants, n \in DOMAIN challenges, offer \in Offered :
       LET decision == Decision(n, m, FirstAddress(offer.material), now)
       IN /\ decision \in {"MISMATCH", "OK"}
          /\ call' = [call EXCEPT ![c] =
               [pc |-> IF decision = "OK" THEN "consume" ELSE "miss",
                merchant |-> m, token |-> n]]
  /\ UNCHANGED <<challenges, wallets, audit, now>>

\* Mutant: the update counts whatever became of the challenge meanwhile.
MayCountAny(n, m) == challenges[n].there

\* The where clause both updates share: live, owned, below the cap.
MayCount(n, m) ==
  /\ challenges[n].there
  /\ challenges[n].merchant = m
  /\ ~ challenges[n].consumed
  /\ challenges[n].expires > now
  /\ challenges[n].attempts < MaxConfirmAttempts

CountMismatch(c) ==
  LET n == call[c].token
  IN /\ call[c].pc = "miss"
     /\ challenges' = IF MayCount(n, call[c].merchant)
                      THEN [challenges EXCEPT ![n].attempts = @ + 1]
                      ELSE challenges
     /\ End(c)
     /\ UNCHANGED <<wallets, audit, now>>

\* Mutant: the attempts and the expiry were checked before, so no longer here.
MayConsumeOnceRead(n, m) ==
  challenges[n].there /\ challenges[n].merchant = m /\ ~ challenges[n].consumed

MayConsume(n, m) == MayCount(n, m)

NewWallet(m, n) ==
  [merchant |-> m, version |-> 1, descriptor |-> challenges[n].descriptor,
   network |-> challenges[n].network, lifecycle |-> "ACTIVE",
   recovery |-> "RECOVERY_REQUIRED", monitoring |-> "PENDING"]

\* merchant_id and descriptor are unique.
NoUniqueConflict(m, n) ==
  \A w \in wallets : w.merchant # m /\ w.descriptor # challenges[n].descriptor

\* Mutant: the transaction that a unique index refuses keeps the consumption.
RefusedKeepsConsumption(c) ==
  LET n == call[c].token
  IN /\ call[c].pc = "consume"
     /\ MayConsume(n, call[c].merchant)
     /\ ~ NoUniqueConflict(call[c].merchant, n)
     /\ challenges' = [challenges EXCEPT ![n].consumed = TRUE]
     /\ End(c)
     /\ UNCHANGED <<wallets, audit, now>>

\* The transaction: consume, create wallet, version, states and audit event.
ConsumeChallenge(c) ==
  LET n == call[c].token
      m == call[c].merchant
  IN /\ call[c].pc = "consume"
     /\ MayConsume(n, m)
     /\ NoUniqueConflict(m, n)
     /\ challenges' = [challenges EXCEPT ![n].consumed = TRUE]
     /\ wallets' = wallets \cup {NewWallet(m, n)}
     /\ audit' = Append(audit, [merchant |-> m, event |-> "WALLET_CREATED"])
     /\ End(c)
     /\ UNCHANGED now

\* ALREADY_EXISTS: rolled back, so the challenge may be presented again.
ConfirmRefused(c) ==
  /\ call[c].pc = "consume"
  /\ MayConsume(call[c].token, call[c].merchant)
  /\ ~ NoUniqueConflict(call[c].merchant, call[c].token)
  /\ End(c)
  /\ UNCHANGED <<challenges, wallets, audit, now>>

\* A failing query, a lost race (ConsumeRaceError) or a restart: nothing is done.
CallFails(c) ==
  /\ call[c].pc # "idle"
  /\ End(c)
  /\ UNCHANGED <<challenges, wallets, audit, now>>

-----------------------------------------------------------------------------
(* config *)

\* buildWalletConfigData: of the one active version its number, network, lifecycle
\* and states, never its descriptor; of none or several nothing (a null is the
\* empty set). The script type is always the same.
ConfigData(m) ==
  LET active == {w \in WalletsOf(m) : w.lifecycle = "ACTIVE"}
      known == IF Cardinality(active) = 1 THEN active ELSE {}
  IN IF WalletsOf(m) = {} THEN [configured |-> FALSE]
     ELSE [configured |-> TRUE,
           activeVersion |-> {[version |-> w.version, network |-> w.network,
                               lifecycle |-> w.lifecycle] : w \in known},
           recoveryState |-> {w.recovery : w \in known},
           monitoringStatus |-> {w.monitoring : w \in known},
           walletReady |-> \E w \in known : w.lifecycle = "ACTIVE" /\ w.recovery = "READY"]

AdvanceClock ==
  /\ now < MaxTime
  /\ now' = now + 1
  /\ UNCHANGED <<challenges, wallets, audit, call>>

CallStep(c) ==
  \/ Validate(c) \/ AskNode(c) \/ ReadStale(c) \/ DeleteStale(c) \/ IssueChallenge(c)
  \/ Confirm(c) \/ CountMismatch(c) \/ ConsumeChallenge(c) \/ ConfirmRefused(c)
  \/ CallFails(c)

Next ==
  \/ \E c \in Calls : CallStep(c)
  \/ AdvanceClock

Spec == Init /\ [][Next]_vars

-----------------------------------------------------------------------------
(* Properties *)

\* The stored values are of their types, a challenge's attempts within the cap
\* though calls overlap.
TypeOK ==
  /\ \A n \in DOMAIN challenges :
       /\ challenges[n].merchant \in Merchants
       /\ challenges[n].attempts \in 0 .. MaxConfirmAttempts
  /\ \A w \in wallets : w.merchant \in Merchants
  /\ \A c \in Calls : call[c].pc \in
       {"idle", "node", "stale", "delete", "issue", "miss", "consume"}

\* What config says of a wallet that was just confirmed.
Unrecovered(network) ==
  [configured |-> TRUE,
   activeVersion |-> {[version |-> 1, network |-> network, lifecycle |-> "ACTIVE"]},
   recoveryState |-> {"RECOVERY_REQUIRED"}, monitoringStatus |-> {"PENDING"},
   walletReady |-> FALSE]

\* A consumed challenge and a wallet are one thing: each consumed challenge made
\* its merchant's only wallet, from the descriptor and for the network it had
\* validated, with its audit event, and config tells the merchant so; no
\* descriptor is two merchants'; a merchant without a consumed challenge is not
\* configured; and no overlapping, refused or failing call leaves a part of it.
WalletsAreConfirmed ==
  LET consumed == {n \in DOMAIN challenges : challenges[n].consumed}
  IN /\ Len(audit) = Cardinality(wallets)
     /\ Cardinality(consumed) = Cardinality(wallets)
     /\ \A v, w \in wallets : v.merchant = w.merchant \/ v.descriptor = w.descriptor => v = w
     /\ \A n \in consumed :
          LET m == challenges[n].merchant
          IN /\ {w.descriptor : w \in WalletsOf(m)} = {challenges[n].descriptor}
             /\ ConfigData(m) = Unrecovered(challenges[n].network)
     /\ \A m \in Merchants :
          ConfigData(m).configured => \E n \in consumed : challenges[n].merchant = m

\* Only a live challenge makes a wallet: not one that expired, ran out of
\* attempts or was deleted after the call had read it.
DeadChallengesMakeNothing ==
  [][\A n \in DOMAIN challenges :
       challenges'[n].consumed /\ ~ challenges[n].consumed
       => /\ challenges[n].there
          /\ challenges[n].expires > now
          /\ challenges[n].attempts < MaxConfirmAttempts]_vars

=============================================================================
