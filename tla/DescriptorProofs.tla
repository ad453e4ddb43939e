-------------------------- MODULE DescriptorProofs --------------------------
(***************************************************************************)
(* Theorems about Descriptor: what its tables of checks come to, for every *)
(* material, not only for those close to a good one.                       *)
(***************************************************************************)
EXTENDS MCWalletOnboarding, WellFoundedInduction, SequenceTheorems, TLAPS

\* A table of checks: whether each fails, and with which code.
Codes ==
  {"INPUT_INVALID", "UNSUPPORTED_SCRIPT", "NETWORK_MISMATCH", "CHECKSUM_INVALID",
   "KEY_ORIGIN_REQUIRED"}

Checks == BOOLEAN \X Codes

IsTable(checks) == checks \in Seq(Checks)

Passes(checks) == \A i \in DOMAIN checks : ~ checks[i][1]

\* A key the checks take: the public account key of the declared account.
GoodKey(m, network) ==
  /\ Decodes(m)
  /\ m.version \in (IF network = "MAINNET" THEN {"xpub", "zpub"} ELSE {"tpub", "vpub"})
  /\ m.depth = 3
  /\ m.child = m.account

\* A set of numbers that is not empty has a least one.
LEMMA MinIsIn ==
  ASSUME NEW S \in SUBSET Nat, S # {}
  PROVE Min(S) \in S
<1> DEFINE less == {pair \in Nat \X Nat : pair[1] < pair[2]}
<1>1. IsWellFoundedOn(less, Nat)
  BY NatLessThanWellFounded, Zenon DEF OpToRel
<1>2. \A j, k \in Nat : <<j, k>> \in less <=> j < k
  OBVIOUS
<1> HIDE DEF less
<1>3. PICK n \in S : \A k \in S : ~ (<<k, n>> \in less)
  BY <1>1, WFMin
<1>4. \A j, k \in Nat : ~ (j < k) => k <= j
  OBVIOUS
<1>5. \A k \in S : n <= k
  BY <1>2, <1>3, <1>4
<1> QED BY <1>5 DEF Min

\* The verdict of a table is "OK" exactly if none of its checks fails.
LEMMA FirstFailureIs ==
  ASSUME NEW checks, IsTable(checks)
  PROVE FirstFailure(checks) = "OK" <=> Passes(checks)
<1> DEFINE failing == {i \in DOMAIN checks : checks[i][1]}
<1>1. CASE failing = {}
  BY <1>1 DEF FirstFailure, Passes
<1>2. CASE failing # {}
  <2>1. failing \subseteq Nat
    BY DEF IsTable
  <2>2. Min(failing) \in failing
    BY <1>2, <2>1, MinIsIn
  <2>3. FirstFailure(checks) = checks[Min(failing)][2]
    BY <1>2 DEF FirstFailure
  <2>4. checks[Min(failing)] \in Checks
    BY <2>2 DEF IsTable
  <2>5. checks[Min(failing)][2] # "OK"
    BY <2>4 DEF Checks, Codes
  <2> QED BY <1>2, <2>3, <2>5 DEF Passes
<1> QED BY <1>1, <1>2

\* One table after another passes if both do.
LEMMA BothPass ==
  ASSUME NEW first, NEW second, IsTable(first), IsTable(second)
  PROVE /\ IsTable(first \o second)
        /\ Passes(first \o second) <=> Passes(first) /\ Passes(second)
<1> DEFINE both == first \o second
<1>1. /\ both \in Seq(Checks)
      /\ Len(both) = Len(first) + Len(second)
      /\ \A i \in 1 .. Len(both) :
           both[i] = IF i <= Len(first) THEN first[i] ELSE second[i - Len(first)]
  BY ConcatProperties DEF IsTable
<1>2. /\ DOMAIN both = 1 .. Len(both) /\ DOMAIN first = 1 .. Len(first)
      /\ DOMAIN second = 1 .. Len(second) /\ Len(first) \in Nat /\ Len(second) \in Nat
  BY <1>1, LenProperties DEF IsTable
<1>3. \A i \in DOMAIN first : i \in DOMAIN both /\ both[i] = first[i]
  BY <1>1, <1>2
<1>4. \A i \in DOMAIN second :
        i + Len(first) \in DOMAIN both /\ both[i + Len(first)] = second[i]
  BY <1>1, <1>2
<1>5. \A i \in DOMAIN both :
        \/ i \in DOMAIN first
        \/ i - Len(first) \in DOMAIN second /\ both[i] = second[i - Len(first)]
  BY <1>1, <1>2
<1> HIDE DEF both
<1>6. IsTable(both)
  BY <1>1, <1>3, <1>5 DEF IsTable
<1>7. Passes(both) <=> Passes(first) /\ Passes(second)
  BY <1>3, <1>4, <1>5 DEF Passes
<1> QED BY <1>6, <1>7 DEF both

\* The checks of the key accept the public account key of the declared account,
\* for the network.
LEMMA KeyChecksAre ==
  ASSUME NEW m, NEW network
  PROVE  LET checks == AccountKeyChecks(m, network)
         IN IsTable(checks) /\ (Passes(checks) <=> GoodKey(m, network))
<1> DEFINE c1 == ~ Decodes(m)
           c2 == m.version \in {"ypub", "upub"}
           c3 == m.version \notin {"xpub", "zpub", "tpub", "vpub"}
           c4 == (CanonicalVersion(m.version) = "xpub") # (network = "MAINNET")
           c5 == m.depth # 3
           c6 == m.child # m.account
           checks == << <<c1, "INPUT_INVALID">>, <<c2, "UNSUPPORTED_SCRIPT">>,
                        <<c3, "INPUT_INVALID">>, <<c4, "NETWORK_MISMATCH">>,
                        <<c5, "INPUT_INVALID">>, <<c6, "INPUT_INVALID">> >>
<1>1. AccountKeyChecks(m, network) = checks
  BY DEF AccountKeyChecks, KeyChecks
<1>2. /\ c1 \in BOOLEAN /\ c2 \in BOOLEAN /\ c3 \in BOOLEAN
      /\ c4 \in BOOLEAN /\ c5 \in BOOLEAN /\ c6 \in BOOLEAN
  BY DEF Decodes
<1>3. ~ c1 /\ ~ c2 /\ ~ c3 /\ ~ c4 /\ ~ c5 /\ ~ c6 <=> GoodKey(m, network)
  <2> DEFINE v == m.version
             mainnet == network = "MAINNET"
  <2>1. c4 <=> ~ ((CanonicalVersion(v) = "xpub") <=> mainnet)
    OBVIOUS
  <2>2. CanonicalVersion(v) = "xpub" <=> v \in {"xpub", "zpub"}
    BY DEF CanonicalVersion
  <2>3. v \in (IF mainnet THEN {"xpub", "zpub"} ELSE {"tpub", "vpub"}) <=>
          /\ v \in {"xpub", "zpub", "tpub", "vpub"}
          /\ v \in {"xpub", "zpub"} <=> mainnet
    OBVIOUS
  <2>4. v \in {"xpub", "zpub", "tpub", "vpub"} => v \notin {"ypub", "upub"}
    OBVIOUS
  <2> QED BY <2>1, <2>2, <2>3, <2>4 DEF GoodKey
<1> HIDE DEF c1, c2, c3, c4, c5, c6
<1>4. IsTable(checks) /\ (Passes(checks) <=> ~ c1 /\ ~ c2 /\ ~ c3 /\ ~ c4 /\ ~ c5 /\ ~ c6)
  <2>1. /\ <<c1, "INPUT_INVALID">> \in Checks
        /\ <<c2, "UNSUPPORTED_SCRIPT">> \in Checks
        /\ <<c3, "INPUT_INVALID">> \in Checks
        /\ <<c4, "NETWORK_MISMATCH">> \in Checks
        /\ <<c5, "INPUT_INVALID">> \in Checks
        /\ <<c6, "INPUT_INVALID">> \in Checks
    BY <1>2 DEF Checks, Codes
  <2>2. checks \in Seq(Checks) /\ Len(checks) = 6
    BY <2>1
  <2>3. DOMAIN checks = 1 .. 6
    BY <2>2, LenProperties
  <2>4. /\ checks[1][1] = c1
        /\ checks[2][1] = c2
        /\ checks[3][1] = c3
        /\ checks[4][1] = c4
        /\ checks[5][1] = c5
        /\ checks[6][1] = c6
    OBVIOUS
  <2> QED BY <2>2, <2>3, <2>4 DEF IsTable, Passes
<1> QED BY <1>1, <1>3, <1>4

\* What comes before the key in a descriptor is that of its receive chain.
LEMMA DescriptorChecksAre ==
  ASSUME NEW m, NEW network
  PROVE  FirstFailure(DescriptorChecks(m, network)) = "OK" <=>
           /\ m.checksum # "malformed"
           /\ m.script \notin {"other", "broken", "nested"}
           /\ m.origin \notin {"none", "short"}
           /\ m.fingerprint # NoValue
           /\ IsHardened(m.account)
           /\ m.purpose = 84 /\ m.coin = ExpectedCoin(network) /\ m.chain = "/0/*"
           /\ GoodKey(m, network)
<1> DEFINE c1 == m.checksum = "malformed"
           c2 == m.script = "other"
           c3 == m.script = "broken"
           c4 == m.script = "nested"
           c5 == m.origin = "none"
           c6 == m.origin = "short"
           c7 == m.fingerprint = NoValue
           c8 == ~ IsHardened(m.account)
           c9 == m.purpose # 84
           c10 == m.coin # ExpectedCoin(network)
           c11 == m.chain # "/0/*"
           checks == << <<c1, "CHECKSUM_INVALID">>, <<c2, "UNSUPPORTED_SCRIPT">>,
                        <<c3, "INPUT_INVALID">>, <<c4, "UNSUPPORTED_SCRIPT">>,
                        <<c5, "KEY_ORIGIN_REQUIRED">>, <<c6, "INPUT_INVALID">>,
                        <<c7, "INPUT_INVALID">>, <<c8, "INPUT_INVALID">>,
                        <<c9, "UNSUPPORTED_SCRIPT">>, <<c10, "NETWORK_MISMATCH">>,
                        <<c11, "UNSUPPORTED_SCRIPT">> >>
           keyChecks == AccountKeyChecks(m, network)
<1>1. DescriptorChecks(m, network) = checks \o keyChecks
  BY DEF DescriptorChecks
<1>2. /\ c1 \in BOOLEAN /\ c2 \in BOOLEAN /\ c3 \in BOOLEAN /\ c4 \in BOOLEAN
      /\ c5 \in BOOLEAN /\ c6 \in BOOLEAN /\ c7 \in BOOLEAN /\ c8 \in BOOLEAN
      /\ c9 \in BOOLEAN /\ c10 \in BOOLEAN /\ c11 \in BOOLEAN
  BY DEF IsHardened
<1> HIDE DEF c1, c2, c3, c4, c5, c6, c7, c8, c9, c10, c11
<1>3. IsTable(checks) /\ (Passes(checks) <=> ~ c1 /\ ~ c2 /\ ~ c3 /\ ~ c4 /\ ~ c5 /\ ~ c6
      /\ ~ c7 /\ ~ c8 /\ ~ c9 /\ ~ c10 /\ ~ c11)
  <2>1. /\ <<c1, "CHECKSUM_INVALID">> \in Checks
        /\ <<c2, "UNSUPPORTED_SCRIPT">> \in Checks
        /\ <<c3, "INPUT_INVALID">> \in Checks
        /\ <<c4, "UNSUPPORTED_SCRIPT">> \in Checks
        /\ <<c5, "KEY_ORIGIN_REQUIRED">> \in Checks
        /\ <<c6, "INPUT_INVALID">> \in Checks
        /\ <<c7, "INPUT_INVALID">> \in Checks
        /\ <<c8, "INPUT_INVALID">> \in Checks
        /\ <<c9, "UNSUPPORTED_SCRIPT">> \in Checks
        /\ <<c10, "NETWORK_MISMATCH">> \in Checks
        /\ <<c11, "UNSUPPORTED_SCRIPT">> \in Checks
    BY <1>2 DEF Checks, Codes
  <2>2. checks \in Seq(Checks) /\ Len(checks) = 11
    BY <2>1
  <2>3. DOMAIN checks = 1 .. 11
    BY <2>2, LenProperties
  <2>4. /\ checks[1][1] = c1
        /\ checks[2][1] = c2
        /\ checks[3][1] = c3
        /\ checks[4][1] = c4
        /\ checks[5][1] = c5
        /\ checks[6][1] = c6
        /\ checks[7][1] = c7
        /\ checks[8][1] = c8
        /\ checks[9][1] = c9
        /\ checks[10][1] = c10
        /\ checks[11][1] = c11
    OBVIOUS
  <2> QED BY <2>2, <2>3, <2>4 DEF IsTable, Passes
<1> HIDE DEF checks, keyChecks
<1>4. IsTable(keyChecks) /\ (Passes(keyChecks) <=> GoodKey(m, network))
  BY KeyChecksAre DEF keyChecks
<1>5. FirstFailure(checks \o keyChecks) = "OK" <=> Passes(checks) /\ Passes(keyChecks)
  BY <1>3, <1>4, BothPass, FirstFailureIs
<1> QED BY <1>1, <1>3, <1>4, <1>5 DEF c1, c2, c3, c4, c5, c6, c7, c8, c9, c10, c11

\* A bare key comes without an origin of its own, with fingerprint and account.
LEMMA BareKeyChecksAre ==
  ASSUME NEW m, NEW network
  PROVE  FirstFailure(BareKeyChecks(m, network)) = "OK" <=>
           /\ m.origin = "full"
           /\ m.fingerprint # NoValue
           /\ IsHardened(m.account)
           /\ GoodKey(m, network)
<1> DEFINE c1 == m.origin # "full"
           c2 == m.fingerprint = NoValue
           c3 == ~ IsHardened(m.account)
           checks == << <<c1, "KEY_ORIGIN_REQUIRED">>, <<c2, "INPUT_INVALID">>,
                        <<c3, "INPUT_INVALID">> >>
           keyChecks == AccountKeyChecks(m, network)
<1>1. BareKeyChecks(m, network) = checks \o keyChecks
  BY DEF BareKeyChecks
<1>2. c1 \in BOOLEAN /\ c2 \in BOOLEAN /\ c3 \in BOOLEAN
  BY DEF IsHardened
<1> HIDE DEF c1, c2, c3
<1>3. IsTable(checks) /\ (Passes(checks) <=> ~ c1 /\ ~ c2 /\ ~ c3)
  <2>1. /\ <<c1, "KEY_ORIGIN_REQUIRED">> \in Checks
        /\ <<c2, "INPUT_INVALID">> \in Checks
        /\ <<c3, "INPUT_INVALID">> \in Checks
    BY <1>2 DEF Checks, Codes
  <2>2. checks \in Seq(Checks) /\ Len(checks) = 3
    BY <2>1
  <2>3. DOMAIN checks = 1 .. 3
    BY <2>2, LenProperties
  <2>4. /\ checks[1][1] = c1
        /\ checks[2][1] = c2
        /\ checks[3][1] = c3
    OBVIOUS
  <2> QED BY <2>2, <2>3, <2>4 DEF IsTable, Passes
<1> HIDE DEF checks, keyChecks
<1>4. IsTable(keyChecks) /\ (Passes(keyChecks) <=> GoodKey(m, network))
  BY KeyChecksAre DEF keyChecks
<1>5. FirstFailure(checks \o keyChecks) = "OK" <=> Passes(checks) /\ Passes(keyChecks)
  BY <1>3, <1>4, BothPass, FirstFailureIs
<1> QED BY <1>1, <1>3, <1>4, <1>5 DEF c1, c2, c3

\* A descriptor or key that parses and has no secret is judged by its table.
LEMMA VerdictIs ==
  ASSUME NEW m, NEW network
  PROVE  Verdict(m, network) = "OK" <=>
           /\ m.secret = "none"
           /\ \/ m.form = "descriptor" /\ FirstFailure(DescriptorChecks(m, network)) = "OK"
              \/ m.form = "key" /\ FirstFailure(BareKeyChecks(m, network)) = "OK"
<1>1. CASE m.secret # "none"
  BY <1>1 DEF Verdict
<1>2. CASE m.secret = "none"
  <2>1. CASE m.form = "descriptor"
    BY <1>2, <2>1 DEF Verdict
  <2>2. CASE m.form = "key"
    BY <1>2, <2>2 DEF Verdict
  <2>3. CASE m.form \notin {"descriptor", "key"}
    BY <1>2, <2>3 DEF Verdict
  <2> QED BY <2>1, <2>2, <2>3
<1> QED BY <1>1, <1>2

\* A material whose script, origin and encoding are of those there are, and
\* whose account is any number: the other features may be anything.
IsMaterial(m) ==
  /\ m.script \in Values.script
  /\ m.origin \in Values.origin
  /\ m.encoding \in Values.encoding
  /\ m.account \in Nat

\* What is accepted is a receive chain of the network, whatever the material.
LEMMA AcceptedIsReceiveChain ==
  ASSUME NEW m, IsMaterial(m), NEW network
  PROVE  Verdict(m, network) = "OK" => IsReceiveChain(m, network)
<1>1. IsHardened(m.account) => m.account < HardenedLimit
  BY DEF IsMaterial, Values, IsHardened, HardenedLimit
<1>2. Decodes(m) => m.encoding = "good"
  BY DEF IsMaterial, Values, Decodes
<1>3. m.script \notin {"other", "broken", "nested"} => m.script = "wpkh"
  BY DEF IsMaterial, Values
<1>4. m.origin \notin {"none", "short"} => m.origin = "full"
  BY DEF IsMaterial, Values
<1>5. GoodKey(m, network) =>
        /\ Decodes(m) /\ m.depth = 3 /\ m.child = m.account
        /\ m.version \in (IF network = "MAINNET" THEN {"xpub", "zpub"} ELSE {"tpub", "vpub"})
  BY DEF GoodKey
<1> SUFFICES ASSUME Verdict(m, network) = "OK"
             PROVE  IsReceiveChain(m, network)
  OBVIOUS
<1>6. CASE m.form = "descriptor"
  <2>1. FirstFailure(DescriptorChecks(m, network)) = "OK" /\ m.secret = "none"
    BY <1>6, VerdictIs
  <2> QED BY <1>1, <1>2, <1>3, <1>4, <1>5, <1>6, <2>1, DescriptorChecksAre DEF IsReceiveChain
<1>7. CASE m.form = "key"
  <2>1. FirstFailure(BareKeyChecks(m, network)) = "OK" /\ m.secret = "none"
    BY <1>7, VerdictIs
  <2> QED BY <1>1, <1>2, <1>5, <1>7, <2>1, BareKeyChecksAre DEF IsReceiveChain
<1> QED BY <1>6, <1>7, VerdictIs

\* And a receive chain of the network is accepted: no check asks for more.
LEMMA ReceiveChainIsAccepted ==
  ASSUME NEW m, IsMaterial(m), NEW network,
         IsReceiveChain(m, network), m.checksum = "none"
  PROVE  Accepted(m, network)
<1>1. IsHardened(m.account)
  BY DEF IsMaterial, Values, IsReceiveChain, IsHardened, HardenedLimit
<1>2. GoodKey(m, network)
  BY DEF IsReceiveChain, GoodKey, Decodes
<1>3. CASE m.form = "descriptor"
  <2>1. FirstFailure(DescriptorChecks(m, network)) = "OK"
    BY <1>1, <1>2, <1>3, DescriptorChecksAre DEF IsReceiveChain
  <2>2. Verdict(m, network) = "OK"
    BY <1>3, <2>1, VerdictIs DEF IsReceiveChain
  <2> QED BY <1>3, <2>2 DEF Accepted, CoreAccepts, SentChecksum
<1>4. CASE m.form = "key"
  <2>1. FirstFailure(BareKeyChecks(m, network)) = "OK"
    BY <1>1, <1>2, <1>4, BareKeyChecksAre DEF IsReceiveChain
  <2>2. Verdict(m, network) = "OK"
    BY <1>4, <2>1, VerdictIs DEF IsReceiveChain
  <2> QED BY <1>4, <2>2 DEF Accepted, CoreAccepts, SentChecksum
<1> QED BY <1>3, <1>4 DEF IsReceiveChain

\* A record with one feature replaced has the other ones as they were.
LEMMA OneReplaced ==
  ASSUME NEW r, NEW f \in DOMAIN r, NEW x
  PROVE  /\ DOMAIN [r EXCEPT ![f] = x] = DOMAIN r
         /\ \A g \in DOMAIN r : [r EXCEPT ![f] = x][g] = IF g = f THEN x ELSE r[g]
OBVIOUS

\* The materials of the instance are materials.
LEMMA MaterialsAre == \A m \in Materials : IsMaterial(m)
<1> SUFFICES ASSUME NEW f \in Features, NEW g \in Features, NEW h \in Features,
                    NEW x \in Values[f], NEW y \in Values[g], NEW z \in Values[h]
             PROVE  IsMaterial([Plain EXCEPT ![f] = x, ![g] = y, ![h] = z])
  BY DEF Materials
<1> DEFINE one == [Plain EXCEPT ![f] = x]
           two == [one EXCEPT ![g] = y]
           three == [two EXCEPT ![h] = z]
<1>1. Features \subseteq DOMAIN Plain
  BY DEF Features, Values, Plain
<1>2. DOMAIN one = DOMAIN Plain /\ \A e \in Features : one[e] = IF e = f THEN x ELSE Plain[e]
  BY <1>1, OneReplaced
<1> HIDE DEF one
<1>3. DOMAIN two = DOMAIN Plain /\ \A e \in Features : two[e] = IF e = g THEN y ELSE one[e]
  BY <1>1, <1>2, OneReplaced
<1> HIDE DEF two
<1>4. \A e \in Features : three[e] = IF e = h THEN z ELSE two[e]
  BY <1>1, <1>3, OneReplaced
<1> HIDE DEF three
<1>5. \A e \in Features : Plain[e] \in Values[e] => three[e] \in Values[e]
  BY <1>2, <1>3, <1>4
<1>6. /\ "script" \in Features /\ "origin" \in Features
      /\ "encoding" \in Features /\ "account" \in Features
  BY DEF Features, Values
<1>7. /\ Plain["script"] \in Values["script"] /\ Plain["origin"] \in Values["origin"]
      /\ Plain["encoding"] \in Values["encoding"] /\ Plain["account"] \in Values["account"]
  BY DEF Plain, Values, HardenedLimit
<1>8. Values["account"] \subseteq Nat
  BY DEF Values, HardenedLimit
<1>9. IsMaterial(three)
  BY <1>5, <1>6, <1>7, <1>8 DEF IsMaterial
<1> QED BY <1>9 DEF three, two, one

\* The checks accept the receive chains of a network and nothing else, name a
\* secret as such, and keep to a checksum that was supplied.
THEOREM OnlyReceiveChains == MCSpec => []AcceptsReceiveChains
<1>1. judged \in Materials => AcceptsReceiveChains
  <2> SUFFICES ASSUME judged \in Materials, NEW network \in {"MAINNET", "SIGNET"}
               PROVE
        /\ Accepted(judged, network) => IsReceiveChain(judged, network)
        /\ IsReceiveChain(judged, network) /\ judged.checksum = "none" => Accepted(judged, network)
        /\ judged.secret # "none" => Verdict(judged, network) = "PRIVATE_MATERIAL_REJECTED"
        /\ Accepted(judged, network) /\ judged.form = "descriptor" /\ judged.checksum # "none" =>
             SameText(judged, judged.checksum, SentBody(judged))
    BY DEF AcceptsReceiveChains
  <2>1. IsMaterial(judged)
    BY MaterialsAre
  <2>2. Accepted(judged, network) => IsReceiveChain(judged, network)
    BY <2>1, AcceptedIsReceiveChain DEF Accepted
  <2>3. IsReceiveChain(judged, network) /\ judged.checksum = "none" => Accepted(judged, network)
    BY <2>1, ReceiveChainIsAccepted
  <2>4. judged.secret # "none" => Verdict(judged, network) = "PRIVATE_MATERIAL_REJECTED"
    BY DEF Verdict
  <2>5. Accepted(judged, network) /\ judged.form = "descriptor" /\ judged.checksum # "none" =>
          SameText(judged, judged.checksum, SentBody(judged))
    BY DEF Accepted, CoreAccepts, SentChecksum
  <2> QED BY <2>2, <2>3, <2>4, <2>5
<1>2. MCInit => judged \in Materials
  BY DEF MCInit
<1>3. judged \in Materials /\ [MCNext]_MCVars => (judged \in Materials)'
  BY DEF MCNext, MCVars
<1> QED BY <1>1, <1>2, <1>3, PTL DEF MCSpec

=============================================================================
