----------------------------- MODULE Descriptor -----------------------------
(***************************************************************************)
(* What wallet material onboarding accepts. Text is abstracted to what the *)
(* checks tell apart: a material is a record of the features they look     *)
(* for, all present in every record, and the checks are tables in the      *)
(* order of the code, whose first failing entry names the answer.          *)
(*                                                                         *)
(*   form         "descriptor", "key" or "other"                           *)
(*   secret       "none", "marker" (an xprv or the like) or "words"        *)
(*   script       "wpkh", "other" (pkh, wsh, ...), "nested" or "broken"    *)
(*   origin       "full", "none" or "short": [fingerprint/84h/coin/account]*)
(*   fingerprint, purpose, coin, account                                   *)
(*                the origin's elements; of a bare key, the separate inputs*)
(*   chain        "/0/*" or "other"                                        *)
(*   encoding     "good", or what base58check finds wrong with it          *)
(*   version, depth, child                                                 *)
(*                what the key itself says; child as an account, if hardened*)
(*   spelling     "canonical", or "variant": 84' for 84h, upper case       *)
(*   checksum     "none", "malformed", or the text it is the checksum of:  *)
(*                "given", "canonical" or "stray"                          *)
(*   key          the public key the material stands for                   *)
(***************************************************************************)
EXTENDS Integers, Sequences, FiniteSetsExt

Networks == {"MAINNET", "TESTNET", "SIGNET", "REGTEST"}
HardenedLimit == 2     \* 2^31: an account at or above it is no index
NoValue == -1

\* The first check of the table that fails, or "OK".
FirstFailure(checks) ==
  LET failing == {i \in DOMAIN checks : checks[i][1]}
  IN IF failing = {} THEN "OK" ELSE checks[Min(failing)][2]

ExpectedCoin(network) == IF network = "MAINNET" THEN 0 ELSE 1

CanonicalVersion(version) ==
  CASE version \in {"xpub", "zpub"} -> "xpub"
    [] version \in {"tpub", "vpub"} -> "tpub"
    [] OTHER -> version

\* decodeBase58Check, and the length of what it returns.
Decodes(m) == m.encoding \notin {"alphabet", "short", "checksum", "length"}

\* parseExtendedPublicKey and assertAccountLevelKey, for the declared account.
KeyChecks(m, network) ==
  << <<~ Decodes(m), "INPUT_INVALID">>,
     <<m.version \in {"ypub", "upub"}, "UNSUPPORTED_SCRIPT">>,
     <<m.version \notin {"xpub", "zpub", "tpub", "vpub"}, "INPUT_INVALID">>,
     <<(CanonicalVersion(m.version) = "xpub") # (network = "MAINNET"), "NETWORK_MISMATCH">>,
     <<m.depth # 3, "INPUT_INVALID">>,
     <<m.child # m.account, "INPUT_INVALID">> >>

\* Mutant: the key's own child number is not held against the account.
KeyChecksShallow(m, network) == SubSeq(KeyChecks(m, network), 1, 5)

AccountKeyChecks(m, network) == KeyChecks(m, network)

\* parseHardenedElement and validateAccount: an index below 2^31.
IsHardened(element) == element \in 0 .. HardenedLimit - 1

\* normalizeDescriptorInput
DescriptorChecks(m, network) ==
  << <<m.checksum = "malformed", "CHECKSUM_INVALID">>,
     <<m.script = "other", "UNSUPPORTED_SCRIPT">>,
     <<m.script = "broken", "INPUT_INVALID">>,
     <<m.script = "nested", "UNSUPPORTED_SCRIPT">>,
     <<m.origin = "none", "KEY_ORIGIN_REQUIRED">>,
     <<m.origin = "short", "INPUT_INVALID">>,
     <<m.fingerprint = NoValue, "INPUT_INVALID">>,
     <<~ IsHardened(m.account), "INPUT_INVALID">>,
     <<m.purpose # 84, "UNSUPPORTED_SCRIPT">>,
     <<m.coin # ExpectedCoin(network), "NETWORK_MISMATCH">>,
     <<m.chain # "/0/*", "UNSUPPORTED_SCRIPT">> >>
  \o AccountKeyChecks(m, network)

\* normalizeBareKeyInput: fingerprint and account come with the request.
BareKeyChecks(m, network) ==
  << <<m.origin # "full", "KEY_ORIGIN_REQUIRED">>,
     <<m.fingerprint = NoValue, "INPUT_INVALID">>,
     <<~ IsHardened(m.account), "INPUT_INVALID">> >>
  \o AccountKeyChecks(m, network)

\* normalizeOnboardingInput: "OK", or the code of the DescriptorError.
Verdict(m, network) ==
  IF m.secret # "none" THEN "PRIVATE_MATERIAL_REJECTED"
  ELSE CASE m.form = "descriptor" -> FirstFailure(DescriptorChecks(m, network))
         [] m.form = "key" -> FirstFailure(BareKeyChecks(m, network))
         [] OTHER -> "INPUT_INVALID"

\* A zpub or vpub is rewritten, and a bare key is put into a descriptor.
Rewritten(m) == m.form = "key" \/ CanonicalVersion(m.version) # m.version

\* descriptorForValidation: its body, and the checksum attached to it.
SentBody(m) == IF Rewritten(m) THEN "canonical" ELSE "given"

SentChecksum(m) == IF m.form = "key" THEN "none" ELSE m.checksum

SameText(m, x, y) ==
  x = y \/ (m.spelling = "canonical" /\ ~ Rewritten(m) /\ {x, y} = {"given", "canonical"})

\* getdescriptorinfo, as getDescriptorInfo uses it: it takes what parses, and
\* refuses a checksum that is not the one of the text before it.
CoreAccepts(m) ==
  SentChecksum(m) = "none" \/ SameText(m, SentChecksum(m), SentBody(m))

Accepted(m, network) == Verdict(m, network) = "OK" /\ CoreAccepts(m)

\* The canonical descriptor that is stored: its text without the checksum.
CanonicalDescriptor(m) ==
  [fingerprint |-> m.fingerprint, account |-> m.account, key |-> m.key]

\* chainToNetwork
ChainToNetwork(chain) ==
  CASE chain = "main" -> "MAINNET"
    [] chain = "test" -> "TESTNET"
    [] chain = "signet" -> "SIGNET"
    [] chain = "regtest" -> "REGTEST"
    [] OTHER -> "none"

-----------------------------------------------------------------------------
(* The inputs the checks are tried on, and what they must come to. *)

\* For each feature its values.
Values ==
  [form |-> {"descriptor", "key", "other"}, secret |-> {"none", "marker", "words"},
   script |-> {"wpkh", "other", "nested", "broken"},
   origin |-> {"full", "none", "short"},
   fingerprint |-> {NoValue, 1}, purpose |-> {84, 49}, coin |-> {0, 1},
   account |-> 0 .. HardenedLimit, chain |-> {"/0/*", "other"},
   encoding |-> {"good", "alphabet", "short", "checksum", "length"},
   version |-> {"xpub", "zpub", "tpub", "vpub", "ypub", "upub", "unknown"},
   depth |-> 2 .. 4, child |-> {NoValue} \cup 0 .. HardenedLimit,
   spelling |-> {"canonical", "variant"},
   checksum |-> {"none", "malformed", "given", "canonical", "stray"}]

\* A descriptor every check accepts.
Plain ==
  [form |-> "descriptor", secret |-> "none", script |-> "wpkh", origin |-> "full",
   fingerprint |-> 1, purpose |-> 84, coin |-> 0, account |-> 0, chain |-> "/0/*",
   encoding |-> "good", version |-> "xpub", depth |-> 3, child |-> 0,
   spelling |-> "canonical", checksum |-> "none", key |-> 1]

Features == DOMAIN Values

\* All that differ from it in at most three features.
Materials ==
  UNION {{[Plain EXCEPT ![f] = x, ![g] = y, ![h] = z] :
            x \in Values[f], y \in Values[g], z \in Values[h]} :
         f, g, h \in Features}

\* The public account key of the declared account, for the network, as a receive
\* chain of its own, or with all that is needed to make it one.
IsReceiveChain(m, network) ==
  /\ m.secret = "none"
  /\ m.encoding = "good"
  /\ m.version \in (IF network = "MAINNET" THEN {"xpub", "zpub"} ELSE {"tpub", "vpub"})
  /\ m.depth = 3
  /\ m.child = m.account /\ m.account < HardenedLimit
  /\ m.origin = "full" /\ m.fingerprint # NoValue
  /\ \/ m.form = "key"
     \/ /\ m.form = "descriptor"
        /\ m.script = "wpkh" /\ m.chain = "/0/*"
        /\ m.purpose = 84 /\ m.coin = ExpectedCoin(network)

=============================================================================
