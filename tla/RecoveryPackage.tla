--------------------------- MODULE RecoveryPackage ---------------------------
(***************************************************************************)
(* packages/recovery: a payload is validated, canonicalised and signed,    *)
(* the package is kept somewhere, where any part of it may change, and is  *)
(* verified offline against keys the verifier trusts.                      *)
(*                                                                         *)
(* The texts of a wallet version (descriptor, checksum, fingerprint, path, *)
(* script type, first address) are one field; order is the order in which  *)
(* the JSON text happens to list its keys, and extra a property the schema *)
(* does not know. A signature is the key and the bytes it was made from.   *)
(***************************************************************************)
EXTENDS Integers, Sequences, FiniteSets

CONSTANTS
  KeyOf,        \* the caller's keys by key_id: the signer's and the resolver's
  NullIndex,
  NoPackage,
  MAX_BIP32_NON_HARDENED_INDEX,
  MaxSigned, MaxAlterations   \* bounds

ASSUME RecoveryAssumption == MAX_BIP32_NON_HARDENED_INDEX \in Nat \ {0}

VARIABLES
  signed,       \* what was signed: a key and the payload it was given
  package,      \* the package at hand
  alterations   \* how many changes were made to it

recoveryVars == <<signed, package, alterations>>

NETWORKS == {"mainnet", "testnet", "signet", "regtest"}
Blank == "blank"
Private == "private"    \* an extended private key in a text

-----------------------------------------------------------------------------
(* validation.ts *)

IsBip32Index(n) == n \in 0 .. MAX_BIP32_NON_HARDENED_INDEX
IndexOrNull(n) == n = NullIndex \/ IsBip32Index(n)
ValidRange(r) == IsBip32Index(r.start) /\ IsBip32Index(r.end) /\ r.start <= r.end
ValidTime(t) == t # "not UTC"

\* scanForPrivateMaterial, through the whole payload.
HasPrivateMaterial(p) ==
  \/ p.extra = "secret"
  \/ p.texts = Private
  \/ \E i \in DOMAIN p.history : p.history[i].texts = Private

ValidRotationEntry(e) ==
  /\ e.version >= 0
  /\ e.texts # Blank
  /\ IndexOrNull(e.allocated) /\ IndexOrNull(e.funded)
  /\ ValidRange(e.range)
  /\ ValidTime(e.rotated)

ValidPayload(p) ==
  /\ ~ HasPrivateMaterial(p)
  /\ p.extra = "none"
  /\ p.schema = 1
  /\ p.network \in NETWORKS
  /\ \A i \in DOMAIN p.history : ValidRotationEntry(p.history[i])
  /\ p.texts # Blank
  /\ IndexOrNull(p.allocated) /\ IndexOrNull(p.funded)
  /\ ValidRange(p.range)
  /\ IsBip32Index(p.gap)
  /\ ValidTime(p.generated)

\* The copy lists its keys in the order of the source code.
Copy(p) == [p EXCEPT !.order = "source"]

\* Mutant: what is canonical is sorted all the way, the history too.
CanonicalSorted(p) ==
  [p EXCEPT !.order = "sorted", !.history = {@[i] : i \in DOMAIN @}]

\* RFC 8785: the keys are sorted, arrays are not.
Canonical(p) == [p EXCEPT !.order = "sorted"]

ValidSignature(s) ==
  /\ s.algorithm = "Ed25519"
  /\ s.key_id # Blank
  /\ s.encoding # "not Base64"

-----------------------------------------------------------------------------
(* signRecoveryPackage and verifyRecoveryPackage *)

SignedBy(k, p) ==
  [payload |-> Copy(p),
   signature |-> [algorithm |-> "Ed25519", key_id |-> k, encoding |-> "strict",
                  key |-> KeyOf[k], message |-> Canonical(Copy(p))],
   extra |-> FALSE]

\* The signature's bytes are the same whichever padding their Base64 has.
Verifies(x) ==
  /\ ~ x.extra
  /\ ValidSignature(x.signature)
  /\ ValidPayload(x.payload)
  /\ x.signature.key_id \in DOMAIN KeyOf
  /\ x.signature.encoding \in {"strict", "padding"}
  /\ x.signature.key = KeyOf[x.signature.key_id]
  /\ x.signature.message = Canonical(Copy(x.payload))

-----------------------------------------------------------------------------
(* The ways of a package *)

Version(n) ==
  [version |-> n, texts |-> "wallet", allocated |-> 1, funded |-> 0,
   range |-> [start |-> 0, end |-> 1], rotated |-> "time"]

Payload ==
  [schema |-> 1, network |-> "mainnet", texts |-> "wallet", allocated |-> 1,
   funded |-> NullIndex, range |-> [start |-> 0, end |-> 1], gap |-> 1,
   history |-> <<Version(0), Version(1)>>, generated |-> "time",
   extra |-> "none", order |-> "source"]

\* Other values of a field, good and bad.
Others(f) ==
  LET last == MAX_BIP32_NON_HARDENED_INDEX
  IN CASE f = "schema" -> {2}
       [] f = "network" -> {"testnet", "elsewhere"}
       [] f = "texts" -> {"another wallet", Blank, Private}
       [] f = "allocated" -> {-1, last, last + 1}
       [] f = "funded" -> {0, last + 1}
       [] f = "range" -> {[start |-> 0, end |-> last], [start |-> 1, end |-> 0],
                          [start |-> 0, end |-> last + 1]}
       [] f = "gap" -> {0, last + 1}
       [] f = "history" -> {<< >>, <<Version(1), Version(0)>>,
                            <<[Version(0) EXCEPT !.texts = Private]>>,
                            <<[Version(0) EXCEPT !.texts = Blank]>>,
                            <<[Version(0) EXCEPT !.range = [start |-> 1, end |-> 0]]>>}
       [] f = "generated" -> {"another time", "not UTC"}
       [] f = "extra" -> {"unknown", "secret"}
       [] f = "order" -> {"another"}

Changed(p) == UNION {{[p EXCEPT ![f] = v] : v \in Others(f)} : f \in DOMAIN p}

InitRecovery == signed = {} /\ package = NoPackage /\ alterations = 0

\* The caller has a payload signed, or it is refused.
SignPackage ==
  /\ Cardinality(signed) < MaxSigned
  /\ \E k \in DOMAIN KeyOf, p \in {Payload} \cup Changed(Payload) :
       /\ k # Blank
       /\ ValidPayload(p)
       /\ signed' = signed \cup {<<KeyOf[k], p>>}
       /\ package' = SignedBy(k, p)
  /\ alterations' = 0

Alters(x) ==
  /\ package # NoPackage
  /\ alterations < MaxAlterations
  /\ package' = x
  /\ alterations' = alterations + 1
  /\ UNCHANGED signed

AlterPayload == \E p \in Changed(package.payload) : Alters([package EXCEPT !.payload = p])

AlterSignature ==
  \/ \E k \in DOMAIN KeyOf \cup {Blank, "unknown"} :
       Alters([package EXCEPT !.signature.key_id = k])
  \/ \E e \in {"padding", "not canonical", "not Base64"} :
       Alters([package EXCEPT !.signature.encoding = e])
  \/ Alters([package EXCEPT !.signature.algorithm = "another"])

\* The signature of another package takes the place of this one's.
SwapSignature ==
  \E s \in signed : Alters([package EXCEPT !.signature.key = s[1],
                                           !.signature.message = Canonical(Copy(s[2]))])

AddProperty == Alters([package EXCEPT !.extra = TRUE])

NextRecovery ==
  \/ SignPackage
  \/ package # NoPackage /\ (AlterPayload \/ AlterSignature \/ SwapSignature \/ AddProperty)

SpecRecovery == InitRecovery /\ [][NextRecovery]_recoveryVars

-----------------------------------------------------------------------------
(* Properties *)

\* The same JSON, whatever the order of its keys.
SameContent(p, q) == [p EXCEPT !.order = q.order] = q

\* What was signed verifies, with its keys in any order; and whatever verifies
\* says what was signed with the key its key_id stands for, down to the order of
\* its rotation history, holds no private material and no range a wallet cannot
\* scan, whatever was changed or mixed on its way.
PackagesAreAuthentic ==
  package # NoPackage =>
    /\ alterations = 0 => Verifies(package) /\ Verifies([package EXCEPT !.payload.order = "another"])
    /\ Verifies(package) =>
         /\ \E s \in signed : /\ s[1] = KeyOf[package.signature.key_id]
                              /\ SameContent(s[2], package.payload)
         /\ package.payload.range.start <= package.payload.range.end
         /\ ~ HasPrivateMaterial(package.payload)

=============================================================================
