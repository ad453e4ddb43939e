------------------------- MODULE MCWalletOnboarding -------------------------
(* Two merchants and two calls at a time. One key is offered plainly, as a   *)
(* zpub with another fingerprint, and with a checksum that is not its own;   *)
(* another one for a network the node is not on. Beside them one material of *)
(* any kind is judged; the merchants move next to the plain one only.        *)
EXTENDS WalletOnboarding

VARIABLE judged   \* a material somebody brings

MCVars == <<vars, judged>>

MCOffered ==
  {[material |-> Plain, network |-> "MAINNET"],
   [material |-> [Plain EXCEPT !.fingerprint = 2, !.version = "zpub"],
    network |-> "MAINNET"],
   [material |-> [Plain EXCEPT !.checksum = "stray"], network |-> "MAINNET"],
   [material |-> [Plain EXCEPT !.version = "tpub", !.coin = 1, !.key = 2], network |-> "SIGNET"]}

MCInit == Init /\ judged \in Materials
MCNext == judged = Plain /\ Next /\ UNCHANGED judged
MCSpec == MCInit /\ [][MCNext]_MCVars

\* The checks of normalizeOnboardingInput accept exactly the receive chains of
\* a network; a secret is named as such whatever else is wrong; and a checksum
\* that was supplied is never dropped: what is accepted with one is what the
\* checksum is of.
AcceptsReceiveChains ==
  \A network \in {"MAINNET", "SIGNET"} :
    /\ Accepted(judged, network) => IsReceiveChain(judged, network)
    /\ IsReceiveChain(judged, network) /\ judged.checksum = "none" => Accepted(judged, network)
    /\ judged.secret # "none" => Verdict(judged, network) = "PRIVATE_MATERIAL_REJECTED"
    /\ Accepted(judged, network) /\ judged.form = "descriptor" /\ judged.checksum # "none" =>
         SameText(judged, judged.checksum, SentBody(judged))

=============================================================================
