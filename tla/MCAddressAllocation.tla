------------------------ MODULE MCAddressAllocation ------------------------
(* Two wallet versions whose descriptors share their account key, so that  *)
(* their addresses collide: two operations of one and one of the other;    *)
(* two intents for their network, one without an amount, and one for       *)
(* another network.                                                        *)
EXTENDS AddressAllocation, TLC

CONSTANTS key, mainnet, testnet, v1, v2, o1, o2, o3

KeysMC == {<<v1, o1>>, <<v1, o2>>, <<v2, o3>>}
KeyOfMC == [v \in Versions |-> key]
NetworkOfMC == [v \in Versions |-> mainnet]
DraftsMC == [network : {mainnet}, amount : 0 .. 2]
            \cup [network : {testnet}, amount : {1}]
Symmetry == Permutations(Calls) \cup Permutations({o1, o2})

=============================================================================
