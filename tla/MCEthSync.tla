----------------------------- MODULE MCEthSync ------------------------------
(* Instances of EthSync for TLC. *)
EXTENDS EthSync, TLC

CONSTANTS k1, n1, n2, v1, v2, w1, w2

(* A key locks and then unlocks. *)
Locks   == [sender |-> k1, signer |-> k1, lock |-> TRUE, amount |-> 2, block_number |-> 1]
Unlocks == [sender |-> k1, signer |-> k1, lock |-> FALSE, amount |-> 0, block_number |-> 2]
BothLogs == {Locks, Unlocks}
OneContract == <<<<Locks, Unlocks>>>>

(* Two workers of one node, or one worker on each of two nodes. *)
OneNode   == [w \in {w1, w2} |-> n1]
TwoNodes  == w1 :> n1 @@ w2 :> n2
OneKey    == [n \in {n1} |-> v1]
OwnKeys   == n1 :> v1 @@ n2 :> v2

=============================================================================
