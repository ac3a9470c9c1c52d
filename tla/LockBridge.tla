----------------------------- MODULE LockBridge -----------------------------
(***************************************************************************)
(* What the accounts pallet and its off-chain workers promise together:    *)
(* the locks of an Ethereum contract, seen from Clamor.  Nothing is said   *)
(* of votes, keys, workers or pools.                                       *)
(***************************************************************************)
EXTENDS Naturals

CONSTANTS
    EthKeys,           \* keys that lock
    Events,            \* the logs of the contract
    EthConfirmations,  \* depth from which on a log is final
    None               \* nothing was ever locked

VARIABLES
    head,      \* number of the last Ethereum block
    effected,  \* logs that took effect on Clamor
    locked     \* key -> what Clamor takes it to have locked

bridgeVars == <<head, effected, locked>>

BridgeInit ==
    /\ head = 0
    /\ effected = {}
    /\ locked = [k \in EthKeys |-> None]

Advance ==
    /\ head' = head + 1
    /\ UNCHANGED <<effected, locked>>

(* A log that is final and signed by the key itself takes effect, once. *)
TakeEffect(e) ==
    /\ e \notin effected
    /\ e.signer = e.sender
    /\ e.block_number + EthConfirmations <= head
    /\ effected' = effected \cup {e}
    /\ locked' = [locked EXCEPT ![e.sender] = e.amount]
    /\ UNCHANGED head

BridgeNext == Advance \/ \E e \in Events : TakeEffect(e)

BridgeSpec == BridgeInit /\ [][BridgeNext]_bridgeVars

=============================================================================
