------------------------------- MODULE EthSync -------------------------------
(***************************************************************************)
(* The off-chain worker of the accounts pallet (pallets/accounts), on top  *)
(* of the pallet itself: after every imported block a node asks its geth   *)
(* for the logs since the block it stored last, votes for each of them     *)
(* with an unsigned transaction, and stores how far it came.               *)
(*                                                                         *)
(* A vote goes to the pool of its own node only (propagate(false)) and is  *)
(* counted when that node authors a block.  A node that stops loses its    *)
(* runs and its pool; the stored block survives.                           *)
(***************************************************************************)
EXTENDS Accounts, Integers

CONSTANTS
    Nodes,             \* nodes with a geth url that author blocks
    Workers,           \* threads that may run the off-chain worker at once
    NodeOf,            \* worker -> the node it runs on
    KeyOf,             \* node -> the key that any_account signs with
    Partners,          \* for each partner contract, its logs in order
    EthConfirmations,  \* Config::EthConfirmations
    MaxHead,           \* bound on the Ethereum chain
    MaxCrashes         \* bound on the stops of nodes

ASSUME WorkersRunOnNodes == NodeOf \in [Workers -> Nodes]
ASSUME NodesHaveKeys     == KeyOf \in [Nodes -> Validators]
ASSUME SyncBounds        == /\ EthConfirmations \in Nat
                            /\ MaxHead \in Nat
                            /\ MaxCrashes \in Nat
(***************************************************************************)
(* A contract is younger than its chain, so no log is in block 0; geth     *)
(* answers with the logs in the order of their blocks; and no key locks    *)
(* the same total twice in one block, which would make two logs one.       *)
(***************************************************************************)
ASSUME PartnersHaveLogs ==
    /\ Partners \in Seq(Seq(Events)) /\ Partners # <<>>
    /\ \A c \in DOMAIN Partners : \A i \in DOMAIN Partners[c] :
         /\ Partners[c][i].block_number > 0
         /\ \A j \in DOMAIN Partners[c] :
              i < j => /\ Partners[c][i] # Partners[c][j]
                       /\ Partners[c][i].block_number <= Partners[c][j].block_number
ASSUME NoneIsNotEmpty == None # {}

VARIABLES
    ethHead,    \* number of the last Ethereum block
    lastBlock,  \* node -> frag_sync_last_block (0 when absent)
    run,        \* worker -> where it is in sync_partner_contracts
    pool,       \* node -> its own votes, in the order they were sent
    sent,       \* history: logs that each node's pool took a vote for
    lost,       \* history: logs a vote of the node went uncounted for
    crashes     \* history: stops of nodes so far

nodeVars == <<lastBlock, run, pool, sent, lost, crashes>>
syncVars == <<ethHead, nodeVars, accountsVars>>

Contracts == DOMAIN Partners
Number(c, i) == Partners[c][i].block_number

(* A worker is about to ask for the head (to = None), to ask for the logs  *)
(* (todo = None), or to vote for the logs whose positions are in todo.     *)
Runs == [contract: Contracts, to: Nat \cup {None},
         todo: {None} \cup SUBSET UNION {DOMAIN Partners[c] : c \in Contracts}]

Fresh(c) == [contract |-> c, to |-> None, todo |-> None]

EthSyncInit ==
    /\ AccountsInit
    /\ ethHead = 0
    /\ lastBlock = [n \in Nodes |-> 0]
    /\ run = [w \in Workers |-> Fresh(1)]
    /\ pool = [n \in Nodes |-> <<>>]
    /\ sent = [n \in Nodes |-> {}]
    /\ lost = [n \in Nodes |-> {}]
    /\ crashes = 0

-----------------------------------------------------------------------------
(* The Ethereum chain grows; what is EthConfirmations deep stays.          *)

MineBlock ==
    /\ ethHead < MaxHead
    /\ ethHead' = ethHead + 1
    /\ UNCHANGED <<nodeVars, accountsVars>>

-----------------------------------------------------------------------------
(* One run of the worker.  After an error it goes on with the next         *)
(* contract, and after the last contract it is over.                       *)

(* The next contract of the run, or the first one of the next run. *)
NextContract(w) ==
    LET c == run[w].contract
    IN  run' = [run EXCEPT ![w] = Fresh(IF c = Len(Partners) THEN 1 ELSE c + 1)]

\* Mutated form: the newest blocks are read as well.
FinalBlockUnconfirmed == ethHead

\* Mutated form: the subtraction does not saturate.
FinalBlockUnsaturated == ethHead - EthConfirmations

(* current_block.saturating_sub(EthConfirmations) *)
FinalBlock == IF ethHead > EthConfirmations THEN ethHead - EthConfirmations ELSE 0

(* eth_blockNumber *)
AskHead(w) ==
    /\ run[w].to = None
    /\ run' = [run EXCEPT ![w].to = FinalBlock]
    /\ UNCHANGED <<ethHead, lastBlock, pool, sent, lost, crashes, accountsVars>>

\* Mutated form: neither block is included.
LogsBetweenExclusive(c, from, to) ==
    {i \in DOMAIN Partners[c] : Number(c, i) > from /\ Number(c, i) < to}

(* The logs of the contract from one block to another, both included. *)
LogsBetween(c, from, to) ==
    {i \in DOMAIN Partners[c] : Number(c, i) >= from /\ Number(c, i) <= to}

(* eth_getLogs from the block that is stored now. *)
AskLogs(w) ==
    /\ run[w].to # None
    /\ run[w].todo = None
    /\ run' = [run EXCEPT ![w].todo =
                 LogsBetween(run[w].contract, lastBlock[NodeOf[w]], run[w].to)]
    /\ UNCHANGED <<ethHead, lastBlock, pool, sent, lost, crashes, accountsVars>>

(* A request or an answer of geth is no good. *)
GethFails(w) ==
    /\ run[w].todo = None
    /\ NextContract(w)
    /\ UNCHANGED <<ethHead, lastBlock, pool, sent, lost, crashes, accountsVars>>

(* The pool takes a vote of a known key that it does not hold yet. *)
PoolTakes(n, e) ==
    /\ KeyOf[n] \in FragKeys
    /\ \A i \in DOMAIN pool[n] : pool[n][i] # e

\* Mutated form: a vote that the pool refuses is passed over.
RefusedGoesOn(w, i) == run' = [run EXCEPT ![w].todo = @ \ {i}]

(* "Failed to send transaction": the run does not store its block. *)
Refused(w, i) == NextContract(w)

\* Mutated form: the logs are taken from the newest to the oldest.
IsNextNewest(todo, i) == i \in todo /\ \A j \in todo : j <= i

(* The logs are taken in the order of the answer. *)
IsNext(todo, i) == i \in todo /\ \A j \in todo : i <= j

SendVote(w) ==
    LET c == run[w].contract
        n == NodeOf[w]
    IN  /\ run[w].todo # None
        /\ \E i \in run[w].todo :
             /\ IsNext(run[w].todo, i)
             /\ \/ /\ PoolTakes(n, Partners[c][i])
                   /\ run' = [run EXCEPT ![w].todo = @ \ {i}]
                   /\ pool' = [pool EXCEPT ![n] = Append(@, Partners[c][i])]
                   /\ sent' = [sent EXCEPT ![n] = @ \cup {Partners[c][i]}]
                \/ /\ ~PoolTakes(n, Partners[c][i])
                   /\ Refused(w, i)
                   /\ UNCHANGED <<pool, sent>>
        /\ UNCHANGED <<ethHead, lastBlock, lost, crashes, accountsVars>>

(* last_block_ref.set, one key for all contracts *)
StoreLastBlock(w) ==
    /\ run[w].todo = {}
    /\ lastBlock' = [lastBlock EXCEPT ![NodeOf[w]] = run[w].to]
    /\ NextContract(w)
    /\ UNCHANGED <<ethHead, pool, sent, lost, crashes, accountsVars>>

-----------------------------------------------------------------------------
(* The pools and the chain.                                                *)

(* What validate_unsigned and the dispatchable ask of an included vote. *)
Counts(n, e) == KeyOf[n] \in FragKeys /\ Open(e) /\ Verified(e)

(***************************************************************************)
(* Node n authors a block with the next vote of its pool: votes have one   *)
(* priority, so the pool gives them out as they came.  One that is refused *)
(* has no effect and is gone like one that was counted.                    *)
(***************************************************************************)
IncludeVote(n) ==
    LET e == Head(pool[n])
    IN  /\ pool[n] # <<>>
        /\ pool' = [pool EXCEPT ![n] = Tail(@)]
        /\ IF Counts(n, e) THEN InternalLockUpdate(KeyOf[n], e)
                           ELSE UNCHANGED accountsVars
        /\ lost' = IF KeyOf[n] \in FragKeys THEN lost
                   ELSE [lost EXCEPT ![n] = @ \cup {e}]
        /\ UNCHANGED <<ethHead, lastBlock, run, sent, crashes>>

(* The end of a block. *)
EndBlock == TakePendingUnlinks /\ UNCHANGED <<ethHead, nodeVars>>

(* Every other call of the pallet. *)
OtherCall ==
    /\ \/ \E v \in Validators : AddKey(v) \/ DelKey(v)
       \/ \E u \in Signers, k \in EthKeys : Link(u, k) \/ Unlink(u, k)
       \/ \E u \in Signers, x \in ExternalIDs : SponsorAccount(u, x)
    /\ UNCHANGED <<ethHead, nodeVars>>

(* The node stops and starts again. *)
Crash(n) ==
    /\ crashes < MaxCrashes
    /\ crashes' = crashes + 1
    /\ run' = [w \in Workers |-> IF NodeOf[w] = n THEN Fresh(1) ELSE run[w]]
    /\ pool' = [pool EXCEPT ![n] = <<>>]
    /\ lost' = [lost EXCEPT ![n] = @ \cup {pool[n][i] : i \in DOMAIN pool[n]}]
    /\ UNCHANGED <<ethHead, lastBlock, sent, accountsVars>>

EthSyncNext ==
    \/ MineBlock
    \/ \E w \in Workers : AskHead(w) \/ AskLogs(w) \/ GethFails(w)
    \/ \E w \in Workers : SendVote(w) \/ StoreLastBlock(w)
    \/ \E n \in Nodes : IncludeVote(n) \/ Crash(n)
    \/ OtherCall \/ EndBlock

EthSyncSafeSpec == EthSyncInit /\ [][EthSyncNext]_syncVars

(***************************************************************************)
(* Blocks go on being mined and authored, and each node's worker runs      *)
(* again with every block.  geth may fail any number of times, but not     *)
(* always; keys and stops are nobody's duty.  Including a vote is strongly *)
(* fair for MaxPending alone: a full queue may hold it up in the model.    *)
(***************************************************************************)
Fairness ==
    /\ WF_syncVars(MineBlock)
    /\ \A w \in Workers :
         /\ WF_syncVars(AskHead(w))
         /\ SF_syncVars(AskLogs(w))
         /\ WF_syncVars(SendVote(w))
         /\ WF_syncVars(StoreLastBlock(w))
    /\ \A n \in Nodes : SF_syncVars(IncludeVote(n))
    /\ WF_syncVars(EndBlock)

EthSyncSpec == EthSyncSafeSpec /\ Fairness

-----------------------------------------------------------------------------
(* Every variable holds values of its type. *)
EthSyncTypeOK ==
    /\ AccountsTypeOK
    /\ ethHead \in Nat
    /\ lastBlock \in [Nodes -> Nat]
    /\ run \in [Workers -> Runs]
    /\ \A w \in Workers :
         /\ run[w].to = None => run[w].todo = None
         /\ run[w].todo # None => run[w].todo \subseteq DOMAIN Partners[run[w].contract]
    /\ pool \in [Nodes -> Seq(Events)]
    /\ sent \in [Nodes -> SUBSET Events]
    /\ lost \in [Nodes -> SUBSET Events]
    /\ crashes \in Nat

(***************************************************************************)
(* With one contract, no log up to the block a node stored was passed      *)
(* over: the node's pool took a vote for it, whatever failed, stopped or   *)
(* ran at the same time.  (sync_partner_contract, frag_sync_last_block)    *)
(***************************************************************************)
LogsSent ==
    Len(Partners) = 1 =>
        \A n \in Nodes, i \in DOMAIN Partners[1] :
            Number(1, i) <= lastBlock[n] => Partners[1][i] \in sent[n]

(***************************************************************************)
(* Where one vote is enough, logs take effect in the order of Ethereum: a  *)
(* later one never before an earlier one, unless a stop or a withdrawn key *)
(* took a vote for the earlier one out of a pool.  (internal_lock_update)  *)
(***************************************************************************)
InOrderUnlessLost ==
    (Threshold <= 1 /\ Len(Partners) = 1) =>
        \A i, j \in DOMAIN Partners[1] :
            LET early == Partners[1][i]
                late  == Partners[1][j]
            IN  i < j /\ Verified(early) /\ late \in EVMLinkVotingClosed
                  => \/ early \in EVMLinkVotingClosed
                     \/ \E n \in Nodes : early \in lost[n]

(***************************************************************************)
(* EthLock.amount is the "Total amount of FRAG token locked ... by a       *)
(* particular Ethereum Account" (accounts lib.rs:146): of the logs of  *)
(* a key that took effect, the last one on Ethereum says what is locked.   *)
(***************************************************************************)
LockedIsLatest ==
    \A c \in Contracts : \A j \in DOMAIN Partners[c] :
        LET late == Partners[c][j]
        IN  /\ late \in EVMLinkVotingClosed
            /\ \A i \in DOMAIN Partners[c] :
                 i > j /\ Partners[c][i].sender = late.sender
                   => Partners[c][i] \notin EVMLinkVotingClosed
            => EthLockedFrag[late.sender] = late.amount

(***************************************************************************)
(* What does hold of it: where one vote is enough, the last log of a key   *)
(* that took effect says what is locked, unless a stop or a withdrawn key  *)
(* took a vote for an earlier log of that key out of a pool.               *)
(* (EthLockedFrag, internal_lock_update)                                   *)
(***************************************************************************)
LatestUnlessLost ==
    (Threshold <= 1 /\ Len(Partners) = 1) =>
        \A j \in DOMAIN Partners[1] :
            LET late    == Partners[1][j]
                Same(i) == Partners[1][i].sender = late.sender
            IN  /\ late \in EVMLinkVotingClosed
                /\ \A i \in DOMAIN Partners[1] :
                     i > j /\ Same(i) => Partners[1][i] \notin EVMLinkVotingClosed
                => \/ EthLockedFrag[late.sender] = late.amount
                   \/ \E i \in DOMAIN Partners[1], n \in Nodes :
                        i < j /\ Same(i) /\ Partners[1][i] \in lost[n]

(***************************************************************************)
(* A node whose key stays among FragKeys sees to it that every log that is *)
(* deep enough is voted for, through failures of geth, refused votes and   *)
(* stops, unless it loses a vote for that log out of its pool.             *)
(***************************************************************************)
EveryLogCounts ==
    \A n \in Nodes :
        (Len(Partners) = 1 /\ <>[](KeyOf[n] \in FragKeys)) =>
            \A i \in DOMAIN Partners[1] :
                (Verified(Partners[1][i]) /\ Number(1, i) + EthConfirmations <= MaxHead)
                  => <>(ballots[Partners[1][i]] > 0 \/ Partners[1][i] \in lost[n])

(***************************************************************************)
(* The abstract bridge that pallet and workers are together: a log takes   *)
(* effect at most once, when it is EthConfirmations deep, and then sets    *)
(* what its key has locked.  (LockBridge)                                  *)
(***************************************************************************)
Bridge == INSTANCE LockBridge WITH
    head <- ethHead, effected <- EVMLinkVotingClosed, locked <- EthLockedFrag

IsBridge == Bridge!BridgeSpec

=============================================================================
