------------------------------ MODULE Accounts ------------------------------
(***************************************************************************)
(* The accounts pallet (pallets/accounts): the links between Clamor        *)
(* accounts and Ethereum keys, the votes of the FRAG validators on what    *)
(* was locked or unlocked in the Ethereum contract, and the accounts that  *)
(* integrators sponsor.                                                    *)
(*                                                                         *)
(* A dispatchable is one action: it either runs to its end or leaves the   *)
(* storage as it was, so every early `return Err` is a guard.  A storage   *)
(* map is a total function whose value is None at an absent key.           *)
(***************************************************************************)
EXTENDS Naturals, FiniteSets, Sequences

CONSTANTS
    Accounts,     \* Clamor accounts (AccountId)
    Signers,      \* those some origin can be dispatched for
    EthKeys,      \* Ethereum accounts (H160)
    Events,       \* the lock and unlock logs of the Ethereum contract
    Validators,   \* ed25519 keys that FragKeys may hold
    ExternalIDs,  \* identities that integrators sponsor accounts for
    Threshold,    \* Config::Threshold, the votes that an update needs
    MaxDeposits,  \* the proxy deposits a sponsor can afford
    MaxPending,   \* bound on the unlinks of one block
    None          \* an absent storage entry

(***************************************************************************)
(* A log carries the key that locked, the key its signature recovers to,   *)
(* the event it is, the total amount that is locked after it and the       *)
(* Ethereum block that holds it.  Two logs have one vote hash iff they     *)
(* are equal.                                                              *)
(***************************************************************************)
EthLockUpdate == [sender: EthKeys, signer: EthKeys, lock: BOOLEAN,
                  amount: Nat, block_number: Nat]

ASSUME SignersAreAccounts == Signers \subseteq Accounts
ASSUME EventsAreLogs      == Events \subseteq EthLockUpdate
ASSUME ThresholdIsNat     == Threshold \in Nat
ASSUME BoundsAreNat       == MaxDeposits \in Nat /\ MaxPending \in Nat
ASSUME NoneIsNothing      == /\ None \notin Accounts
                             /\ None \notin EthKeys
                             /\ None \notin Nat
                             /\ None \notin Signers \X ExternalIDs

VARIABLES
    EVMLinks,             \* Clamor account -> its Ethereum key
    EVMLinksReverse,      \* Ethereum key -> its Clamor account
    FragUsage,            \* Clamor account -> FRAG it has staked
    EthLockedFrag,        \* Ethereum key -> FRAG it has locked
    EVMLinkVoting,        \* log -> votes so far (0 is no entry)
    EVMLinkVotingClosed,  \* logs that took effect
    PendingUnlinks,       \* accounts whose stakes are yet to be cleared
    FragKeys,             \* keys whose lock updates are accepted
    Proxies,              \* sponsored accounts, as (sponsor, external id)
    Reserved,             \* deposits reserved from each sponsor
    ExternalID2Account,   \* external id -> the account sponsored for it
    ballots,              \* history: votes accepted on each log
    applied               \* history: times each log took effect

linkVars    == <<EVMLinks, EVMLinksReverse, FragUsage, PendingUnlinks>>
voteVars    == <<EthLockedFrag, EVMLinkVoting, EVMLinkVotingClosed,
                 ballots, applied>>
sponsorVars == <<Proxies, Reserved, ExternalID2Account>>
accountsVars == <<EVMLinks, EVMLinksReverse, FragUsage, PendingUnlinks,
                  EthLockedFrag, EVMLinkVoting, EVMLinkVotingClosed,
                  ballots, applied, FragKeys,
                  Proxies, Reserved, ExternalID2Account>>

AccountsInit ==
    /\ EVMLinks = [u \in Accounts |-> None]
    /\ EVMLinksReverse = [k \in EthKeys |-> None]
    /\ FragUsage = [u \in Accounts |-> None]
    /\ EthLockedFrag = [k \in EthKeys |-> None]
    /\ EVMLinkVoting = [e \in Events |-> 0]
    /\ EVMLinkVotingClosed = {}
    /\ PendingUnlinks = <<>>
    /\ FragKeys = {}
    /\ Proxies = {}
    /\ Reserved = [u \in Accounts |-> 0]
    /\ ExternalID2Account = [x \in ExternalIDs |-> None]
    /\ ballots = [e \in Events |-> 0]
    /\ applied = [e \in Events |-> 0]

-----------------------------------------------------------------------------
(* Validator keys: root only.                                              *)

AddKey(v) ==
    /\ FragKeys' = FragKeys \cup {v}
    /\ UNCHANGED <<linkVars, voteVars, sponsorVars>>

DelKey(v) ==
    /\ FragKeys' = FragKeys \ {v}
    /\ UNCHANGED <<linkVars, voteVars, sponsorVars>>

-----------------------------------------------------------------------------
(* Linking a Clamor account and an Ethereum key.                           *)

\* Mutated form: only the caller's own side is looked up.
LinkableOneSided(u, k) == EVMLinks[u] = None

(* Neither side may be linked already. *)
Linkable(u, k) == EVMLinks[u] = None /\ EVMLinksReverse[k] = None

(* k is the key that the signature over u's account id recovers to. *)
Link(u, k) ==
    /\ Linkable(u, k)
    /\ EVMLinks' = [EVMLinks EXCEPT ![u] = k]
    /\ EVMLinksReverse' = [EVMLinksReverse EXCEPT ![k] = u]
    /\ FragUsage' = [FragUsage EXCEPT ![u] = 0]
    /\ UNCHANGED <<PendingUnlinks, voteVars, FragKeys, sponsorVars>>

\* Mutated form: the account is not queued.
UnlinkAccountUnqueued(u, k) ==
    /\ EVMLinks[u] = k
    /\ EVMLinksReverse[k] = u
    /\ EVMLinks' = [EVMLinks EXCEPT ![u] = None]
    /\ EVMLinksReverse' = [EVMLinksReverse EXCEPT ![k] = None]
    /\ FragUsage' = [FragUsage EXCEPT ![u] = None]
    /\ UNCHANGED PendingUnlinks

\* Mutated form: the key is queued in place of its account.
UnlinkAccountQueuesKey(u, k) ==
    /\ EVMLinks[u] = k
    /\ EVMLinksReverse[k] = u
    /\ EVMLinks' = [EVMLinks EXCEPT ![u] = None]
    /\ EVMLinksReverse' = [EVMLinksReverse EXCEPT ![k] = None]
    /\ FragUsage' = [FragUsage EXCEPT ![u] = None]
    /\ PendingUnlinks' = Append(PendingUnlinks, k)

(* unlink_account, shared by the extrinsic and by an unlock that passed. *)
UnlinkAccount(u, k) ==
    /\ EVMLinks[u] = k
    /\ EVMLinksReverse[k] = u
    /\ EVMLinks' = [EVMLinks EXCEPT ![u] = None]
    /\ EVMLinksReverse' = [EVMLinksReverse EXCEPT ![k] = None]
    /\ FragUsage' = [FragUsage EXCEPT ![u] = None]
    /\ PendingUnlinks' = Append(PendingUnlinks, u)

Unlink(u, k) ==
    /\ Len(PendingUnlinks) < MaxPending
    /\ UnlinkAccount(u, k)
    /\ UNCHANGED <<voteVars, FragKeys, sponsorVars>>

-----------------------------------------------------------------------------
(***************************************************************************)
(* internal_lock_update: an unsigned transaction that carries the vote of  *)
(* one of FragKeys for a log.  validate_unsigned runs again when the       *)
(* transaction is included, so the key is in FragKeys at that point.       *)
(***************************************************************************)

\* Mutated form: the closed votes are not looked up.
OpenAlways(e) == TRUE

(* The vote on the log has not been closed. *)
Open(e) == e \notin EVMLinkVotingClosed

(* The signature is the sender's own, and only a lock has an amount. *)
Verified(e) == e.signer = e.sender /\ (e.lock <=> e.amount > 0)

\* Mutated form: the quorum is one vote short.
QuorumOneShort(e) == EVMLinkVoting[e] + 2 >= Threshold

(* This vote is the one that reaches the threshold. *)
Quorum(e) == EVMLinkVoting[e] + 1 >= Threshold

\* Mutated form: every vote sets what is locked.
CountVoteSetsAmount(e) ==
    /\ EVMLinkVoting' = [EVMLinkVoting EXCEPT ![e] = @ + 1]
    /\ ballots' = [ballots EXCEPT ![e] = @ + 1]
    /\ EthLockedFrag' = [EthLockedFrag EXCEPT ![e.sender] = e.amount]
    /\ UNCHANGED <<linkVars, EVMLinkVotingClosed, applied>>

CountVote(e) ==
    /\ EVMLinkVoting' = [EVMLinkVoting EXCEPT ![e] = @ + 1]
    /\ ballots' = [ballots EXCEPT ![e] = @ + 1]
    /\ UNCHANGED <<linkVars, EthLockedFrag, EVMLinkVotingClosed, applied>>

(* Less is locked than its account uses: all its stakes are to go. *)
ApplyLock(e) ==
    LET u == EVMLinksReverse[e.sender]
    IN  IF u # None /\ FragUsage[u] # None /\ FragUsage[u] > e.amount
        THEN /\ FragUsage' = [FragUsage EXCEPT ![u] = None]
             /\ PendingUnlinks' = Append(PendingUnlinks, u)
             /\ UNCHANGED <<EVMLinks, EVMLinksReverse>>
        ELSE UNCHANGED linkVars

(* Everything was unlocked: the key loses its link, if it has one. *)
ApplyUnlock(e) ==
    LET u == EVMLinksReverse[e.sender]
    IN  IF u # None THEN UnlinkAccount(u, e.sender) ELSE UNCHANGED linkVars

(* The vote that carries: the log takes effect and its vote is closed. *)
Carry(e) ==
    /\ Len(PendingUnlinks) < MaxPending
    /\ IF e.lock THEN ApplyLock(e) ELSE ApplyUnlock(e)
    /\ EVMLinkVoting' = [EVMLinkVoting EXCEPT ![e] = 0]
    /\ EthLockedFrag' = [EthLockedFrag EXCEPT ![e.sender] = e.amount]
    /\ EVMLinkVotingClosed' = EVMLinkVotingClosed \cup {e}
    /\ ballots' = [ballots EXCEPT ![e] = @ + 1]
    /\ applied' = [applied EXCEPT ![e] = @ + 1]

InternalLockUpdate(v, e) ==
    /\ v \in FragKeys
    /\ Open(e)
    /\ Verified(e)
    /\ IF Quorum(e) THEN Carry(e) ELSE CountVote(e)
    /\ UNCHANGED <<FragKeys, sponsorVars>>

-----------------------------------------------------------------------------
(***************************************************************************)
(* sponsor_account: the sponsored account is derived from the sponsor and  *)
(* the external id, and the sponsor is made its proxy against a deposit.   *)
(***************************************************************************)

\* Mutated form: the account is not looked up among the proxies.
NewProxyAlways(u, x) == TRUE

NewProxy(u, x) == <<u, x>> \notin Proxies

SponsorAccount(u, x) ==
    /\ NewProxy(u, x)
    /\ Reserved[u] < MaxDeposits      \* Currency::reserve
    /\ Reserved' = [Reserved EXCEPT ![u] = @ + 1]
    /\ Proxies' = Proxies \cup {<<u, x>>}
    /\ ExternalID2Account' = [ExternalID2Account EXCEPT ![x] = <<u, x>>]
    /\ UNCHANGED <<linkVars, voteVars, FragKeys>>

-----------------------------------------------------------------------------
(* The calls of this pallet; none of them drains PendingUnlinks.           *)
AccountsCall ==
    \/ \E v \in Validators : AddKey(v) \/ DelKey(v)
    \/ \E u \in Signers, k \in EthKeys : Link(u, k)
    \/ \E u \in Signers, k \in EthKeys : Unlink(u, k)
    \/ \E v \in Validators, e \in Events : InternalLockUpdate(v, e)
    \/ \E u \in Signers, x \in ExternalIDs : SponsorAccount(u, x)

(* The end of a block, where the protos pallet takes the queue. *)
TakePendingUnlinks ==
    /\ PendingUnlinks # <<>>
    /\ PendingUnlinks' = <<>>
    /\ UNCHANGED <<EVMLinks, EVMLinksReverse, FragUsage, voteVars,
                   FragKeys, sponsorVars>>

AccountsNext == AccountsCall \/ TakePendingUnlinks

AccountsSpec == AccountsInit /\ [][AccountsNext]_accountsVars

-----------------------------------------------------------------------------
(* Every variable holds values of its storage type. *)
AccountsTypeOK ==
    /\ EVMLinks \in [Accounts -> EthKeys \cup {None}]
    /\ EVMLinksReverse \in [EthKeys -> Accounts \cup {None}]
    /\ FragUsage \in [Accounts -> Nat \cup {None}]
    /\ EthLockedFrag \in [EthKeys -> Nat \cup {None}]
    /\ EVMLinkVoting \in [Events -> Nat]
    /\ EVMLinkVotingClosed \subseteq Events
    /\ PendingUnlinks \in Seq(Accounts)
    /\ FragKeys \subseteq Validators
    /\ Proxies \subseteq Signers \X ExternalIDs
    /\ Reserved \in [Accounts -> Nat]
    /\ ExternalID2Account
         \in [ExternalIDs -> (Signers \X ExternalIDs) \cup {None}]
    /\ ballots \in [Events -> Nat]
    /\ applied \in [Events -> Nat]

(***************************************************************************)
(* The two link maps are each other's inverse, so that no key backs two    *)
(* accounts and unlink_account cannot refuse a carried unlock, whose vote  *)
(* would then be lost.  (EVMLinks, EVMLinksReverse, unlink_account)        *)
(***************************************************************************)
LinksInverse ==
    \A u \in Accounts, k \in EthKeys :
        EVMLinks[u] = k <=> EVMLinksReverse[k] = u

(***************************************************************************)
(* A log takes effect once, however many validators go on voting for it,   *)
(* and not before Threshold votes.  (internal_lock_update)                 *)
(***************************************************************************)
EffectNeedsQuorum ==
    \A e \in Events :
        /\ applied[e] = IF e \in EVMLinkVotingClosed THEN 1 ELSE 0
        /\ e \in EVMLinkVotingClosed => ballots[e] >= Threshold
        /\ e \notin EVMLinkVotingClosed => ballots[e] = EVMLinkVoting[e]

(***************************************************************************)
(* What a key has locked is the amount of a log of its own that took       *)
(* effect, and a key with no such log has none.  (EthLockedFrag)           *)
(***************************************************************************)
LockedComesFromLogs ==
    \A k \in EthKeys :
        LET past == {e \in EVMLinkVotingClosed : e.sender = k}
        IN  IF past = {} THEN EthLockedFrag[k] = None
            ELSE \E e \in past : EthLockedFrag[k] = e.amount

(***************************************************************************)
(* Each deposit reserved from a sponsor stands for an account of its own   *)
(* that it is the proxy of, and every external id that was sponsored       *)
(* leads to such an account.  (sponsor_account)                            *)
(***************************************************************************)
DepositsMatchProxies ==
    /\ \A u \in Accounts :
         Reserved[u] = Cardinality({p \in Proxies : p[1] = u})
    /\ \A x \in ExternalIDs :
         \/ ExternalID2Account[x] \in Proxies
         \/ ExternalID2Account[x] = None /\ \A p \in Proxies : p[2] # x

(***************************************************************************)
(* An account that loses its link or its usage counter is put last on the  *)
(* queue in the same step, and the queue shrinks only by being emptied:    *)
(* no account keeps stakes that nothing backs.  (PendingUnlinks)           *)
(***************************************************************************)
LossIsQueued ==
    [][/\ \A u \in Accounts :
            (FragUsage[u] # None /\ FragUsage'[u] = None)
              => PendingUnlinks' = Append(PendingUnlinks, u)
       /\ \A u \in Accounts :
            (EVMLinks[u] # None /\ EVMLinks'[u] # EVMLinks[u])
              => PendingUnlinks' = Append(PendingUnlinks, u)
       /\ Len(PendingUnlinks') < Len(PendingUnlinks)
            => PendingUnlinks' = <<>>]_accountsVars

=============================================================================
