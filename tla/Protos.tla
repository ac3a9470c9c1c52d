------------------------------- MODULE Protos -------------------------------
(***************************************************************************)
(* The protos pallet (pallets/protos): the registry of Proto-Fragments,    *)
(* their indexes by owner and by category, and the FRAG stakes that        *)
(* license one proto for inclusion in another.  It extends Accounts, as    *)
(* the pallet's Config extends pallet_accounts::Config, and it drains the  *)
(* queue of unlinked accounts at the end of each block.                    *)
(*                                                                         *)
(* The detach pallet is seen through its storage only: a request may be    *)
(* finalised at any later time.                                            *)
(***************************************************************************)
EXTENDS Accounts, Functions

CONSTANTS
    Hashes,             \* blake2 hashes of the data of protos
    Assets,             \* LinkedAsset, assets of other chains
    Categories,
    TagLists,           \* lists of tags a call may carry
    MetaKeyNames,
    Costs,              \* include costs, None for "cannot be included"
    StakeAmounts,
    LockedFragAccount,  \* get_locked_frag_account, on Signers
    StakeLockupPeriod,
    MaxBlock,           \* where the clock of the model stops
    MaxPatches          \* bound on the patches of a proto

TagNames == UNION {Range(ts) : ts \in TagLists}

ASSUME OwnersAreDistinct == Assets \cap Accounts = {} /\ None \notin Assets
ASSUME LockedAccounts    == LockedFragAccount \in [Signers -> Accounts]
ASSUME TagListsAreLists  == \A ts \in TagLists : ts \in Seq(Range(ts))
ASSUME CostsAreOptional  == Costs \subseteq Nat \cup {None}
ASSUME StakesAreNat      == StakeAmounts \subseteq Nat
ASSUME PeriodsAreNat     == /\ StakeLockupPeriod \in Nat
                            /\ MaxBlock \in Nat
                            /\ MaxPatches \in Nat

VARIABLES
    Protos,            \* hash -> proto
    ProtosByOwner,     \* (owner, hash) -> times it is in its list
    ProtosByCategory,  \* (category, hash) -> times it is in its list
    Tags, TagsIndex,          \* tag -> index (0 is no entry), last index
    MetaKeys, MetaKeysIndex,  \* metadata key -> index, last index
    ProtoStakes,       \* (hash, account) -> amount and block of the stake
    AccountStakes,     \* account -> hashes it staked on
    Requested,         \* hashes with a request in the detach pallet
    DetachedHashes,    \* hashes whose detachment was finalised
    now                \* frame_system block number

(***************************************************************************)
(* What the checks on a proto read; the data itself, its creator and the   *)
(* block numbers are left out.  References are sets: their order and       *)
(* number play no part.  Nor does the order of the lists by owner and by   *)
(* category, modelled by the number of times a hash stands in each.        *)
(***************************************************************************)
Proto == [include_cost: Costs, owner: Accounts \cup Assets,
          references: SUBSET Hashes, category: Categories,
          tags: SUBSET Nat, metadata: SUBSET Nat,
          patches: Seq(SUBSET Hashes)]

StakeData == [amount: Nat, block: Nat]

ASSUME NoneIsNoRecord == None \notin Proto /\ None \notin StakeData

registryVars == <<Protos, ProtosByOwner, ProtosByCategory>>
indexVars    == <<Tags, TagsIndex, MetaKeys, MetaKeysIndex>>
stakeVars    == <<ProtoStakes, AccountStakes>>
detachVars   == <<Requested, DetachedHashes>>
protosVars   == <<Protos, ProtosByOwner, ProtosByCategory, Tags, TagsIndex,
                  MetaKeys, MetaKeysIndex, ProtoStakes, AccountStakes,
                  Requested, DetachedHashes, now>>
vars == <<accountsVars, protosVars>>

Init ==
    /\ AccountsInit
    /\ Protos = [p \in Hashes |-> None]
    /\ ProtosByOwner = [l \in (Accounts \cup Assets) \X Hashes |-> 0]
    /\ ProtosByCategory = [l \in Categories \X Hashes |-> 0]
    /\ Tags = [t \in TagNames |-> 0] /\ TagsIndex = 0
    /\ MetaKeys = [m \in MetaKeyNames |-> 0] /\ MetaKeysIndex = 0
    /\ ProtoStakes = [s \in Hashes \X Accounts |-> None]
    /\ AccountStakes = [u \in Accounts |-> {}]
    /\ Requested = {}
    /\ DetachedHashes = {}
    /\ now = 0

Uploaded == {p \in Hashes : Protos[p] # None}

-----------------------------------------------------------------------------
\* Mutated form: a reference that is not known yet needs no licence.
LicensedUnlessKnown(r, u) ==
    Protos[r] # None =>
        \/ Protos[r].owner = u
        \/ Protos[r].include_cost = 0

(* check_staking_req, for one reference. *)
Licensed(r, u) ==
    /\ Protos[r] # None
    /\ \/ Protos[r].owner = u
       \/ Protos[r].include_cost = 0
       \/ /\ Protos[r].include_cost # None
          /\ ProtoStakes[<<r, u>>] # None
          /\ ProtoStakes[<<r, u>>].amount >= Protos[r].include_cost

(* The names of a list that stand no later than t does. *)
UpTo(names, t) ==
    {names[i] : i \in {j \in DOMAIN names :
                         \A k \in DOMAIN names : names[k] = t => j <= k}}

\* Mutated form: the indexes of a batch are taken before it is stored.
InternBatch(map, last, names) ==
    LET new == {t \in Range(names) : map[t] = 0}
    IN  [map  |-> [t \in DOMAIN map |->
                     IF t \in new THEN last + 1 ELSE map[t]],
         last |-> last + Cardinality(new)]

(* Each unknown name gets the next index, in the order of the list. *)
Intern(map, last, names) ==
    LET new == {t \in Range(names) : map[t] = 0}
    IN  [map  |-> [t \in DOMAIN map |->
                     IF t \in new THEN last + Cardinality(new \cap UpTo(names, t))
                     ELSE map[t]],
         last |-> last + Cardinality(new)]

InternTags(ts) ==
    LET st == Intern(Tags, TagsIndex, ts)
    IN  /\ Tags' = st.map
        /\ TagsIndex' = st.last

\* Mutated form: a proto keeps the names of its tags.
TaggedByName(ts) == Range(ts)

(* A proto keeps the indexes of its tags, as they are after the call. *)
Tagged(ts) == {Tags'[t] : t \in Range(ts)}

\* Mutated form: detached protos can still be changed.
EditableEvenDetached(u, p) == Protos[p] # None /\ Protos[p].owner = u

(* The caller owns the proto and it was not detached. *)
Editable(u, p) ==
    /\ Protos[p] # None
    /\ Protos[p].owner = u
    /\ p \notin DetachedHashes

Upload(u, p, refs, c, ts, asset, cost) ==
    /\ Protos[p] = None
    /\ \A r \in refs : Licensed(r, u)
    /\ InternTags(ts)
    /\ LET owner == IF asset # None THEN asset ELSE u
       IN  /\ Protos' = [Protos EXCEPT ![p] =
                [include_cost |-> cost, owner |-> owner,
                 references |-> refs, category |-> c,
                 tags |-> Tagged(ts),
                 metadata |-> {}, patches |-> <<>>]]
           /\ ProtosByOwner' =
                [ProtosByOwner EXCEPT ![<<owner, p>>] = @ + 1]
    /\ ProtosByCategory' = [ProtosByCategory EXCEPT ![<<c, p>>] = @ + 1]
    /\ UNCHANGED <<MetaKeys, MetaKeysIndex, stakeVars, detachVars, now,
                   accountsVars>>

(***************************************************************************)
(* A patch without data (hasData = FALSE) changes the cost and the tags    *)
(* only: its references are checked and dropped.  ts = None keeps the tags.*)
(***************************************************************************)
Patch(u, p, cost, refs, ts, hasData) ==
    /\ Editable(u, p)
    /\ \A r \in refs : Licensed(r, u)
    /\ hasData => Len(Protos[p].patches) < MaxPatches
    /\ IF ts = None THEN UNCHANGED <<Tags, TagsIndex>> ELSE InternTags(ts)
    /\ Protos' = [Protos EXCEPT
         ![p].patches = IF hasData THEN Append(@, refs) ELSE @,
         ![p].include_cost = cost,
         ![p].tags = IF ts = None THEN @ ELSE Tagged(ts)]
    /\ UNCHANGED <<ProtosByOwner, ProtosByCategory, MetaKeys, MetaKeysIndex,
                   stakeVars, detachVars, now, accountsVars>>

\* Mutated form: the old owner's list is left as it is.
MovedByAppend(p, old, new) ==
    [ProtosByOwner EXCEPT ![<<new, p>>] = @ + 1]

(* The lists after p went from one owner to another, or to the same. *)
Moved(p, old, new) ==
    [[ProtosByOwner EXCEPT ![<<old, p>>] = 0] EXCEPT ![<<new, p>>] = @ + 1]

Transfer(u, p, new) ==
    /\ Editable(u, p)
    /\ ProtosByOwner' = Moved(p, u, new)
    /\ Protos' = [Protos EXCEPT ![p].owner = new]
    /\ UNCHANGED <<ProtosByCategory, indexVars, stakeVars, detachVars, now,
                   accountsVars>>

SetMetadata(u, p, m) ==
    /\ Editable(u, p)
    /\ LET st == Intern(MetaKeys, MetaKeysIndex, <<m>>)
       IN  /\ MetaKeys' = st.map
           /\ MetaKeysIndex' = st.last
           /\ Protos' = [Protos EXCEPT ![p].metadata = @ \cup {st.map[m]}]
    /\ UNCHANGED <<ProtosByOwner, ProtosByCategory, Tags, TagsIndex,
                   stakeVars, detachVars, now, accountsVars>>

\* Mutated form: anyone may ask, for what an asset owns too.
DetachByAnyone(u, p) ==
    /\ Protos[p] # None
    /\ p \notin DetachedHashes
    /\ Requested' = Requested \cup {p}
    /\ UNCHANGED <<registryVars, indexVars, stakeVars, DetachedHashes, now,
                   accountsVars>>

(* Queues a request in the detach pallet; nothing else changes yet. *)
Detach(u, p) ==
    /\ Editable(u, p)
    /\ Requested' = Requested \cup {p}
    /\ UNCHANGED <<registryVars, indexVars, stakeVars, DetachedHashes, now,
                   accountsVars>>

(* internal_finalize_detach of the detach pallet, for a request of old. *)
FinalizeDetach(p) ==
    /\ p \in Requested
    /\ DetachedHashes' = DetachedHashes \cup {p}
    /\ UNCHANGED <<registryVars, indexVars, stakeVars, Requested, now,
                   accountsVars>>

-----------------------------------------------------------------------------
(***************************************************************************)
(* Stakes.  stake works on the account derived from the caller; unstake    *)
(* and check_staking_req on the caller itself.                             *)
(***************************************************************************)

\* Mutated form: a stake needs no link.
StakeAllowedUnlinked(u, p, n) == Protos[p] # None

StakeAllowed(u, p, n) ==
    LET w == LockedFragAccount[u]
        k == EVMLinks[w]
    IN  /\ Protos[p] # None
        /\ k # None
        /\ EthLockedFrag[k] # None
        /\ FragUsage[w] # None
        /\ EthLockedFrag[k] >= FragUsage[w] + n

(* The sum that saturating_add returns is dropped: FragUsage stays. *)
Stake(u, p, n) ==
    /\ StakeAllowed(u, p, n)
    /\ LET w == LockedFragAccount[u]
       IN  /\ ProtoStakes' = [ProtoStakes EXCEPT
                ![<<p, w>>] = [amount |-> n, block |-> now]]
           /\ AccountStakes' = [AccountStakes EXCEPT ![w] = @ \cup {p}]
    /\ UNCHANGED <<registryVars, indexVars, detachVars, now, accountsVars>>

\* Mutated form: the lock-up period is taken from the wrong side.
LockupOverEarly(p, u) == now + StakeLockupPeriod > ProtoStakes[<<p, u>>].block

LockupOver(p, u) == now > ProtoStakes[<<p, u>>].block + StakeLockupPeriod

\* Mutated form: the account keeps the proto on its list.
UnstakeKeepsList(u, p) ==
    /\ Protos[p] # None
    /\ ProtoStakes[<<p, u>>] # None
    /\ LockupOver(p, u)
    /\ FragUsage[u] # None
    /\ ProtoStakes' = [ProtoStakes EXCEPT ![<<p, u>>] = None]
    /\ UNCHANGED <<AccountStakes, registryVars, indexVars, detachVars, now,
                   accountsVars>>

(* Unwrapping an absent usage counter panics, which discards the call; the *)
(* difference that saturating_sub returns is dropped.                      *)
Unstake(u, p) ==
    /\ Protos[p] # None
    /\ ProtoStakes[<<p, u>>] # None
    /\ LockupOver(p, u)
    /\ FragUsage[u] # None
    /\ ProtoStakes' = [ProtoStakes EXCEPT ![<<p, u>>] = None]
    /\ AccountStakes' = [AccountStakes EXCEPT ![u] = @ \ {p}]
    /\ UNCHANGED <<registryVars, indexVars, detachVars, now, accountsVars>>

-----------------------------------------------------------------------------
\* Mutated form: only the last account of the queue is cleared.
DrainedLastOnly ==
    IF PendingUnlinks = <<>> THEN {}
    ELSE {PendingUnlinks[Len(PendingUnlinks)]}

(* The accounts whose stakes the end of the block clears. *)
Drained == Range(PendingUnlinks)

OnFinalize ==
    /\ PendingUnlinks' = <<>>
    /\ ProtoStakes' = [s \in Hashes \X Accounts |->
         IF s[2] \in Drained /\ s[1] \in AccountStakes[s[2]] THEN None
         ELSE ProtoStakes[s]]
    /\ AccountStakes' = [u \in Accounts |->
         IF u \in Drained THEN {} ELSE AccountStakes[u]]
    /\ now' = IF now < MaxBlock THEN now + 1 ELSE now
    /\ UNCHANGED <<registryVars, indexVars, detachVars,
                   EVMLinks, EVMLinksReverse, FragUsage, voteVars,
                   FragKeys, sponsorVars>>

-----------------------------------------------------------------------------
Uploads ==
    \E u \in Signers, p \in Hashes, refs \in SUBSET Hashes,
       c \in Categories, ts \in TagLists, cost \in Costs,
       asset \in Assets \cup {None} :
         Upload(u, p, refs, c, ts, asset, cost)

Edits ==
    \/ \E u \in Signers, p \in Hashes, refs \in SUBSET Hashes,
          ts \in TagLists \cup {None}, cost \in Costs, hasData \in BOOLEAN :
            Patch(u, p, cost, refs, ts, hasData)
    \/ \E u \in Signers, p \in Hashes, new \in Accounts : Transfer(u, p, new)
    \/ \E u \in Signers, p \in Hashes, m \in MetaKeyNames :
            SetMetadata(u, p, m)
    \/ \E u \in Signers, p \in Hashes : Detach(u, p)
    \/ \E p \in Hashes : FinalizeDetach(p)

Staking ==
    \/ \E u \in Signers, p \in Hashes, n \in StakeAmounts : Stake(u, p, n)
    \/ \E u \in Signers, p \in Hashes : Unstake(u, p)

AccountsStep == AccountsCall /\ UNCHANGED protosVars

Next == Uploads \/ Edits \/ Staking \/ AccountsStep \/ OnFinalize

(* The chain goes on producing blocks, and every block is finalised. *)
Fairness == WF_vars(OnFinalize)

Spec == Init /\ [][Next]_vars /\ Fairness

(***************************************************************************)
(* The same without edits: no stake operation reads what they change, so   *)
(* the runs on stakes leave them out to afford several protos.             *)
(***************************************************************************)
StakingSpec ==
    /\ Init
    /\ [][Uploads \/ Staking \/ AccountsStep \/ OnFinalize]_vars
    /\ Fairness

-----------------------------------------------------------------------------
RegistryTypeOK ==
    /\ Protos \in [Hashes -> Proto \cup {None}]
    /\ ProtosByOwner \in [(Accounts \cup Assets) \X Hashes -> Nat]
    /\ ProtosByCategory \in [Categories \X Hashes -> Nat]
    /\ Requested \subseteq Hashes
    /\ DetachedHashes \subseteq Hashes

IndexTypeOK ==
    /\ Tags \in [TagNames -> Nat] /\ TagsIndex \in Nat
    /\ MetaKeys \in [MetaKeyNames -> Nat] /\ MetaKeysIndex \in Nat

StakesTypeOK ==
    /\ ProtoStakes \in [Hashes \X Accounts -> StakeData \cup {None}]
    /\ AccountStakes \in [Accounts -> SUBSET Hashes]
    /\ now \in 0 .. MaxBlock

(* Every variable holds values of its storage type. *)
TypeOK == AccountsTypeOK /\ RegistryTypeOK /\ IndexTypeOK /\ StakesTypeOK

(***************************************************************************)
(* A proto is listed exactly once under its owner and once under its       *)
(* category, and nowhere else, whatever uploads and transfers (to oneself  *)
(* too) came before.  (ProtosByOwner, ProtosByCategory)                    *)
(***************************************************************************)
ListedOnce ==
    \A p \in Hashes :
        /\ \A o \in Accounts \cup Assets :
             ProtosByOwner[<<o, p>>] =
               IF Protos[p] # None /\ Protos[p].owner = o THEN 1 ELSE 0
        /\ \A c \in Categories :
             ProtosByCategory[<<c, p>>] =
               IF Protos[p] # None /\ Protos[p].category = c THEN 1 ELSE 0

(***************************************************************************)
(* The indexes of the known names are 1 to the last index, without a gap   *)
(* or a repetition, so that a proto's tags and metadata keys each stand    *)
(* for one name.  (Tags, TagsIndex, MetaKeys, MetaKeysIndex)               *)
(***************************************************************************)
NumberedWithoutGap(map, last) ==
    LET known == {t \in DOMAIN map : map[t] # 0}
    IN  /\ {map[t] : t \in known} = 1 .. last
        /\ Cardinality(known) = last

IndexesAreDense ==
    /\ NumberedWithoutGap(Tags, TagsIndex)
    /\ NumberedWithoutGap(MetaKeys, MetaKeysIndex)
    /\ \A p \in Uploaded : /\ Protos[p].tags \subseteq 1 .. TagsIndex
                           /\ Protos[p].metadata \subseteq 1 .. MetaKeysIndex

(***************************************************************************)
(* What protos were made from is never circular: among any protos there is *)
(* one that was uploaded with references to none of them, and every        *)
(* reference, of an upload or of a patch, is to an uploaded proto.         *)
(* (upload, patch, check_staking_req)                                      *)
(***************************************************************************)
LineageWellFounded ==
    /\ \A p \in Uploaded :
         /\ Protos[p].references \subseteq Uploaded
         /\ \A i \in DOMAIN Protos[p].patches :
              Protos[p].patches[i] \subseteq Uploaded
    /\ \A S \in (SUBSET Uploaded) \ {{}} :
         \E p \in S : Protos[p].references \cap S = {}

(***************************************************************************)
(* AccountStakes of an account lists exactly the protos it has a stake on, *)
(* so that clearing an unlinked account misses none.                       *)
(* (ProtoStakes, AccountStakes)                                            *)
(***************************************************************************)
StakesAreListed ==
    \A p \in Hashes, u \in Accounts :
        ProtoStakes[<<p, u>>] # None <=> p \in AccountStakes[u]

(***************************************************************************)
(* Every stake is backed by the usage counter of a linked account, or is   *)
(* about to be cleared at the end of this block.                           *)
(* (stake, unlink_account, internal_lock_update, on_finalize)              *)
(***************************************************************************)
StakesAreBacked ==
    \A p \in Hashes, u \in Accounts :
        ProtoStakes[<<p, u>>] # None
            => \/ EVMLinks[u] # None /\ FragUsage[u] # None
               \/ u \in Range(PendingUnlinks)

(***************************************************************************)
(* A detached proto is frozen: its owner, cost, tags, metadata and patches *)
(* stay as they were, and it stays detached.  (patch, transfer,            *)
(* set_metadata, DetachedHashes)                                           *)
(***************************************************************************)
DetachedIsFrozen ==
    [][\A p \in DetachedHashes :
         p \in DetachedHashes' /\ Protos'[p] = Protos[p]]_vars

(***************************************************************************)
(* A stake ends only by an unstake after its lock-up period or because its *)
(* account lost its link, and no stake survives the end of a block in      *)
(* which its account was unlinked.  (unstake, on_finalize)                 *)
(***************************************************************************)
StakesEndInTime ==
    [][\A p \in Hashes, u \in Accounts :
         /\ (ProtoStakes[<<p, u>>] # None /\ ProtoStakes'[<<p, u>>] = None)
              => \/ now > ProtoStakes[<<p, u>>].block + StakeLockupPeriod
                 \/ u \in Range(PendingUnlinks)
         /\ (u \in Range(PendingUnlinks) /\ PendingUnlinks' = <<>>)
              => ProtoStakes'[<<p, u>>] = None]_vars

(***************************************************************************)
(* An account that is not linked loses all its stakes, unless it links     *)
(* again first.  (on_finalize)                                             *)
(***************************************************************************)
UnlinkedStakesGo ==
    \A u \in Accounts :
        EVMLinks[u] = None
            ~> (EVMLinks[u] # None
                 \/ \A p \in Hashes : ProtoStakes[<<p, u>>] = None)

(***************************************************************************)
(* FragUsage is the amount of FRAG that the account has staked, as its     *)
(* declaration says.  (FragUsage; the code breaks it)                      *)
(***************************************************************************)
UsageIsStaked ==
    \A u \in Accounts :
        FragUsage[u] # None =>
            FragUsage[u] = FoldFunction(+, 0,
                [p \in AccountStakes[u] |-> ProtoStakes[<<p, u>>].amount])

(***************************************************************************)
(* A linked user with enough FRAG locked can stake it on any proto, as the *)
(* test of that name says.  (stake; the code breaks it)                    *)
(***************************************************************************)
LinkedUserCanStake ==
    \A u \in Signers, p \in Uploaded, n \in StakeAmounts :
        LET k == EVMLinks[u]
        IN  (k # None /\ EthLockedFrag[k] # None
               /\ EthLockedFrag[k] >= FragUsage[u] + n)
              => StakeAllowed(u, p, n)

-----------------------------------------------------------------------------
(* The account that others take for the owner; an asset is none. *)
OwnerOf(p) == IF Protos[p] # None /\ Protos[p].owner \in Accounts
              THEN Protos[p].owner ELSE None

Shown == INSTANCE Registry WITH
    owner    <- [p \in Hashes |-> OwnerOf(p)],
    detached <- DetachedHashes

(***************************************************************************)
(* What the fragments pallet relies on: a proto has an owner from one      *)
(* upload on, changes hands only while it is attached, and stays detached. *)
(* (Registry; upload, transfer, detach, internal_finalize_detach)          *)
(***************************************************************************)
IsRegistry == Shown!RegistrySpec

(* What an account has staked on a proto. *)
AmountOf(s) == IF ProtoStakes[s] = None THEN None ELSE ProtoStakes[s].amount

Books == INSTANCE Ledger WITH
    holder  <- EVMLinksReverse,
    counted <- EVMLinkVotingClosed,
    locked  <- EthLockedFrag,
    stake   <- [s \in Hashes \X Accounts |-> AmountOf(s)],
    leaving <- Range(PendingUnlinks)

(***************************************************************************)
(* Links, locks and stakes of both pallets come to one ledger: a stake is  *)
(* placed by the holder of a key that has as much locked, and goes by the  *)
(* holder taking it back or at the end of a block in which its account     *)
(* lost its key; a log takes effect once.  (Ledger; link, unlink,          *)
(* internal_lock_update, stake, unstake, on_finalize)                      *)
(***************************************************************************)
IsLedger == Books!LedgerSpec

=============================================================================
