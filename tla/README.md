# Clamor in TLA+

A specification of the four pallets that make up Clamor's own logic
(`src/pallets/{accounts,protos,fragments,detach}`), the TLC runs that check it
on small instances, and proofs, checked by TLAPS, that hold for every instance.

## The system

Clamor is a Substrate chain. A **Proto-Fragment** is a piece of data that is
uploaded, patched and transferred; **Fragment definitions** are made from it and
**instances** of them are minted, sold, copied, given away and expire. A proto
may require FRAG to be staked by those who include it in theirs; FRAG is locked
in an Ethereum contract, and validators vote on what they saw there. A proto can
be **detached** to another chain: nodes sign a message for the contract there.

| component | state | operations | interacts with |
|---|---|---|---|
| `pallet_accounts` | links between accounts and Ethereum keys, usage and locked FRAG, votes, the queue of unlinked accounts, sponsored accounts | `link`, `unlink`, `internal_lock_update`, `sponsor_account`, `add_key`, `del_key` | protos reads its links and drains its queue |
| its off-chain worker (EthSync) | on each node the last Ethereum block read, its runs, its pool | `sync_partner_contracts` | geth over HTTP; sends votes to the node's own pool |
| `pallet_protos` | protos, lists by owner and category, tag and metadata indexes, stakes | `upload`, `patch`, `transfer`, `set_metadata`, `detach`, `stake`, `unstake`, `on_finalize`, `get_protos` | accounts (links), detach (requests, detached hashes) |
| `pallet_fragments` | definitions, sales, editions, copies, instances, owners, unique data, expirations | `create`, `publish`, `unpublish`, `mint`, `buy`, `give`, `create_account`, `on_finalize` | protos (owner), detach (detached hashes), balances and assets |
| `pallet_detach` | requests of the block, nonces, detached hashes, keys; on each node a list of requests and a pool | `on_finalize`, the off-chain worker, `internal_finalize_detach`, key calls | protos queues the requests |
| runtime, node, RPC, primitives | configuration and wiring | | |

**Dispatchables are atomic.** A call runs to its end or leaves storage as it
was, so each is one action, every early `Err` is a guard of it, and
interleaving happens between calls. What is hard here is therefore:

* *long sequences of calls by several parties* that relate several maps
  (links and their reverse; stakes, their lists, links and usage; an instance in
  four maps; a sale against a supply);
* *work postponed to the end of a block* in another pallet than the one that
  asked for it (unlinked accounts, expirations, detach requests);
* *what the nodes do on their own*: votes that arrive late or again, workers
  that overlap or read a stale block, a geth that fails half-way, databases that
  survive a crash and pools that do not;
* *lists and indexes kept beside the data*, which queries read instead of it.

`PROJECT.json` lists the hazards one by one, at their lines.

## Modules

```
pallet          composition, queries       promise (abstract)   proofs, for TLC
Accounts                                                        AccountsProofs, MCAccounts
  ├─ EthSync    (Accounts + its workers)   LockBridge           EthSyncProofs, MCEthSync
  └─ Protos     (Accounts + the registry)  Registry             ProtosProofs, MCProtos
       │           (links, locks, stakes)  Ledger               RegistryProofs
       └─ ProtosQuery   (get_protos)                            RegistryProofs
Fragments       (over Registry)            Holdings             FragmentsProofs, HoldingsProofs,
                                                                MarketProofs, MCFragments
Detach          (pallet and nodes)         Releases             DetachProofs
```

* **Accounts** models `pallet_accounts`. Each storage map is a total function
  with `None` at absent keys. A log of the Ethereum contract is a record; two
  logs share a vote hash iff they are equal. `validate_unsigned` is part of
  `InternalLockUpdate`, because it runs again when the transaction is included.
  `ballots` and `applied` are history. `UnlinkAccount` is shared by `Unlink` and
  by an unlock that was carried, as `unlink_account` is. By itself, any validator
  may vote on any log at any time.
* **EthSync** puts the off-chain worker under it. A run asks for the head
  (`AskHead`), reads the stored block and asks for the logs (`AskLogs`, both ends
  of the range inclusive), votes for them one by one (`SendVote`) and stores the
  block it asked for (`StoreLastBlock`); `GethFails` is any failure before the
  votes, `Refused` what the worker does when the pool refuses a vote. Each worker
  is a thread: two on one node overlap, two on two nodes race. `todo` holds what
  the answer had left and keeps positions, so the order of logs within a block is
  kept. All partner contracts share the stored block, as they share
  `frag_sync_last_block`. `IncludeVote` is a node authoring a block with the
  next vote of its own pool (votes are not propagated), which either has the
  effect of `InternalLockUpdate` or none; `Crash` loses runs and pool, not the
  stored block. `sent` and `lost` are history.
* **LockBridge** is what pallet and workers promise: a log takes effect at most
  once, when it is `EthConfirmations` deep, and then says what its key has
  locked. EthSync implements it (`IsBridge`) with the closed votes as the logs
  that took effect.
* **Protos** extends Accounts as the pallet's `Config` extends the other's; its
  `OnFinalize` drains the queue. Lists whose order plays no part are modelled by
  the number of times a hash stands in each, so that a repetition is visible.
  `LockedFragAccount` is `get_locked_frag_account`: `Stake` works on the derived
  account, `Unstake` and `Licensed` on the caller, as in the code. Whether
  somebody can sign for a derived account is a choice of `Signers`
  (`pallet_sudo` of the runtime can). `Unstake` is disabled where the code
  unwraps an absent counter, because the panic discards the call. `Intern`
  states what the loop over a list of tags or keys comes to, without recursion.
* **ProtosQuery** models `get_protos` over the registry of Protos: `Places` are
  the places in the lists by owner or by category that it comes across,
  `FilterProto` is `filter_proto`, `Passing` the places that pass it, `Found` the
  list of them in any order the indexes may have, and `Page` cuts it. `Scan` is
  the reference: a search of the protos themselves.
* **Registry** is what the other pallets may assume of the protos: each gets a
  first owner once, changes hands until it is detached, and stays detached.
  Protos implements it (`IsRegistry`, with `OwnerOf` and `Shown`), and Fragments,
  which reads owners and detached hashes, has it as its environment
  (`RegistryStep`). So a class can meet a proto that has no owner yet, or none
  at all because an asset owns it.
* **Ledger** is what Accounts and Protos together promise about FRAG: which
  account holds which Ethereum key, which logs counted, what each key has locked,
  and what is staked. A stake is placed by the holder of a key that has as much
  locked; it goes when the holder takes it back, or when the block ends in which
  its account lost a key. Votes, usage counters, the other map of links, lists of
  stakes and lock-ups are not in it. Protos implements it (`IsLedger`), with
  the holder of a key in `EVMLinksReverse` and those who leave in
  `PendingUnlinks`. A lock of less than is staked leaves the stakes alone
  in it (`Count`), as the code never slashes (see `usage` below).
* **Fragments** models `pallet_fragments`. An instance is (class, edition,
  copy). `MintFragments` is `mint_fragments` with the supply check of its caller
  in `Mint` and the units check in `Buy`. A call whose payment fails is a call
  that is not made. `Owners` and `Inventory` count entries of lists, so a
  repetition is visible.
* **Holdings** is what it promises about instances: each is given out once, has
  one holder while it exists, and is passed on only with the right to and with
  no more rights. Fragments implements it (`IsHoldings`) with the holder that
  the search of `on_finalize` finds.
* **Detach** models `pallet_detach` with its nodes. `Request` is
  `Protos::detach`; `OnFinalize` writes the list into the database of every
  node; a worker's run starts by reading its list and the state of its block
  (`StartRun`), goes through the list (`ProcessRequest`), and clears it if
  nothing replaced it (`EndRun`), which is what `StorageValueRef::mutate` does.
  `InternalFinalizeDetach` is a node including a transaction of its own pool
  (they are not propagated). `Restart` loses run and pool and keeps the database.
* **Releases** is what all of that comes to from outside: an owner asks, and the
  chain releases one message at a time, for a request that was made and a valid
  target, with a nonce whose predecessors for the target were released; the
  message and the detached proto become visible in one step. Detach implements
  it (`IsReleases`).

Operators marked "Mutated form" are variants with a plausible bug. No
specification uses them; for each property there is one with which TLC finds the
property violated (`PROJECT.json`, `mutants`).

## Runs

| run | instance | shows |
|---|---|---|
| `accounts` | 2 accounts, 2 keys, 5 logs, 2 validators, threshold 2, up to 2 queued accounts | links are one to one, logs take effect once with a quorum, locked FRAG comes from logs, losses are queued, deposits match |
| `eth_sync` | 1 key that locks and unlocks, 1 account that links and unlinks, Ethereum blocks to 3 with 1 confirmation, a node with two workers that overlap, 2 stops, threshold 1 | no log is passed over, logs take effect in order and the last one of a key says what is locked, both unless a vote is lost; every log is voted for in the end; the whole is LockBridge |
| `staking` | 3 accounts, 2 signers, 1 key, 2 protos, 2 amounts, 4 blocks, lock-up 1 | stakes are listed, backed, end in time and go when their account is unlinked; both pallets together are Ledger |
| `registry` | 2 protos, 2 accounts, 1 external asset, lists of two tags, 1 metadata key, 1 patch, free or closed protos; symmetric in users and protos | lists and indexes, every page of every query against a scan, no circular lineage, detached protos are frozen, the whole is Registry |
| `market` | 1 class over Registry, 2 accounts, quantities 1 and 2, 5 editions, 2 pieces of unique data, 3 blocks | numbering, unique data, a supply is at most doubled, a detached class only sells out |
| `gifts` | 1 edition, 3 copies, 2 accounts, 4 blocks | one owner, two equal maps, expirations, copies as limited as what their giver keeps, permissions shrink, the whole is Holdings |
| `detach` | 1 proto, a good and a malformed target, 2 nodes, 2 requests a block, nonces to 2 | nonces have no gap, lists are kept until done, the whole is Releases: what is released was asked for, to a valid target, once its nonce is due |

Why the bounds are enough for the interesting cases. Two validators with a
threshold of two vote in both orders, and again after the vote closed; five logs
lock, top up and unlock, and one carries a foreign signature. A lock and an
unlock in two blocks, of which the worker sees none, one or both at its first
look, are read twice by every later run; two stops hit the node before its first
vote, between two votes, or with votes in its pool, and its key is withdrawn and
added at will. Two workers of one node are what may take the stored block back.
Two nodes that race are `stale_lock`, which finds the disorder they cause; what
they keep (`LogsSent`, `InOrderUnlessLost`, `LatestUnlessLost`, `IsBridge`) is proved for any number
of nodes and workers. Two protos are
enough for one stake that ends by `unstake` and another that ends with the link,
and for two references to each other. Four blocks hold a stake, its lock-up and
its end. Three copies are a copy of a copy, with expirations before and after
one another. Two protos make pages of one and of two, and lists that lose and
regain a proto by transfers. Two nodes are enough for one that lags behind the other with an old
list, an old block or an old transaction. The bounds `MaxPending`, `MaxPatches`,
`MaxEdition`, `MaxCopy`, `MaxBatch`, `MaxNonce`, `MaxHead` and `MaxCrashes` cut off counters that the code
leaves unbounded; the clock stops at `MaxBlock`, where blocks go on ending.
`StakingSpec`, used by the runs on stakes, leaves out the edits that no stake
operation reads. Deadlock is checked in every run.

Fairness. `OnFinalize` of Protos and of Fragments is weakly fair, since the
chain keeps producing blocks and the hook runs in each (`UnlinkedStakesGo`,
`ExpiringGoes`). In EthSync the Ethereum chain grows, Clamor blocks are authored
by each node and end, and the node's worker is started with every block, so
`MineBlock`, `EndBlock` and the worker's own steps are weakly fair. `AskLogs` is
strongly fair: geth may fail any number of times, each failure starting the run
anew, but not forever. `IncludeVote` is strongly fair too: in the code a vote in
the pool can be included at any time, in the model a full queue (`MaxPending`) may
hold it up until the next end of a block. Nobody is obliged to make a call, to keep
a key or to stop, so none of these is fair; `EveryLogCounts` is about a node whose
key is not withdrawn for good, and excepts the votes it loses from its pool,
which the code never sends again.

### Where the code departs from its documentation

Five runs each check one sentence of the repository and end in a counterexample.
What holds instead, for every instance, is proved beside it.

* `usage`: `FragUsage` is said to be the FRAG an account has staked
  (`accounts/src/lib.rs:239`, and the assertion in `protos/src/tests.rs:644`);
  the code drops the sum (`protos/src/lib.rs:689`) and the counter stays 0:
  `UsageIsZero`, so that no unlock finds anything to slash (`LocksNeverSlash`).
* `linked_user`: a linked user with FRAG can stake (`protos/src/tests.rs:698`);
  the code looks for the link of the derived account (`protos/src/lib.rs:668`).
  A stake is a derived account's that can itself sign, and its amount was the
  locked FRAG of a log that took effect (`StakesAreBought`).
* `supply`: `max_supply` is the number of editions that can be made
  (`fragments/src/lib.rs:406`); mint and sale each keep to it, not together.
  What does hold, twice the supply, is `SupplyAtMostDoubled`; and as long as no
  owner mints beside an open sale, `SupplyRespected` itself (`SupplyKeptBesides`).
* `stale_lock`: the amount of a lock is the total its key has locked
  (`accounts/src/lib.rs:146`); `internal_lock_update` compares no blocks
  (`:513`), so a lock whose votes come late overwrites the unlock after it.
  What does hold are `InOrderUnlessLost` and `LatestUnlessLost`: only a vote that
  a stop or a withdrawn key took out of a pool can come back late and leave an
  old total behind.
* `nonce`: a nonce is in 1:1 relationship with the remote chain
  (`detach/src/lib.rs:132`); requests of one list share one (`:635`).
  What does hold is `NoncesHaveNoGap`.

## Proofs

The proof modules prove, for any sets and bounds that satisfy the named
assumptions of the modules, every safety property of the passing runs, the five
refinements (`IsBridge`, `IsHoldings`, `IsLedger`, `IsRegistry`, `IsReleases`), and
that Protos and EthSync run Accounts as its own specification says. The assumptions
say that `None` differs from every value and record a map can hold, that signers
are accounts and events are logs, that bounds are naturals, that assets are not
accounts, that lists of tags are lists, and of the contracts' logs that they come
in the order of their blocks, none in block 0 and no two equal.

* *Accounts.* `LinksInverse` and `UsageOnlyIfLinked` (only a linked account has
  a usage counter) are inductive together: a
  carried unlock unlinks the account that the reverse map names, and only the
  inverse makes that the account whose counter goes. `EffectNeedsQuorum` and
  `LockedComesFromLogs` are strengthened by what an open vote looks like.
  `UsageIsZero` needs that a link starts its counter at 0 and that nothing adds
  to it; `LocksNeverSlash` follows.
* *EthSync.* `PalletKeepsItsSpec` first: each step of the composition is a step
  of Accounts or leaves the pallet alone. `LogsSent` is proved from what a run
  knows: every log up to its last block that is not in `todo` was sent, as the
  stored block it began at was itself reached, whichever run stored it and
  whatever another run stored since.
  `EffectsInOrder` adds that a pool holds a log only with the earlier ones sent
  before it, so that the first in the pool is the first to count.
  `LatestLocked` rests on its invariant: if a log takes effect after a later one
  of its key, all before the later one had taken effect or been lost, and the log
  itself was open. `IsBridge`
  needs both that a vote is only ever for a final log and, from Accounts, that
  a log which took effect was not closed before.
* *Protos.* `ImplementsAccounts` shows that the accounts part of a Protos
  behaviour is an Accounts behaviour (a block end is `TakePendingUnlinks` or a
  stutter), which carries the theorems about Accounts over. `StakesAreBacked`
  then rests on `UsageOnlyIfLinked` and on each loss being queued in the same
  step; `StakesEndInTime` on `StakesAreListed`, since the end of a block clears
  what the lists name. `LineageSound`: a new proto refers only to older ones, so
  a set of protos without a root would have had none before. `IndexesDense`:
  ranked by their first places in the list, the unknown names get each number
  once (`RanksAreDense`, by counting), and `InternDense` carries this to a map
  that has numbers already. `StakesBought` uses `ImplementsAccounts` to take over
  where locked FRAG comes from.
* *Registry.* `EveryPageHolds` is for pages of any length, not only those that
  the run counts through, and `PagesComplete` is its instance. A list
  in any order is a bijection from `1..n`; the page of a place is the least whose
  end reaches it; and a page has as many protos as places, since `ListedOnce`
  makes the places that pass as many as the protos the scan finds.
  `ImplementsRegistry` adds `RequestedAreOwned`, without which a proto that was
  asked to be detached could be sealed with no owner.
* *Ledger.* `ImplementsLedger` goes by the calls. A link is a `Tie` because
  `LinksInverse` makes a key without an account one that no account has; an
  unlock that was carried parts the holder that the reverse map names; a lock
  changes nothing but what is locked because `UsageIsZero` leaves nothing to
  slash; a stake that goes at the end of a block is one of an account in the
  queue, and all of those go, because `StakesAreListed` makes the list name every
  stake.
* *Fragments.* Every step leaves instances alone, mints, gives a copy, hands one
  over or ends a block (`StepKinds`), and each lemma goes through these five.
  `NumberedWithinCounts` is inductive with the types; from it, what is minted or
  copied did not exist before, which `NumbersGivenOnce`, `PermissionsOnlyShrink`,
  `CopiesInherit`, `ExpirationsAreScheduled` and `OneOwner` all need. `OneOwner`
  also needs `InventoryIsOwners`, as the code looks for the giver in `Inventory`
  and for who holds an expired instance in `Owners`. `UniqueDataOnce` is
  strengthened by `DataKnown`: the map knows the data of every instance, one
  below its edition. `SupplyAtMostDoubled` is strengthened by what a class that
  was not created looks like, and by the sale of a scarce class being counted;
  `ScarceMoves` names the five things that can happen to such a class, and
  `SupplyKeptBesides` goes through the same five without the mint beside a sale.
  `ImplementsHoldings` puts them together: a gift is a `CopyTo` or a `HandOver`
  because `OneOwner` makes the giver the holder that the search finds, a mint is
  a `MintNew` because numbers are given once, and a block end is an `Expire`.
* *Detach.* `ReleasedWasAsked` (a released message is for a request that was
  made, to a well-formed target) is proved from `AskedInv`: lists, runs and pools
  hold only requests that were made and messages for them. `NoncesHaveNoGap`
  needs `NoncesFilled`: whatever a worker once read or put in a pool follows
  nonces that were all released. That survives stale reads, as what was released
  stays released, and the chain taking its nonce back. Both together give
  `ImplementsReleases`. `FinalizesOnlyRequests` discharges what Protos assumes of
  the other pallet: `Protos!FinalizeDetach`, and with it `Registry!Seal`, only
  ever happens to a proto whose detachment was asked for.

Only model-checked: liveness (`UnlinkedStakesGo`, `ExpiringGoes`,
`EveryLogCounts`), which the prover does not do.

## Not modelled

* How a log or an answer of geth is parsed (a bad one is `GethFails`), and a bad
  log in the middle of an answer after votes were sent, which ends the run like
  a refused vote does.
* What an answer of `get_protos` shows of each proto, the RPC that forwards it,
  the transaction index of the storage chain; the node; weights and benchmarks.
* That `UniqueData2Edition` holds the number before the edition is modelled
  (`UniqueDataOnce` is proved with it) and not checked against a promise.
* Prices, balances, stack amounts and `create_account`: deposits and payments
  are those of other pallets, and a failing one undoes the call.
* Forks and finality: pools, workers and the chain see one chain that grows.
* Workers of one node that overlap each other in Detach: a node runs one at a
  time. Two nodes show the same races, save for the list that two runs would
  share. In EthSync they may overlap.
* A vote of a log that two contracts or two equal logs of one block share: the
  assumption `PartnersHaveLogs` excludes the latter; the pallet takes both for
  one log.
* Hash functions and signatures: equal hashes mean equal data, and a signature
  is the key it recovers to.

## Plan

1. *Done*: Accounts, Protos, Fragments, Detach, EthSync and ProtosQuery; the
   abstract LockBridge, Holdings, Ledger, Registry and Releases with their
   refinements; Fragments over Registry; and the proofs above.
2. *Left*: liveness of Detach, that an authorised node which keeps running works
   off a list of well-formed requests.
3. *Left*: one behaviour of Protos and Detach together. Each is checked against
   what the other promises: Protos takes a detachment only of what was asked for,
   which `FinalizesOnlyRequests` proves of Detach.
