---------------------------- MODULE ProtosProofs ----------------------------
(***************************************************************************)
(* What is proved of the protos pallet for any instance of it.  The first  *)
(* theorem shows that it runs the accounts pallet correctly, so that the   *)
(* invariants of AccountsProofs hold here as well.                         *)
(***************************************************************************)
EXTENDS Protos, AccountsProofs, SequenceTheorems

(* No call on the registry touches a stake, the clock or the accounts.     *)
LEMMA RegistryKeepsStakes ==
    ASSUME Uploads \/ Edits
    PROVE  UNCHANGED <<accountsVars, ProtoStakes, AccountStakes, now>>
<1> DEFINE Kept == UNCHANGED <<accountsVars, ProtoStakes, AccountStakes, now>>
<1>1. \A u, p, refs, c, ts, asset, cost :
        Upload(u, p, refs, c, ts, asset, cost) => Kept
  BY DEF Upload, stakeVars
<1>2. \A u, p, cost, refs, ts, hasData :
        Patch(u, p, cost, refs, ts, hasData) => Kept
  BY DEF Patch, stakeVars
<1>3. \A u, p, new : Transfer(u, p, new) => Kept
  BY DEF Transfer, stakeVars
<1>4. \A u, p, m : SetMetadata(u, p, m) => Kept
  BY DEF SetMetadata, stakeVars
<1>5. \A u, p : Detach(u, p) \/ FinalizeDetach(p) => Kept
  BY DEF Detach, FinalizeDetach, stakeVars
<1> HIDE DEF Kept
<1>6. Kept
  BY <1>1, <1>2, <1>3, <1>4, <1>5 DEF Uploads, Edits
<1> QED
  BY <1>6 DEF Kept

(* The protos pallet takes the queue of unlinked accounts as the accounts  *)
(* pallet expects, and changes nothing else of it.                         *)
THEOREM ImplementsAccounts == Spec => AccountsSpec
<1>1. Init => AccountsInit
  BY DEF Init
<1>2. [Next]_vars => [AccountsNext]_accountsVars
  <2> SUFFICES ASSUME [Next]_vars
               PROVE  [AccountsNext]_accountsVars
    OBVIOUS
  <2>1. CASE Uploads \/ Edits
    BY <2>1, RegistryKeepsStakes
  <2>2. CASE Staking
    BY <2>2 DEF Staking, Stake, Unstake
  <2>3. CASE AccountsStep
    BY <2>3 DEF AccountsStep, AccountsNext
  <2>4. CASE OnFinalize
    BY <2>4 DEF OnFinalize, AccountsNext, TakePendingUnlinks, accountsVars,
                voteVars, sponsorVars
  <2>5. CASE UNCHANGED vars
    BY <2>5 DEF vars
  <2> QED
    BY <2>1, <2>2, <2>3, <2>4, <2>5 DEF Next
<1> QED
  BY <1>1, <1>2, PTL DEF Spec, AccountsSpec

-----------------------------------------------------------------------------
(* A list has finitely many names. *)
LEMMA RangeFinite ==
    ASSUME NEW names, names \in Seq(Range(names))
    PROVE  IsFiniteSet(Range(names))
<1>1. DOMAIN names = 1 .. Len(names) /\ Len(names) \in Nat
  BY LenProperties
<1>2. IsFiniteSet(DOMAIN names)
  BY <1>1, FS_Interval
<1>3. names \in Surjection(DOMAIN names, Range(names))
  BY <1>1 DEF Range, Surjection
<1> QED
  BY <1>2, <1>3, FS_Surjection

(* What interning a list of names into a map returns.                      *)
LEMMA InternType ==
    ASSUME NEW T, NEW map \in [T -> Nat], NEW last \in Nat,
           NEW names, names \in Seq(Range(names))
    PROVE  /\ Intern(map, last, names).map \in [T -> Nat]
           /\ Intern(map, last, names).last \in Nat
<1> DEFINE new == {t \in Range(names) : map[t] = 0}
<1>1. IsFiniteSet(Range(names))
  BY RangeFinite
<1>2. \A S \in SUBSET new : Cardinality(S) \in Nat
  BY <1>1, FS_Subset, FS_CardinalityType
<1>3. \A t : Cardinality(new \cap UpTo(names, t)) \in Nat
  BY <1>2
<1> QED
  BY <1>2, <1>3 DEF Intern

LEMMA InternTagsType ==
    ASSUME IndexTypeOK, NEW ts \in TagLists, InternTags(ts)
    PROVE  /\ Tags' \in [TagNames -> Nat]
           /\ TagsIndex' \in Nat
           /\ Tagged(ts) \in SUBSET Nat
<1>1. ts \in Seq(Range(ts))
  BY TagListsAreLists
<1>2. Tags' \in [TagNames -> Nat] /\ TagsIndex' \in Nat
  BY <1>1, InternType DEF InternTags, IndexTypeOK
<1>3. Range(ts) \subseteq TagNames
  BY DEF TagNames
<1> QED
  BY <1>2, <1>3 DEF Tagged

(* The variables that a type invariant of its own speaks of.               *)
OwnTypeOK == RegistryTypeOK /\ IndexTypeOK /\ StakesTypeOK

LEMMA UploadType ==
    ASSUME OwnTypeOK,
           NEW u \in Signers, NEW p \in Hashes, NEW refs \in SUBSET Hashes,
           NEW c \in Categories, NEW ts \in TagLists, NEW cost \in Costs,
           NEW asset \in Assets \cup {None},
           Upload(u, p, refs, c, ts, asset, cost)
    PROVE  /\ OwnTypeOK'
           /\ Protos'[p] \in Proto
           /\ Protos'[p].owner = IF asset # None THEN asset ELSE u
           /\ Protos'[p].category = c
           /\ \A q \in Hashes \ {p} : Protos'[q] = Protos[q]
<1> DEFINE owner == IF asset # None THEN asset ELSE u
           new == [include_cost |-> cost, owner |-> owner,
                   references |-> refs, category |-> c,
                   tags |-> Tagged(ts),
                   metadata |-> {}, patches |-> <<>>]
<1>1. owner \in Accounts \cup Assets
  BY SignersAreAccounts
<1>2. /\ Tags' \in [TagNames -> Nat]
      /\ TagsIndex' \in Nat
      /\ Tagged(ts) \in SUBSET Nat
  BY InternTagsType DEF OwnTypeOK, Upload
<1>3. new \in Proto
  BY <1>1, <1>2 DEF Proto
<1>4. RegistryTypeOK'
  <2> HIDE DEF owner, new
  <2>1. /\ Protos' = [Protos EXCEPT ![p] = new]
        /\ ProtosByOwner' = [ProtosByOwner EXCEPT ![<<owner, p>>] = @ + 1]
        /\ ProtosByCategory' = [ProtosByCategory EXCEPT ![<<c, p>>] = @ + 1]
        /\ UNCHANGED <<Requested, DetachedHashes>>
    BY DEF Upload, detachVars, owner, new
  <2> QED
    BY <1>1, <1>3, <2>1 DEF OwnTypeOK, RegistryTypeOK
<1>5. UNCHANGED <<MetaKeys, MetaKeysIndex, ProtoStakes, AccountStakes, now>>
  BY DEF Upload, stakeVars
<1>6. /\ Protos'[p] = new
      /\ \A q \in Hashes \ {p} : Protos'[q] = Protos[q]
  <2> HIDE DEF new
  <2> QED
    BY DEF Upload, OwnTypeOK, RegistryTypeOK, new
<1>7. OwnTypeOK'
  BY <1>2, <1>4, <1>5 DEF OwnTypeOK, IndexTypeOK, StakesTypeOK
<1> QED
  BY <1>3, <1>6, <1>7

(* The owner and the category of a proto stay, and so do the lists.        *)
SamePlaces ==
    /\ UNCHANGED <<ProtosByOwner, ProtosByCategory>>
    /\ \A p \in Hashes :
         \/ Protos'[p] = Protos[p]
         \/ /\ Protos[p] # None /\ Protos'[p] # None
            /\ Protos'[p].owner = Protos[p].owner
            /\ Protos'[p].category = Protos[p].category

LEMMA PatchType ==
    ASSUME OwnTypeOK,
           NEW u \in Signers, NEW p \in Hashes, NEW cost \in Costs,
           NEW refs \in SUBSET Hashes, NEW ts \in TagLists \cup {None},
           NEW hasData \in BOOLEAN,
           Patch(u, p, cost, refs, ts, hasData)
    PROVE  OwnTypeOK' /\ SamePlaces
<1> DEFINE old == Protos[p]
           patches == IF hasData THEN Append(old.patches, refs)
                      ELSE old.patches
           tags == IF ts = None THEN old.tags
                   ELSE Tagged(ts)
<1>1. old \in Proto
  BY DEF OwnTypeOK, RegistryTypeOK, Patch, Editable
<1>2. /\ Tags' \in [TagNames -> Nat]
      /\ TagsIndex' \in Nat
      /\ tags \in SUBSET Nat
  <2>1. CASE ts = None
    BY <1>1, <2>1 DEF OwnTypeOK, IndexTypeOK, Patch, Proto
  <2>2. CASE ts # None
    BY <2>2, InternTagsType DEF OwnTypeOK, Patch
  <2> QED
    BY <2>1, <2>2
<1>3. patches \in Seq(SUBSET Hashes)
  BY <1>1 DEF Proto
<1>4. [old EXCEPT !.patches = patches, !.include_cost = cost,
                  !.tags = tags] \in Proto
  <2> HIDE DEF old, patches, tags
  <2> QED
    BY <1>1, <1>2, <1>3 DEF Proto
<1>5. Protos' = [Protos EXCEPT ![p] =
        [old EXCEPT !.patches = patches, !.include_cost = cost,
                    !.tags = tags]]
  BY <1>1 DEF Patch, OwnTypeOK, RegistryTypeOK
<1>6. UNCHANGED <<ProtosByOwner, ProtosByCategory, Requested, DetachedHashes,
                  MetaKeys, MetaKeysIndex, ProtoStakes, AccountStakes, now>>
  BY DEF Patch, stakeVars, detachVars
<1>7. RegistryTypeOK'
  <2> HIDE DEF old, patches, tags
  <2> QED
    BY <1>4, <1>5, <1>6 DEF OwnTypeOK, RegistryTypeOK
<1>8. OwnTypeOK'
  BY <1>2, <1>6, <1>7 DEF OwnTypeOK, IndexTypeOK, StakesTypeOK
<1>9. SamePlaces
  <2>1. /\ Protos'[p] \in Proto
        /\ Protos'[p].owner = old.owner
        /\ Protos'[p].category = old.category
    <3> HIDE DEF patches, tags
    <3> QED
      BY <1>1, <1>4, <1>5 DEF Proto, OwnTypeOK, RegistryTypeOK
  <2>2. \A q \in Hashes \ {p} : Protos'[q] = Protos[q]
    BY <1>5 DEF OwnTypeOK, RegistryTypeOK
  <2> QED
    BY <1>1, <1>6, <2>1, <2>2, NoneIsNoRecord DEF SamePlaces
<1> QED
  BY <1>8, <1>9

LEMMA TransferType ==
    ASSUME OwnTypeOK,
           NEW u \in Signers, NEW p \in Hashes, NEW new \in Accounts,
           Transfer(u, p, new)
    PROVE  OwnTypeOK' /\ Protos'[p] # None
<1>1. u \in Accounts
  BY SignersAreAccounts
<1>2. Protos[p] \in Proto
  BY DEF OwnTypeOK, RegistryTypeOK, Transfer, Editable
<1>3. [Protos[p] EXCEPT !.owner = new] \in Proto
  BY <1>2 DEF Proto
<1>4. Protos' = [Protos EXCEPT ![p] = [Protos[p] EXCEPT !.owner = new]]
  BY DEF OwnTypeOK, RegistryTypeOK, Transfer
<1>5. RegistryTypeOK'
  BY <1>1, <1>3, <1>4
  DEF OwnTypeOK, RegistryTypeOK, Transfer, Moved, detachVars
<1>6. Protos'[p] # None
  BY <1>3, <1>4, NoneIsNoRecord DEF OwnTypeOK, RegistryTypeOK
<1> QED
  BY <1>5, <1>6 DEF OwnTypeOK, IndexTypeOK, StakesTypeOK, Transfer, indexVars,
              stakeVars

LEMMA SetMetadataType ==
    ASSUME OwnTypeOK,
           NEW u \in Signers, NEW p \in Hashes, NEW m \in MetaKeyNames,
           SetMetadata(u, p, m)
    PROVE  OwnTypeOK' /\ SamePlaces
<1> DEFINE st == Intern(MetaKeys, MetaKeysIndex, <<m>>)
           new == [Protos[p] EXCEPT !.metadata = @ \cup {st.map[m]}]
<1>1. <<m>> \in Seq(Range(<<m>>))
  BY DEF Range
<1>2. st.map \in [MetaKeyNames -> Nat] /\ st.last \in Nat
  BY <1>1, InternType DEF OwnTypeOK, IndexTypeOK
<1>3. IndexTypeOK'
  BY <1>2 DEF OwnTypeOK, IndexTypeOK, SetMetadata
<1> HIDE DEF st
<1>4. Protos[p] \in Proto
  BY DEF OwnTypeOK, RegistryTypeOK, SetMetadata, Editable
<1>5. new \in Proto
  BY <1>2, <1>4 DEF Proto
<1>6. Protos' = [Protos EXCEPT ![p] = new]
  BY DEF OwnTypeOK, RegistryTypeOK, SetMetadata, st
<1>7. RegistryTypeOK'
  <2> HIDE DEF new
  <2> QED
    BY <1>5, <1>6 DEF OwnTypeOK, RegistryTypeOK, SetMetadata, detachVars
<1>8. OwnTypeOK'
  BY <1>3, <1>7 DEF OwnTypeOK, StakesTypeOK, SetMetadata, stakeVars
<1>9. SamePlaces
  <2>1. /\ Protos'[p] \in Proto
        /\ Protos'[p].owner = Protos[p].owner
        /\ Protos'[p].category = Protos[p].category
    BY <1>4, <1>5, <1>6 DEF Proto, OwnTypeOK, RegistryTypeOK
  <2>2. \A q \in Hashes \ {p} : Protos'[q] = Protos[q]
    BY <1>6 DEF OwnTypeOK, RegistryTypeOK
  <2> QED
    BY <1>4, <2>1, <2>2, NoneIsNoRecord DEF SamePlaces, SetMetadata
<1> QED
  BY <1>8, <1>9

LEMMA StakingType ==
    ASSUME OwnTypeOK, Staking
    PROVE  OwnTypeOK'
<1>1. ASSUME NEW u \in Signers, NEW p \in Hashes, NEW n \in StakeAmounts,
             Stake(u, p, n)
      PROVE  OwnTypeOK'
  <2>1. LockedFragAccount[u] \in Accounts
    BY LockedAccounts
  <2>2. [amount |-> n, block |-> now] \in StakeData
    BY StakesAreNat, PeriodsAreNat DEF OwnTypeOK, StakesTypeOK, StakeData
  <2> QED
    BY <1>1, <2>1, <2>2
    DEF OwnTypeOK, RegistryTypeOK, IndexTypeOK, StakesTypeOK, Stake,
        registryVars, indexVars, detachVars
<1>2. ASSUME NEW u \in Signers, NEW p \in Hashes, Unstake(u, p)
      PROVE  OwnTypeOK'
  BY <1>2, SignersAreAccounts
  DEF OwnTypeOK, RegistryTypeOK, IndexTypeOK, StakesTypeOK, Unstake,
      registryVars, indexVars, detachVars
<1> QED
  BY <1>1, <1>2 DEF Staking

LEMMA OnFinalizeType ==
    ASSUME OwnTypeOK, OnFinalize
    PROVE  OwnTypeOK'
<1>1. StakesTypeOK'
  BY PeriodsAreNat DEF OwnTypeOK, StakesTypeOK, OnFinalize
<1> QED
  BY <1>1 DEF OwnTypeOK, RegistryTypeOK, IndexTypeOK, OnFinalize,
              registryVars, indexVars, detachVars

(* The registry, its indexes and the stakes hold values of their types,    *)
(* whatever was uploaded, edited, staked or unlinked.                      *)
THEOREM TypeCorrect == Spec => []TypeOK
<1>1. Init => OwnTypeOK
  BY PeriodsAreNat
  DEF Init, OwnTypeOK, RegistryTypeOK, IndexTypeOK, StakesTypeOK
<1>2. OwnTypeOK /\ [Next]_vars => OwnTypeOK'
  <2> SUFFICES ASSUME OwnTypeOK, [Next]_vars
               PROVE  OwnTypeOK'
    OBVIOUS
  <2>1. CASE Uploads
    BY <2>1, UploadType DEF Uploads
  <2>2. CASE Edits
    <3>1. ASSUME NEW u \in Signers, NEW p \in Hashes, Detach(u, p)
          PROVE  OwnTypeOK'
      BY <3>1
      DEF OwnTypeOK, RegistryTypeOK, IndexTypeOK, StakesTypeOK, Detach,
          registryVars, indexVars, stakeVars
    <3>2. ASSUME NEW p \in Hashes, FinalizeDetach(p)
          PROVE  OwnTypeOK'
      BY <3>2
      DEF OwnTypeOK, RegistryTypeOK, IndexTypeOK, StakesTypeOK,
          FinalizeDetach, registryVars, indexVars, stakeVars
    <3> QED
      BY <2>2, <3>1, <3>2, PatchType, TransferType, SetMetadataType
      DEF Edits
  <2>3. CASE Staking
    BY <2>3, StakingType
  <2>4. CASE UNCHANGED protosVars
    BY <2>4 DEF OwnTypeOK, RegistryTypeOK, IndexTypeOK, StakesTypeOK,
                protosVars
  <2>5. CASE OnFinalize
    BY <2>5, OnFinalizeType
  <2> QED
    BY <2>1, <2>2, <2>3, <2>4, <2>5 DEF Next, AccountsStep, vars
<1>3. Spec => []OwnTypeOK
  BY <1>1, <1>2, PTL DEF Spec
<1> QED
  BY <1>3, ImplementsAccounts, AccountsTypeCorrect, PTL
  DEF TypeOK, OwnTypeOK

-----------------------------------------------------------------------------
(***************************************************************************)
(* The lists by owner and by category follow the registry.                 *)
(***************************************************************************)

LEMMA UploadLists ==
    ASSUME OwnTypeOK, ListedOnce,
           NEW u \in Signers, NEW p \in Hashes, NEW refs \in SUBSET Hashes,
           NEW c \in Categories, NEW ts \in TagLists, NEW cost \in Costs,
           NEW asset \in Assets \cup {None},
           Upload(u, p, refs, c, ts, asset, cost)
    PROVE  ListedOnce'
<1> DEFINE owner == IF asset # None THEN asset ELSE u
<1>1. owner \in Accounts \cup Assets
  BY SignersAreAccounts
<1>2. /\ Protos'[p] \in Proto
      /\ Protos'[p].owner = IF asset # None THEN asset ELSE u
      /\ Protos'[p].category = c
      /\ \A q \in Hashes \ {p} : Protos'[q] = Protos[q]
  <2> HIDE DEF owner
  <2> QED
    BY UploadType
<1>3. Protos'[p] # None /\ Protos'[p].owner = owner
  BY <1>2, NoneIsNoRecord
<1> HIDE DEF owner
<1>4. /\ Protos[p] = None
      /\ ProtosByOwner' = [ProtosByOwner EXCEPT ![<<owner, p>>] = @ + 1]
      /\ ProtosByCategory' = [ProtosByCategory EXCEPT ![<<c, p>>] = @ + 1]
  BY DEF Upload, owner
<1>5. ASSUME NEW q \in Hashes, NEW o \in Accounts \cup Assets
      PROVE  ProtosByOwner'[<<o, q>>] =
               IF Protos'[q] # None /\ Protos'[q].owner = o THEN 1 ELSE 0
  BY <1>1, <1>2, <1>3, <1>4 DEF OwnTypeOK, RegistryTypeOK, ListedOnce
<1>6. ASSUME NEW q \in Hashes, NEW d \in Categories
      PROVE  ProtosByCategory'[<<d, q>>] =
               IF Protos'[q] # None /\ Protos'[q].category = d THEN 1 ELSE 0
  BY <1>2, <1>3, <1>4 DEF OwnTypeOK, RegistryTypeOK, ListedOnce
<1> QED
  BY <1>5, <1>6 DEF ListedOnce

LEMMA TransferLists ==
    ASSUME OwnTypeOK, ListedOnce,
           NEW u \in Signers, NEW p \in Hashes, NEW new \in Accounts,
           Transfer(u, p, new)
    PROVE  ListedOnce'
<1>1. Protos[p] \in Proto /\ Protos[p].owner = u
  BY DEF OwnTypeOK, RegistryTypeOK, Transfer, Editable
<1>2. /\ Protos'[p] # None
      /\ Protos'[p].owner = new
      /\ Protos'[p].category = Protos[p].category
      /\ \A q \in Hashes \ {p} : Protos'[q] = Protos[q]
  <2>1. [Protos[p] EXCEPT !.owner = new] \in Proto
    BY <1>1 DEF Proto
  <2>2. Protos' = [Protos EXCEPT ![p] = [Protos[p] EXCEPT !.owner = new]]
    BY DEF OwnTypeOK, RegistryTypeOK, Transfer
  <2> QED
    BY <1>1, <2>1, <2>2, NoneIsNoRecord DEF OwnTypeOK, RegistryTypeOK, Proto
<1>3. ASSUME NEW q \in Hashes, NEW o \in Accounts \cup Assets
      PROVE  ProtosByOwner'[<<o, q>>] =
               IF Protos'[q] # None /\ Protos'[q].owner = o THEN 1 ELSE 0
  <2>1. ProtosByOwner[<<o, q>>] =
          IF Protos[q] # None /\ Protos[q].owner = o THEN 1 ELSE 0
    BY DEF ListedOnce
  <2>2. u \in Accounts \cup Assets /\ new \in Accounts \cup Assets
    BY SignersAreAccounts
  <2>3. CASE q # p
    <3>1. ProtosByOwner'[<<o, q>>] = ProtosByOwner[<<o, q>>]
      BY <2>2, <2>3 DEF OwnTypeOK, RegistryTypeOK, Transfer, Moved
    <3> QED
      BY <1>2, <2>1, <2>3, <3>1
  <2>4. CASE q = p
    <3> DEFINE kept == [ProtosByOwner EXCEPT ![<<u, p>>] = 0]
    <3>1. ProtosByOwner[<<o, p>>] = IF o = u THEN 1 ELSE 0
      BY <1>1, <2>1, <2>4, NoneIsNoRecord
    <3>2. /\ kept \in [(Accounts \cup Assets) \X Hashes -> Nat]
          /\ \A v \in Accounts \cup Assets : kept[<<v, p>>] = 0
      BY <1>1, <2>2, NoneIsNoRecord
      DEF OwnTypeOK, RegistryTypeOK, ListedOnce
    <3>3. ProtosByOwner' = [kept EXCEPT ![<<new, p>>] = @ + 1]
      BY DEF Transfer, Moved
    <3> HIDE DEF kept
    <3>4. ProtosByOwner'[<<o, p>>] = IF o = new THEN 1 ELSE 0
      BY <2>2, <3>2, <3>3
    <3> QED
      BY <1>2, <2>4, <3>4
  <2> QED
    BY <2>3, <2>4
<1>4. ASSUME NEW q \in Hashes, NEW c \in Categories
      PROVE  ProtosByCategory'[<<c, q>>] =
               IF Protos'[q] # None /\ Protos'[q].category = c THEN 1 ELSE 0
  BY <1>1, <1>2, NoneIsNoRecord DEF ListedOnce, Transfer
<1> QED
  BY <1>3, <1>4 DEF ListedOnce

(* A proto is listed under its owner and its category exactly once, and    *)
(* nowhere else.                                                           *)
THEOREM ListsCorrect == Spec => []ListedOnce
<1>1. Init => ListedOnce
  BY DEF Init, ListedOnce
<1>2. OwnTypeOK /\ ListedOnce /\ [Next]_vars => ListedOnce'
  <2> SUFFICES ASSUME OwnTypeOK, ListedOnce, [Next]_vars
               PROVE  ListedOnce'
    OBVIOUS
  <2>1. CASE SamePlaces
    BY <2>1 DEF SamePlaces, ListedOnce
  <2>2. CASE UNCHANGED registryVars
    BY <2>2 DEF registryVars, ListedOnce
  <2>3. CASE Uploads
    BY <2>3, UploadLists DEF Uploads
  <2>4. CASE Edits
    <3>1. ASSUME NEW u \in Signers, NEW p \in Hashes,
                 Detach(u, p) \/ FinalizeDetach(p)
          PROVE  ListedOnce'
      BY <2>2, <3>1 DEF Detach, FinalizeDetach
    <3>2. ASSUME NEW p \in Hashes, FinalizeDetach(p)
          PROVE  ListedOnce'
      BY <2>2, <3>2 DEF FinalizeDetach
    <3> QED
      BY <2>1, <2>4, <3>1, <3>2, PatchType, SetMetadataType, TransferLists
      DEF Edits
  <2>5. CASE Staking
    BY <2>2, <2>5 DEF Staking, Stake, Unstake
  <2>6. CASE OnFinalize
    BY <2>2, <2>6 DEF OnFinalize
  <2> QED
    BY <2>2, <2>3, <2>4, <2>5, <2>6
    DEF Next, AccountsStep, protosVars, vars, registryVars
<1>3. TypeOK => OwnTypeOK
  BY DEF TypeOK, OwnTypeOK
<1> QED
  BY <1>1, <1>2, <1>3, TypeCorrect, PTL DEF Spec

-----------------------------------------------------------------------------
(***************************************************************************)
(* Stakes.  That the lists of AccountStakes are complete is what makes the *)
(* end of a block clear every stake of an unlinked account; that only such *)
(* accounts lose their usage counter is LossIsQueued, of the accounts      *)
(* pallet.                                                                 *)
(***************************************************************************)

(* Every staked proto of every account is on the account's list.           *)
THEOREM StakesListed == Spec => []StakesAreListed
<1>1. Init => StakesAreListed
  BY DEF Init, StakesAreListed
<1>2. OwnTypeOK /\ StakesAreListed /\ [Next]_vars => StakesAreListed'
  <2> SUFFICES ASSUME OwnTypeOK, StakesAreListed, [Next]_vars
               PROVE  StakesAreListed'
    OBVIOUS
  <2>1. CASE UNCHANGED stakeVars
    BY <2>1 DEF stakeVars, StakesAreListed
  <2>2. ASSUME NEW u \in Signers, NEW p \in Hashes, NEW n \in StakeAmounts,
               Stake(u, p, n)
        PROVE  StakesAreListed'
    <3>1. LockedFragAccount[u] \in Accounts
      BY LockedAccounts
    <3>2. [amount |-> n, block |-> now] # None
      BY StakesAreNat, PeriodsAreNat, NoneIsNoRecord
      DEF OwnTypeOK, StakesTypeOK, StakeData
    <3> QED
      BY <2>2, <3>1, <3>2
      DEF OwnTypeOK, StakesTypeOK, StakesAreListed, Stake
  <2>3. ASSUME NEW u \in Signers, NEW p \in Hashes, Unstake(u, p)
        PROVE  StakesAreListed'
    BY <2>3, SignersAreAccounts
    DEF OwnTypeOK, StakesTypeOK, StakesAreListed, Unstake
  <2>4. CASE OnFinalize
    BY <2>4 DEF OwnTypeOK, StakesTypeOK, StakesAreListed, OnFinalize
  <2>5. CASE Uploads \/ Edits
    BY <2>1, <2>5, RegistryKeepsStakes DEF stakeVars
  <2> QED
    BY <2>1, <2>2, <2>3, <2>4, <2>5
    DEF Next, Staking, AccountsStep, protosVars, vars, stakeVars
<1>3. TypeOK => OwnTypeOK
  BY DEF TypeOK, OwnTypeOK
<1> QED
  BY <1>1, <1>2, <1>3, TypeCorrect, PTL DEF Spec

LEMMA QueueRange ==
    ASSUME AccountsTypeOK, QueueGrows
    PROVE  /\ Range(PendingUnlinks) \subseteq Range(PendingUnlinks')
           /\ \A u \in Accounts : PendingUnlinks' = Append(PendingUnlinks, u)
                                   => u \in Range(PendingUnlinks')
<1>1. PendingUnlinks \in Seq(Accounts)
  BY DEF AccountsTypeOK
<1>2. ASSUME NEW u \in Accounts, PendingUnlinks' = Append(PendingUnlinks, u)
      PROVE  /\ u \in Range(PendingUnlinks')
             /\ Range(PendingUnlinks) \subseteq Range(PendingUnlinks')
  <2>1. /\ Len(PendingUnlinks) \in Nat
        /\ DOMAIN PendingUnlinks = 1 .. Len(PendingUnlinks)
        /\ DOMAIN PendingUnlinks' = 1 .. (Len(PendingUnlinks) + 1)
        /\ \A i \in 1 .. Len(PendingUnlinks) :
             PendingUnlinks'[i] = PendingUnlinks[i]
        /\ PendingUnlinks'[Len(PendingUnlinks) + 1] = u
    BY <1>1, <1>2
  <2> QED
    BY <2>1 DEF Range
<1> QED
  BY <1>2 DEF QueueGrows, Range

(* Every stake is backed by a link and a usage counter, or will be cleared *)
(* when this block ends.                                                   *)
THEOREM StakesBacked == Spec => []StakesAreBacked
<1>1. Init => StakesAreBacked
  BY DEF Init, StakesAreBacked
<1>2. TypeOK /\ StakesAreListed /\ StakesAreBacked /\ [Next]_vars
        => StakesAreBacked'
  <2> SUFFICES ASSUME TypeOK, StakesAreListed, StakesAreBacked, [Next]_vars
               PROVE  StakesAreBacked'
    OBVIOUS
  <2>1. CASE UNCHANGED <<accountsVars, ProtoStakes>>
    BY <2>1 DEF accountsVars, StakesAreBacked
  <2>2. ASSUME NEW u \in Signers, NEW p \in Hashes, NEW n \in StakeAmounts,
               Stake(u, p, n)
        PROVE  StakesAreBacked'
    <3> DEFINE w == LockedFragAccount[u]
    <3>1. w \in Accounts
      BY LockedAccounts
    <3>2. /\ EVMLinks[w] # None /\ FragUsage[w] # None
          /\ UNCHANGED <<EVMLinks, FragUsage, PendingUnlinks>>
      BY <2>2 DEF Stake, StakeAllowed, accountsVars
    <3>3. \A q \in Hashes, v \in Accounts \ {w} :
            ProtoStakes'[<<q, v>>] = ProtoStakes[<<q, v>>]
      BY <2>2, <3>1 DEF Stake, TypeOK, StakesTypeOK
    <3> QED
      BY <3>1, <3>2, <3>3 DEF StakesAreBacked
  <2>3. ASSUME NEW u \in Signers, NEW p \in Hashes, Unstake(u, p)
        PROVE  StakesAreBacked'
    <3>1. UNCHANGED <<EVMLinks, FragUsage, PendingUnlinks>>
      BY <2>3 DEF Unstake, accountsVars
    <3>2. \A s \in Hashes \X Accounts :
            ProtoStakes'[s] = None \/ ProtoStakes'[s] = ProtoStakes[s]
      BY <2>3, SignersAreAccounts DEF Unstake, TypeOK, StakesTypeOK
    <3> QED
      BY <3>1, <3>2 DEF StakesAreBacked
  <2>4. CASE AccountsStep
    <3>1. LossQueued /\ QueueGrows /\ UNCHANGED ProtoStakes
      BY <2>4, CallQueues DEF TypeOK, AccountsStep, protosVars
    <3>2. Range(PendingUnlinks) \subseteq Range(PendingUnlinks')
      BY <3>1, QueueRange DEF TypeOK
    <3>3. \A u \in Accounts :
            (EVMLinks[u] # None /\ FragUsage[u] # None)
              => \/ EVMLinks'[u] # None /\ FragUsage'[u] # None
                 \/ u \in Range(PendingUnlinks')
      BY <3>1, QueueRange DEF TypeOK, LossQueued
    <3> QED
      BY <3>1, <3>2, <3>3 DEF StakesAreBacked
  <2>5. CASE OnFinalize
    <3>1. \A p \in Hashes, u \in Accounts :
            ProtoStakes'[<<p, u>>] # None
              => /\ ProtoStakes[<<p, u>>] # None
                 /\ u \notin Range(PendingUnlinks)
      BY <2>5 DEF OnFinalize, Drained, StakesAreListed
    <3>2. UNCHANGED <<EVMLinks, FragUsage>>
      BY <2>5 DEF OnFinalize
    <3> QED
      BY <3>1, <3>2 DEF StakesAreBacked
  <2>6. CASE Uploads \/ Edits
    BY <2>1, <2>6, RegistryKeepsStakes
  <2> QED
    BY <2>1, <2>2, <2>3, <2>4, <2>5, <2>6
    DEF Next, Staking, protosVars, vars
<1> QED
  BY <1>1, <1>2, TypeCorrect, StakesListed, PTL DEF Spec

(***************************************************************************)
(* Who stakes, and how much.  stake records its stake under the account    *)
(* derived from the caller, and asks a link of that very account.          *)
(***************************************************************************)

(***************************************************************************)
(* A stake stands only under an account that is derived from a signer and  *)
(* can sign by itself, and for no more than a log that took effect locked: *)
(* a user who links an own account, which is derived from nobody, never    *)
(* has one.  (stake, get_locked_frag_account, link)                        *)
(***************************************************************************)
StakesAreBought ==
    \A p \in Hashes, u \in Accounts :
        ProtoStakes[<<p, u>>] # None =>
            /\ u \in Signers
            /\ \E v \in Signers : u = LockedFragAccount[v]
            /\ \E e \in EVMLinkVotingClosed :
                 ProtoStakes[<<p, u>>].amount <= e.amount

LEMMA ClosedVotesStay ==
    [AccountsNext]_accountsVars => EVMLinkVotingClosed \subseteq EVMLinkVotingClosed'
BY DEF AccountsNext, AccountsCall, AddKey, DelKey, Link, Unlink, SponsorAccount,
       InternalLockUpdate, CountVote, Carry, TakePendingUnlinks, voteVars,
       accountsVars

LEMMA StakeIsBought ==
    ASSUME TypeOK, UsageOK, LockedComesFromLogs,
           NEW u \in Signers, NEW p \in Hashes, NEW n \in StakeAmounts,
           Stake(u, p, n)
    PROVE  /\ LockedFragAccount[u] \in Signers
           /\ \E e \in EVMLinkVotingClosed : n <= e.amount
<1> DEFINE w == LockedFragAccount[u]
           k == EVMLinks[w]
<1>1. w \in Accounts
  BY LockedAccounts
<1>2. k \in EthKeys /\ EthLockedFrag[k] \in Nat /\ FragUsage[w] = 0
      /\ EthLockedFrag[k] >= FragUsage[w] + n
  BY <1>1
  DEF Stake, StakeAllowed, TypeOK, AccountsTypeOK, UsageOK, UsageIsZero
<1>3. PICK e \in EVMLinkVotingClosed : EthLockedFrag[k] = e.amount
  BY <1>2, NoneIsNothing DEF LockedComesFromLogs
<1>4. n \in Nat /\ n <= e.amount
  BY <1>2, <1>3, StakesAreNat
<1>5. w \in Signers
  BY <1>1, <1>2, NoneIsNothing DEF UsageOK, LinkedAreSigners
<1> QED
  BY <1>4, <1>5

(* No stake stands under an account that could not have bought it.         *)
THEOREM StakesBought == Spec => []StakesAreBought
<1>1. Init => StakesAreBought
  BY DEF Init, StakesAreBought
<1>2. Spec => [](UsageOK /\ LockedComesFromLogs)
  BY ImplementsAccounts, UsageInvariant, LockedIsLogged, PTL
<1>3. Spec => [][AccountsNext]_accountsVars
  BY ImplementsAccounts, PTL DEF AccountsSpec
<1>4. TypeOK /\ UsageOK /\ LockedComesFromLogs /\ StakesAreBought
        /\ [Next]_vars /\ [AccountsNext]_accountsVars => StakesAreBought'
  <2> SUFFICES ASSUME TypeOK, UsageOK, LockedComesFromLogs, StakesAreBought,
                      [Next]_vars, [AccountsNext]_accountsVars
               PROVE  StakesAreBought'
    OBVIOUS
  <2>0. EVMLinkVotingClosed \subseteq EVMLinkVotingClosed'
    BY ClosedVotesStay
  <2>1. ASSUME \A l \in Hashes \X Accounts :
                 ProtoStakes'[l] = None \/ ProtoStakes'[l] = ProtoStakes[l]
        PROVE  StakesAreBought'
    BY <2>0, <2>1 DEF StakesAreBought
  <2>2. ASSUME NEW u \in Signers, NEW p \in Hashes, NEW n \in StakeAmounts,
               Stake(u, p, n)
        PROVE  StakesAreBought'
    <3> DEFINE w == LockedFragAccount[u]
    <3>1. /\ w \in Accounts /\ w \in Signers
          /\ \E e \in EVMLinkVotingClosed' : n <= e.amount
      BY <2>0, <2>2, StakeIsBought, LockedAccounts
    <3>2. ProtoStakes'[<<p, w>>].amount = n
      BY <2>2, <3>1 DEF Stake, TypeOK, StakesTypeOK
    <3>3. \A l \in Hashes \X Accounts :
            l # <<p, w>> => ProtoStakes'[l] = ProtoStakes[l]
      BY <2>2 DEF Stake, TypeOK, StakesTypeOK
    <3> QED
      BY <2>0, <3>1, <3>2, <3>3 DEF StakesAreBought
  <2>3. ASSUME NEW u \in Signers, NEW p \in Hashes, Unstake(u, p)
        PROVE  StakesAreBought'
    BY <2>1, <2>3 DEF Unstake, TypeOK, StakesTypeOK
  <2>4. CASE OnFinalize
    BY <2>1, <2>4 DEF OnFinalize
  <2>5. CASE UNCHANGED ProtoStakes
    BY <2>1, <2>5
  <2> QED
    BY <2>2, <2>3, <2>4, <2>5, RegistryKeepsStakes
    DEF Next, Staking, AccountsStep, protosVars, vars
<1> QED
  BY <1>1, <1>2, <1>3, <1>4, TypeCorrect, PTL DEF Spec

(* What StakesEndInTime asks of a step. *)
EndsInTime ==
    \A p \in Hashes, u \in Accounts :
        /\ (ProtoStakes[<<p, u>>] # None /\ ProtoStakes'[<<p, u>>] = None)
             => \/ now > ProtoStakes[<<p, u>>].block + StakeLockupPeriod
                \/ u \in Range(PendingUnlinks)
        /\ (u \in Range(PendingUnlinks) /\ PendingUnlinks' = <<>>)
             => ProtoStakes'[<<p, u>>] = None

(* A stake ends by an unstake after its lock-up or with its account's link,*)
(* in which case it does not survive the block.                            *)
THEOREM StakesEnd == Spec => StakesEndInTime
<1>1. TypeOK /\ StakesAreListed /\ [Next]_vars => [EndsInTime]_vars
  <2> SUFFICES ASSUME TypeOK, StakesAreListed, Next
               PROVE  EndsInTime
    OBVIOUS
  <2>0. PendingUnlinks \in Seq(Accounts)
    BY DEF TypeOK, AccountsTypeOK
  <2>1. CASE /\ UNCHANGED ProtoStakes
             /\ PendingUnlinks' = <<>> => PendingUnlinks = <<>>
    BY <2>1 DEF EndsInTime, Range
  <2>2. ASSUME NEW u \in Signers, NEW p \in Hashes, NEW n \in StakeAmounts,
               Stake(u, p, n)
        PROVE  EndsInTime
    <3> DEFINE w == LockedFragAccount[u]
    <3>1. w \in Accounts /\ [amount |-> n, block |-> now] # None
      BY LockedAccounts, StakesAreNat, PeriodsAreNat, NoneIsNoRecord
      DEF TypeOK, StakesTypeOK, StakeData
    <3>2. \A s \in Hashes \X Accounts :
            ProtoStakes'[s] = None => ProtoStakes[s] = None
      BY <2>2, <3>1 DEF Stake, TypeOK, StakesTypeOK
    <3>3. UNCHANGED PendingUnlinks
      BY <2>2 DEF Stake, accountsVars
    <3>4. PendingUnlinks' = <<>> => \A v : v \notin Range(PendingUnlinks)
      BY <3>3 DEF Range
    <3> QED
      BY <3>2, <3>4 DEF EndsInTime
  <2>3. ASSUME NEW u \in Signers, NEW p \in Hashes, Unstake(u, p)
        PROVE  EndsInTime
    <3>1. \A s \in Hashes \X Accounts :
            s # <<p, u>> => ProtoStakes'[s] = ProtoStakes[s]
      BY <2>3, SignersAreAccounts DEF Unstake, TypeOK, StakesTypeOK
    <3>2. LockupOver(p, u) /\ UNCHANGED PendingUnlinks
      BY <2>3 DEF Unstake, accountsVars
    <3>3. PendingUnlinks' = <<>> => \A v : v \notin Range(PendingUnlinks)
      BY <3>2 DEF Range
    <3> QED
      BY <3>1, <3>2, <3>3 DEF EndsInTime, LockupOver
  <2>4. CASE AccountsStep
    <3>1. UNCHANGED ProtoStakes
      BY <2>4 DEF AccountsStep, protosVars
    <3>2. PendingUnlinks' = <<>> => PendingUnlinks = <<>>
      <4>1. QueueGrows
        BY <2>4, CallQueues DEF TypeOK, AccountsStep
      <4>2. \A u \in Accounts : Append(PendingUnlinks, u) # <<>>
        BY <2>0, AppendProperties
      <4> QED
        BY <4>1, <4>2 DEF QueueGrows
    <3> QED
      BY <2>1, <3>1, <3>2
  <2>5. CASE OnFinalize
    BY <2>5 DEF OnFinalize, Drained, StakesAreListed, EndsInTime
  <2>6. CASE Uploads \/ Edits
    BY <2>1, <2>6, RegistryKeepsStakes DEF accountsVars
  <2> QED
    BY <2>2, <2>3, <2>4, <2>5, <2>6 DEF Next, Staking
<1> QED
  BY <1>1, TypeCorrect, StakesListed, PTL
  DEF Spec, StakesEndInTime, EndsInTime

-----------------------------------------------------------------------------
(***************************************************************************)
(* Detached protos.  Only uploaded protos can be detached, so that the     *)
(* upload of a hash never touches a detached one.                          *)
(***************************************************************************)

DetachedAreUploaded ==
    /\ DetachedHashes \subseteq Requested
    /\ \A p \in Requested : Protos[p] # None

(* What DetachedIsFrozen asks of a step. *)
Frozen == \A p \in DetachedHashes :
             p \in DetachedHashes' /\ Protos'[p] = Protos[p]

(* No call changes a detached proto.                                       *)
THEOREM DetachedFrozen == Spec => DetachedIsFrozen
<1>1. Init => DetachedAreUploaded
  BY DEF Init, DetachedAreUploaded
<1>2. OwnTypeOK /\ DetachedAreUploaded /\ [Next]_vars
        => DetachedAreUploaded' /\ [Frozen]_vars
  <2> SUFFICES ASSUME OwnTypeOK, DetachedAreUploaded, [Next]_vars
               PROVE  DetachedAreUploaded' /\ Frozen
    OBVIOUS
  <2>1. CASE UNCHANGED <<Protos, Requested, DetachedHashes>>
    BY <2>1 DEF DetachedAreUploaded, Frozen
  <2>2. ASSUME NEW p \in Hashes, p \notin DetachedHashes,
               Protos'[p] # None,
               \A q \in Hashes \ {p} : Protos'[q] = Protos[q],
               UNCHANGED <<Requested, DetachedHashes>>
        PROVE  DetachedAreUploaded' /\ Frozen
    BY <2>2 DEF OwnTypeOK, RegistryTypeOK, DetachedAreUploaded, Frozen
  <2>3. ASSUME NEW u \in Signers, NEW p \in Hashes,
               NEW refs \in SUBSET Hashes, NEW c \in Categories,
               NEW ts \in TagLists, NEW cost \in Costs,
               NEW asset \in Assets \cup {None},
               Upload(u, p, refs, c, ts, asset, cost)
        PROVE  DetachedAreUploaded' /\ Frozen
    <3>1. /\ Protos'[p] \in Proto
          /\ \A q \in Hashes \ {p} : Protos'[q] = Protos[q]
      BY <2>3, UploadType
    <3>2. p \notin DetachedHashes /\ UNCHANGED <<Requested, DetachedHashes>>
      BY <2>3 DEF Upload, detachVars, DetachedAreUploaded
    <3> QED
      BY <2>2, <3>1, <3>2, NoneIsNoRecord
  <2>4. ASSUME NEW u \in Signers, NEW p \in Hashes,
               \/ \E refs \in SUBSET Hashes, ts \in TagLists \cup {None},
                     cost \in Costs, hasData \in BOOLEAN :
                       Patch(u, p, cost, refs, ts, hasData)
               \/ \E m \in MetaKeyNames : SetMetadata(u, p, m)
               \/ \E new \in Accounts : Transfer(u, p, new)
        PROVE  DetachedAreUploaded' /\ Frozen
    <3>1. Editable(u, p) /\ UNCHANGED <<Requested, DetachedHashes>>
      BY <2>4 DEF Patch, SetMetadata, Transfer, detachVars
    <3>2. \A q \in Hashes \ {p} : Protos'[q] = Protos[q]
      <4>0. Protos \in [Hashes -> Proto \cup {None}]
        BY DEF OwnTypeOK, RegistryTypeOK
      <4>1. ASSUME NEW new, Transfer(u, p, new)
            PROVE  \A q \in Hashes \ {p} : Protos'[q] = Protos[q]
        BY <4>0, <4>1 DEF Transfer
      <4>2. ASSUME NEW m, SetMetadata(u, p, m)
            PROVE  \A q \in Hashes \ {p} : Protos'[q] = Protos[q]
        BY <4>0, <4>2 DEF SetMetadata
      <4>3. ASSUME NEW refs, NEW ts, NEW cost, NEW hasData,
                   Patch(u, p, cost, refs, ts, hasData)
            PROVE  \A q \in Hashes \ {p} : Protos'[q] = Protos[q]
        BY <4>0, <4>3 DEF Patch
      <4> QED
        BY <2>4, <4>1, <4>2, <4>3
    <3>3. Protos'[p] # None
      <4>1. CASE SamePlaces
        BY <3>1, <4>1 DEF SamePlaces, Editable
      <4>2. ASSUME NEW new \in Accounts, Transfer(u, p, new)
            PROVE  Protos'[p] # None
        BY <4>2, TransferType
      <4> QED
        BY <2>4, <4>1, <4>2, PatchType, SetMetadataType
    <3> QED
      BY <2>2, <3>1, <3>2, <3>3 DEF Editable
  <2>5. ASSUME NEW u \in Signers, NEW p \in Hashes, Detach(u, p)
        PROVE  DetachedAreUploaded' /\ Frozen
    BY <2>5 DEF Detach, Editable, registryVars, DetachedAreUploaded, Frozen
  <2>6. ASSUME NEW p \in Hashes, FinalizeDetach(p)
        PROVE  DetachedAreUploaded' /\ Frozen
    BY <2>6 DEF FinalizeDetach, registryVars, DetachedAreUploaded, Frozen
  <2>7. CASE Staking \/ AccountsStep \/ OnFinalize
    BY <2>1, <2>7 DEF Staking, Stake, Unstake, AccountsStep, OnFinalize,
                      registryVars, detachVars, protosVars
  <2> QED
    BY <2>1, <2>3, <2>4, <2>5, <2>6, <2>7
    DEF Next, Uploads, Edits, vars, protosVars
<1>3. TypeOK => OwnTypeOK
  BY DEF TypeOK, OwnTypeOK
<1> QED
  BY <1>1, <1>2, <1>3, TypeCorrect, PTL DEF Spec, DetachedIsFrozen, Frozen

-----------------------------------------------------------------------------
(***************************************************************************)
(* Lineage.  References are licensed, and so to protos that were uploaded  *)
(* before; no edit changes what a proto was uploaded with.                 *)
(***************************************************************************)

RefsKept ==
    /\ Uploaded' = Uploaded
    /\ \A p \in Uploaded :
         /\ Protos'[p].references = Protos[p].references
         /\ \A i \in DOMAIN Protos'[p].patches :
              Protos'[p].patches[i] \subseteq Uploaded

LEMMA RefsKeptLineage ==
    ASSUME LineageWellFounded, RefsKept
    PROVE  LineageWellFounded'
BY DEF LineageWellFounded, RefsKept

LEMMA ProtosKeptLineage ==
    ASSUME LineageWellFounded, UNCHANGED Protos
    PROVE  LineageWellFounded'
BY DEF LineageWellFounded, Uploaded

LEMMA UploadLineage ==
    ASSUME OwnTypeOK, LineageWellFounded,
           NEW u \in Signers, NEW p \in Hashes, NEW refs \in SUBSET Hashes,
           NEW c \in Categories, NEW ts \in TagLists, NEW cost \in Costs,
           NEW asset \in Assets \cup {None},
           Upload(u, p, refs, c, ts, asset, cost)
    PROVE  LineageWellFounded'
<1>1. /\ Protos'[p] \in Proto
      /\ \A q \in Hashes \ {p} : Protos'[q] = Protos[q]
  BY UploadType
<1>2. Protos[p] = None /\ refs \subseteq Uploaded
  BY DEF Upload, Licensed, Uploaded
<1>3. Protos'[p].references = refs /\ Protos'[p].patches = <<>>
  BY DEF Upload, OwnTypeOK, RegistryTypeOK
<1>4. Uploaded' = Uploaded \cup {p} /\ p \notin Uploaded
  BY <1>1, <1>2, NoneIsNoRecord DEF Uploaded
<1>5. \A q \in Uploaded : q # p /\ Protos'[q] = Protos[q]
  BY <1>1, <1>4 DEF Uploaded
<1>6. ASSUME NEW q \in Uploaded'
      PROVE  /\ Protos'[q].references \subseteq Uploaded'
             /\ \A i \in DOMAIN Protos'[q].patches :
                  Protos'[q].patches[i] \subseteq Uploaded'
  <2>1. CASE q = p
    BY <1>2, <1>3, <1>4, <2>1
  <2>2. CASE q # p
    BY <1>4, <1>5, <1>6, <2>2 DEF LineageWellFounded
  <2> QED
    BY <2>1, <2>2
<1>7. ASSUME NEW S \in SUBSET Uploaded', S # {}
      PROVE  \E q \in S : Protos'[q].references \cap S = {}
  <2>1. CASE S = {p}
    BY <1>2, <1>3, <1>4, <2>1
  <2>2. CASE S # {p}
    <3>1. S \ {p} \in (SUBSET Uploaded) \ {{}}
      BY <1>4, <1>7, <2>2
    <3>2. PICK q \in S \ {p} : Protos[q].references \cap (S \ {p}) = {}
      BY <3>1 DEF LineageWellFounded
    <3>3. q \in Uploaded /\ Protos[q].references \subseteq Uploaded
      BY <3>1 DEF LineageWellFounded
    <3> QED
      BY <1>4, <1>5, <3>2, <3>3
  <2> QED
    BY <2>1, <2>2
<1> QED
  BY <1>6, <1>7 DEF LineageWellFounded

(* An edit of p that leaves its references, and its patches unless they    *)
(* are to uploaded protos.                                                 *)
LEMMA EditLineage ==
    ASSUME OwnTypeOK, LineageWellFounded, NEW p \in Uploaded,
           NEW new \in Proto, Protos' = [Protos EXCEPT ![p] = new],
           new.references = Protos[p].references,
           \/ new.patches = Protos[p].patches
           \/ \E refs \in SUBSET Uploaded :
                new.patches = Append(Protos[p].patches, refs)
    PROVE  LineageWellFounded'
<1>1. p \in Hashes /\ Protos[p] \in Proto
  BY DEF OwnTypeOK, RegistryTypeOK, Uploaded
<1>2. Protos'[p] = new /\ \A q \in Hashes \ {p} : Protos'[q] = Protos[q]
  BY <1>1 DEF OwnTypeOK, RegistryTypeOK
<1>3. Uploaded' = Uploaded
  BY <1>1, <1>2, NoneIsNoRecord DEF Uploaded
<1>4. \A i \in DOMAIN Protos[p].patches :
        Protos[p].patches[i] \subseteq Uploaded
  BY DEF LineageWellFounded
<1>5. ASSUME NEW i \in DOMAIN new.patches
      PROVE  new.patches[i] \subseteq Uploaded
  <2>1. CASE new.patches = Protos[p].patches
    BY <1>4, <2>1
  <2>2. ASSUME NEW refs \in SUBSET Uploaded,
               new.patches = Append(Protos[p].patches, refs)
        PROVE  new.patches[i] \subseteq Uploaded
    <3> DEFINE old == Protos[p].patches
    <3>1. old \in Seq(SUBSET Hashes)
      BY <1>1 DEF Proto
    <3>2. refs \in SUBSET Hashes
      BY DEF Uploaded
    <3>3. \/ i \in DOMAIN old /\ new.patches[i] = old[i]
          \/ new.patches[i] = refs
      <4> HIDE DEF old
      <4>1. new.patches = Append(old, refs)
        BY <2>2 DEF old
      <4> QED
        BY <1>5, <3>1, <3>2, <4>1, AppendProperties, LenProperties
    <3> QED
      BY <1>4, <3>3
  <2> QED
    BY <2>1, <2>2
<1>6. ASSUME NEW q \in Uploaded
      PROVE  /\ Protos'[q].references = Protos[q].references
             /\ \A i \in DOMAIN Protos'[q].patches :
                  Protos'[q].patches[i] \subseteq Uploaded
  <2>1. CASE q = p
    BY <1>2, <1>5, <2>1
  <2>2. CASE q # p
    <3>1. Protos'[q] = Protos[q]
      BY <1>2, <2>2 DEF Uploaded
    <3> QED
      BY <3>1 DEF LineageWellFounded
  <2> QED
    BY <2>1, <2>2
<1> QED
  BY <1>3, <1>6, RefsKeptLineage DEF RefsKept

LEMMA PatchLineage ==
    ASSUME OwnTypeOK, LineageWellFounded,
           NEW u \in Signers, NEW p \in Hashes, NEW cost \in Costs,
           NEW refs \in SUBSET Hashes, NEW ts \in TagLists \cup {None},
           NEW hasData \in BOOLEAN,
           Patch(u, p, cost, refs, ts, hasData)
    PROVE  LineageWellFounded'
<1>1. PICK old \in Proto : old = Protos[p]
  BY DEF OwnTypeOK, RegistryTypeOK, Patch, Editable
<1>2. PICK patches : patches = IF hasData THEN Append(old.patches, refs)
                               ELSE old.patches
  OBVIOUS
<1>3. PICK tags : tags = IF ts = None THEN old.tags ELSE Tagged(ts)
  OBVIOUS
<1>4. PICK new : new = [old EXCEPT !.patches = patches,
                                   !.include_cost = cost, !.tags = tags]
  OBVIOUS
<1>5. Protos' = [Protos EXCEPT ![p] = new]
  BY <1>1, <1>2, <1>3, <1>4 DEF Patch, OwnTypeOK, RegistryTypeOK
<1>6. p \in Uploaded /\ refs \subseteq Uploaded
  BY DEF Patch, Editable, Licensed, Uploaded
<1>7. new.references = old.references /\ new.patches = patches
  BY <1>1, <1>4 DEF Proto
<1>8. new \in Proto
  <2>1. OwnTypeOK' /\ SamePlaces
    BY PatchType
  <2>2. Protos'[p] = new
    BY <1>5 DEF OwnTypeOK, RegistryTypeOK
  <2>3. Protos'[p] # None
    BY <1>1, <2>1, NoneIsNoRecord DEF SamePlaces
  <2> QED
    BY <2>1, <2>2, <2>3 DEF OwnTypeOK, RegistryTypeOK
<1> QED
  BY <1>1, <1>2, <1>5, <1>6, <1>7, <1>8, EditLineage

LEMMA TransferLineage ==
    ASSUME OwnTypeOK, LineageWellFounded,
           NEW u \in Signers, NEW p \in Hashes, NEW owner \in Accounts,
           Transfer(u, p, owner)
    PROVE  LineageWellFounded'
<1>1. PICK old \in Proto : old = Protos[p]
  BY DEF OwnTypeOK, RegistryTypeOK, Transfer, Editable
<1>2. PICK new : new = [old EXCEPT !.owner = owner]
  OBVIOUS
<1>3. /\ new \in Proto
      /\ new.references = old.references /\ new.patches = old.patches
  BY <1>1, <1>2 DEF Proto
<1>4. Protos' = [Protos EXCEPT ![p] = new]
  BY <1>1, <1>2 DEF Transfer, OwnTypeOK, RegistryTypeOK
<1>5. p \in Uploaded
  BY DEF Transfer, Editable, Uploaded
<1> QED
  BY <1>1, <1>3, <1>4, <1>5, EditLineage

LEMMA SetMetadataLineage ==
    ASSUME OwnTypeOK, LineageWellFounded,
           NEW u \in Signers, NEW p \in Hashes, NEW m \in MetaKeyNames,
           SetMetadata(u, p, m)
    PROVE  LineageWellFounded'
<1>1. PICK old \in Proto : old = Protos[p]
  BY DEF OwnTypeOK, RegistryTypeOK, SetMetadata, Editable
<1>2. PICK st : st = Intern(MetaKeys, MetaKeysIndex, <<m>>)
  OBVIOUS
<1>3. PICK new : new = [old EXCEPT !.metadata = @ \cup {st.map[m]}]
  OBVIOUS
<1>4. new.references = old.references /\ new.patches = old.patches
  BY <1>1, <1>3 DEF Proto
<1>5. Protos' = [Protos EXCEPT ![p] = new]
  BY <1>1, <1>2, <1>3 DEF SetMetadata, OwnTypeOK, RegistryTypeOK
<1>6. p \in Uploaded
  BY DEF SetMetadata, Editable, Uploaded
<1>7. new \in Proto
  <2>1. OwnTypeOK' /\ SamePlaces
    BY SetMetadataType
  <2>2. Protos'[p] = new
    BY <1>5 DEF OwnTypeOK, RegistryTypeOK
  <2>3. Protos'[p] # None
    BY <1>1, <2>1, NoneIsNoRecord DEF SamePlaces
  <2> QED
    BY <2>1, <2>2, <2>3 DEF OwnTypeOK, RegistryTypeOK
<1> QED
  BY <1>1, <1>4, <1>5, <1>6, <1>7, EditLineage

(***************************************************************************)
(* What protos were uploaded with is never circular and refers to uploaded *)
(* protos only, however many they are: check_staking_req refuses a hash    *)
(* that is not there, and upload one that is.                              *)
(***************************************************************************)
THEOREM LineageSound == Spec => []LineageWellFounded
<1>1. Init => LineageWellFounded
  BY DEF Init, Uploaded, LineageWellFounded
<1>2. OwnTypeOK /\ LineageWellFounded /\ [Next]_vars => LineageWellFounded'
  <2> SUFFICES ASSUME OwnTypeOK, LineageWellFounded, [Next]_vars
               PROVE  LineageWellFounded'
    OBVIOUS
  <2>1. CASE Uploads
    BY <2>1, UploadLineage DEF Uploads
  <2>2. CASE Edits
    <3>1. \A u, p : Detach(u, p) \/ FinalizeDetach(p) => UNCHANGED Protos
      BY DEF Detach, FinalizeDetach, registryVars
    <3> QED
      BY <2>2, <3>1, ProtosKeptLineage, PatchLineage, TransferLineage,
         SetMetadataLineage DEF Edits
  <2>3. CASE Staking \/ AccountsStep \/ OnFinalize \/ UNCHANGED vars
    <3>1. UNCHANGED Protos
      BY <2>3 DEF Staking, Stake, Unstake, AccountsStep, OnFinalize,
                  registryVars, protosVars, vars
    <3> QED
      BY <3>1, ProtosKeptLineage
  <2> QED
    BY <2>1, <2>2, <2>3 DEF Next
<1>3. TypeOK => OwnTypeOK
  BY DEF TypeOK, OwnTypeOK
<1> QED
  BY <1>1, <1>2, <1>3, TypeCorrect, PTL DEF Spec

-----------------------------------------------------------------------------
(* The first place of a name in a list.                                    *)
LEMMA FirstPlace ==
    ASSUME NEW names, names \in Seq(Range(names)), NEW t \in Range(names)
    PROVE  \E i \in DOMAIN names :
              /\ names[i] = t
              /\ \A k \in DOMAIN names : names[k] = t => i <= k
<1> DEFINE places == {i \in DOMAIN names : names[i] = t}
<1>1. places \subseteq Nat
  BY LenProperties
<1>2. places # {}
  BY DEF Range
<1>3. PICK i \in places : \A k \in places : ~ (<<k, i>> \in OpToRel(<, Nat))
  <2> HIDE DEF places
  <2> QED
    BY <1>1, <1>2, NatLessThanWellFounded, WFMin
<1>4. \A k \in places : ~ (k < i)
  BY <1>1, <1>3 DEF OpToRel
<1>5. \A k \in places : i <= k
  BY <1>1, <1>4
<1> QED
  BY <1>5

(***************************************************************************)
(* Ranked by how many of some names stand no later in the list, these      *)
(* names get the numbers from 1 on.                                        *)
(***************************************************************************)
LEMMA RanksAreDense ==
    ASSUME NEW names, names \in Seq(Range(names)), NEW new \in SUBSET Range(names),
           IsFiniteSet(new),
           NEW rank, rank = [t \in new |-> Cardinality(new \cap UpTo(names, t))]
    PROVE  rank \in Surjection(new, 1 .. Cardinality(new))
<1> DEFINE first(t, i) == /\ names[i] = t
                          /\ \A k \in DOMAIN names : names[k] = t => i <= k
           n == Cardinality(new)
<1>1. n \in Nat
  BY FS_CardinalityType
<1>2. PICK place \in [new -> DOMAIN names] : \A t \in new : first(t, place[t])
  <2>1. \A t \in new : \E i \in DOMAIN names : first(t, i)
    BY FirstPlace
  <2>2. \A t \in new : first(t, [s \in new |-> CHOOSE i \in DOMAIN names : first(s, i)][t])
    BY <2>1
  <2>3. [s \in new |-> CHOOSE i \in DOMAIN names : first(s, i)] \in [new -> DOMAIN names]
    BY <2>1
  <2> QED
    BY <2>2, <2>3
<1>3. DOMAIN names \subseteq Nat
  BY LenProperties
<1>4. \A s, t \in new : s \in UpTo(names, t) <=> place[s] <= place[t]
  <2> SUFFICES ASSUME NEW s \in new, NEW t \in new
               PROVE  s \in UpTo(names, t) <=> place[s] <= place[t]
    OBVIOUS
  <2>1. names[place[s]] = s /\ names[place[t]] = t
    BY <1>2
  <2>2. ASSUME place[s] <= place[t]
        PROVE  s \in UpTo(names, t)
    <3>1. \A k \in DOMAIN names : names[k] = t => place[s] <= k
      BY <1>2, <1>3, <2>2
    <3> QED
      BY <1>2, <2>1, <3>1 DEF UpTo
  <2>3. ASSUME s \in UpTo(names, t)
        PROVE  place[s] <= place[t]
    <3>1. PICK j \in DOMAIN names :
            names[j] = s /\ \A k \in DOMAIN names : names[k] = t => j <= k
      BY <2>3 DEF UpTo
    <3>2. place[s] <= j /\ j <= place[t]
      BY <1>2, <2>1, <3>1
    <3> QED
      BY <1>2, <1>3, <3>2
  <2> QED
    BY <2>2, <2>3
<1> DEFINE upTo(t) == new \cap UpTo(names, t)
<1>5. \A t \in new : upTo(t) = {s \in new : place[s] <= place[t]}
  BY <1>4
<1>6. \A t \in new : /\ upTo(t) \in SUBSET new
                     /\ IsFiniteSet(upTo(t))
                     /\ Cardinality(upTo(t)) \in Nat
                     /\ Cardinality(upTo(t)) <= n
                     /\ Cardinality(upTo(t)) # 0
  <2> SUFFICES ASSUME NEW t \in new
               PROVE  /\ upTo(t) \in SUBSET new
                      /\ IsFiniteSet(upTo(t))
                      /\ Cardinality(upTo(t)) \in Nat
                      /\ Cardinality(upTo(t)) <= n
                      /\ Cardinality(upTo(t)) # 0
    OBVIOUS
  <2>1. t \in upTo(t)
    BY <1>2, <1>3, <1>5
  <2>2. upTo(t) \in SUBSET new
    OBVIOUS
  <2> HIDE DEF upTo
  <2> QED
    BY <2>1, <2>2, FS_Subset, FS_CardinalityType, FS_EmptySet
<1>7. rank \in [new -> 1 .. n]
  <2>1. \A t \in new : Cardinality(upTo(t)) \in 1 .. n
    <3> HIDE DEF upTo, n
    <3> QED
      BY <1>1, <1>6
  <2> QED
    BY <2>1
<1>8. \A s, t \in new : place[s] < place[t] => rank[s] # rank[t]
  <2> SUFFICES ASSUME NEW s \in new, NEW t \in new, place[s] < place[t]
               PROVE  rank[s] # rank[t]
    OBVIOUS
  <2>1. upTo(s) \in SUBSET upTo(t) /\ t \notin upTo(s) /\ t \in upTo(t)
    BY <1>2, <1>3, <1>5
  <2>2. IsFiniteSet(upTo(t))
    BY <1>6
  <2>3. rank[s] = Cardinality(upTo(s)) /\ rank[t] = Cardinality(upTo(t))
    OBVIOUS
  <2> HIDE DEF upTo
  <2> QED
    BY <2>1, <2>2, <2>3, FS_Subset
<1>9. rank \in Injection(new, 1 .. n)
  <2>1. \A s, t \in new : s # t => place[s] < place[t] \/ place[t] < place[s]
    <3>1. \A s, t \in new : place[s] = place[t] => s = t
      BY <1>2
    <3> QED
      BY <1>2, <1>3, <3>1
  <2>2. \A s, t \in new : rank[s] = rank[t] => s = t
    BY <1>8, <2>1
  <2> QED
    BY <1>7, <2>2 DEF Injection, IsInjective
<1>10. IsFiniteSet(1 .. n) /\ Cardinality(1 .. n) = n
  BY <1>1, FS_Interval
<1> QED
  BY <1>9, <1>10, FS_Injection

(* Numbered without a gap, and finitely many. *)
Dense(map, last) ==
    /\ NumberedWithoutGap(map, last)
    /\ IsFiniteSet({t \in DOMAIN map : map[t] # 0})

(* Interning a list of names leaves no gap, whatever names it repeats.     *)
LEMMA InternDense ==
    ASSUME NEW T, NEW map \in [T -> Nat], NEW last \in Nat, Dense(map, last),
           NEW names, names \in Seq(Range(names)), Range(names) \subseteq T,
           NEW st, st = Intern(map, last, names)
    PROVE  /\ Dense(st.map, st.last)
           /\ st.last \in Nat /\ last <= st.last
           /\ \A t \in Range(names) : st.map[t] \in 1 .. st.last
<1> DEFINE new == {t \in Range(names) : map[t] = 0}
           known == {t \in T : map[t] # 0}
           n == Cardinality(new)
           rank == [t \in new |-> Cardinality(new \cap UpTo(names, t))]
<1>1. IsFiniteSet(new) /\ n \in Nat
  <2>1. IsFiniteSet(Range(names))
    BY RangeFinite
  <2> QED
    BY <2>1, FS_Subset, FS_CardinalityType
<1>2. rank \in Surjection(new, 1 .. n)
  <2> HIDE DEF rank
  <2>1. rank = [t \in new |-> Cardinality(new \cap UpTo(names, t))]
    BY DEF rank
  <2> QED
    BY <1>1, <2>1, RanksAreDense
<1>3. /\ st.last = last + n
      /\ DOMAIN st.map = T
      /\ \A t \in new : st.map[t] = last + rank[t]
      /\ \A t \in T \ new : st.map[t] = map[t]
  BY DEF Intern
<1>4. /\ IsFiniteSet(known) /\ Cardinality(known) = last
      /\ {map[t] : t \in known} = 1 .. last
  BY DEF Dense, NumberedWithoutGap
<1> HIDE DEF rank, n
<1>5. /\ \A t \in new : rank[t] \in 1 .. n
      /\ \A x \in 1 .. n : \E t \in new : rank[t] = x
  BY <1>2 DEF Surjection
<1>6. \A t \in known : st.map[t] = map[t] /\ map[t] \in 1 .. last
  BY <1>3, <1>4
<1>7. \A t \in new : st.map[t] \in last + 1 .. last + n
  BY <1>1, <1>3, <1>5
<1>8. {t \in T : st.map[t] # 0} = known \cup new
  <2>1. \A t \in T \ (known \cup new) : st.map[t] = 0
    BY <1>3
  <2>2. \A t \in new : st.map[t] # 0
    BY <1>1, <1>7
  <2>3. \A t \in known : st.map[t] # 0
    BY <1>6
  <2>4. new \subseteq T
    OBVIOUS
  <2> QED
    BY <2>1, <2>2, <2>3, <2>4
<1>9. {st.map[t] : t \in known \cup new} = 1 .. last + n
  <2>1. \A t \in known \cup new : st.map[t] \in 1 .. last + n
    BY <1>1, <1>6, <1>7
  <2>2. ASSUME NEW x \in 1 .. last + n
        PROVE  \E t \in known \cup new : st.map[t] = x
    <3>1. CASE x <= last
      <4>1. x \in 1 .. last
        BY <1>1, <3>1
      <4>2. PICK t \in known : map[t] = x
        BY <1>4, <4>1
      <4> QED
        BY <1>6, <4>2
    <3>2. CASE x > last
      <4>1. x - last \in 1 .. n
        BY <1>1, <3>2
      <4>2. PICK t \in new : rank[t] = x - last
        BY <1>5, <4>1
      <4>3. st.map[t] = last + (x - last)
        BY <1>3, <4>2
      <4> QED
        BY <1>1, <4>3
    <3>3. x \in Nat
      BY <1>1
    <3> QED
      BY <3>1, <3>2, <3>3
  <2> QED
    BY <2>1, <2>2
<1>10. IsFiniteSet(known \cup new) /\ Cardinality(known \cup new) = last + n
  <2>1. known \cap new = {}
    OBVIOUS
  <2>2. Cardinality(known \cap new) = 0
    BY <2>1, FS_EmptySet
  <2>3. Cardinality(new) = n
    BY DEF n
  <2> HIDE DEF known, new
  <2>4. IsFiniteSet(known \cup new)
        /\ Cardinality(known \cup new) = last + n - 0
    BY <1>1, <1>4, <2>2, <2>3, FS_Union
  <2> QED
    BY <1>1, <2>4
<1>11. Dense(st.map, st.last)
  BY <1>3, <1>8, <1>9, <1>10 DEF Dense, NumberedWithoutGap
<1>12. \A t \in Range(names) : st.map[t] \in 1 .. st.last
  <2>1. \A t \in Range(names) : t \in known \/ t \in new
    OBVIOUS
  <2>2. \A t \in known \cup new : st.map[t] \in 1 .. last + n
    BY <1>1, <1>6, <1>7
  <2> QED
    BY <1>3, <2>1, <2>2
<1> QED
  BY <1>1, <1>3, <1>11, <1>12

(* The part of IndexesAreDense that an edit adds to. *)
IndexInv ==
    /\ Dense(Tags, TagsIndex)
    /\ Dense(MetaKeys, MetaKeysIndex)
    /\ IndexesAreDense

LEMMA TagsInterned ==
    ASSUME OwnTypeOK, IndexInv, NEW ts \in TagLists, InternTags(ts)
    PROVE  /\ Dense(Tags', TagsIndex')
           /\ TagsIndex' \in Nat /\ TagsIndex <= TagsIndex'
           /\ Tagged(ts) \subseteq 1 .. TagsIndex'
<1>1. PICK st : st = Intern(Tags, TagsIndex, ts)
  OBVIOUS
<1>2. Tags' = st.map /\ TagsIndex' = st.last
  BY <1>1 DEF InternTags
<1>3. ts \in Seq(Range(ts)) /\ Range(ts) \subseteq TagNames
  BY TagListsAreLists DEF TagNames
<1>4. Tags \in [TagNames -> Nat] /\ TagsIndex \in Nat
  BY DEF OwnTypeOK, IndexTypeOK
<1>5. /\ Dense(st.map, st.last)
      /\ st.last \in Nat /\ TagsIndex <= st.last
      /\ \A t \in Range(ts) : st.map[t] \in 1 .. st.last
  BY <1>1, <1>3, <1>4, InternDense DEF IndexInv
<1> QED
  BY <1>2, <1>5 DEF Tagged

LEMMA UploadIndexes ==
    ASSUME OwnTypeOK, IndexInv,
           NEW u \in Signers, NEW p \in Hashes, NEW refs \in SUBSET Hashes,
           NEW c \in Categories, NEW ts \in TagLists, NEW cost \in Costs,
           NEW asset \in Assets \cup {None},
           Upload(u, p, refs, c, ts, asset, cost)
    PROVE  IndexInv'
<1>1. InternTags(ts)
  BY DEF Upload
<1>2. /\ Dense(Tags', TagsIndex')
      /\ TagsIndex \in Nat /\ TagsIndex' \in Nat /\ TagsIndex <= TagsIndex'
      /\ Tagged(ts) \subseteq 1 .. TagsIndex'
  BY <1>1, TagsInterned DEF OwnTypeOK, IndexTypeOK
<1>3. UNCHANGED <<MetaKeys, MetaKeysIndex>>
  BY DEF Upload
<1>4. PICK owner : Protos' = [Protos EXCEPT ![p] =
                [include_cost |-> cost, owner |-> owner,
                 references |-> refs, category |-> c, tags |-> Tagged(ts),
                 metadata |-> {}, patches |-> <<>>]]
  BY DEF Upload
<1>5. /\ Uploaded' \subseteq Uploaded \cup {p}
      /\ \A q \in Uploaded \ {p} : Protos'[q] = Protos[q]
      /\ Protos'[p].tags = Tagged(ts) /\ Protos'[p].metadata = {}
  BY <1>4 DEF Uploaded, OwnTypeOK, RegistryTypeOK
<1>6. \A q \in Uploaded' : /\ Protos'[q].tags \subseteq 1 .. TagsIndex'
                           /\ Protos'[q].metadata \subseteq 1 .. MetaKeysIndex'
  <2>1. 1 .. TagsIndex \subseteq 1 .. TagsIndex'
    BY <1>2
  <2> QED
    BY <1>2, <1>3, <1>5, <2>1 DEF IndexInv, IndexesAreDense
<1> QED
  BY <1>2, <1>3, <1>6 DEF IndexInv, IndexesAreDense, Dense

(* A step that changes one uploaded proto, and of it tags or metadata. *)
LEMMA EditIndexes ==
    ASSUME OwnTypeOK, IndexInv, NEW p \in Uploaded, NEW new,
           Protos' = [Protos EXCEPT ![p] = new],
           new.tags \subseteq 1 .. TagsIndex',
           new.metadata \subseteq 1 .. MetaKeysIndex',
           Dense(Tags', TagsIndex'), Dense(MetaKeys', MetaKeysIndex'),
           TagsIndex' \in Nat, TagsIndex <= TagsIndex',
           MetaKeysIndex' \in Nat, MetaKeysIndex <= MetaKeysIndex'
    PROVE  IndexInv'
<1>1. /\ Uploaded' \subseteq Uploaded
      /\ \A q \in Uploaded \ {p} : Protos'[q] = Protos[q]
      /\ Protos'[p] = new
  BY DEF Uploaded, OwnTypeOK, RegistryTypeOK
<1>2. TagsIndex \in Nat /\ MetaKeysIndex \in Nat
  BY DEF OwnTypeOK, IndexTypeOK
<1>3. /\ 1 .. TagsIndex \subseteq 1 .. TagsIndex'
      /\ 1 .. MetaKeysIndex \subseteq 1 .. MetaKeysIndex'
  BY <1>2
<1>4. \A q \in Uploaded' : /\ Protos'[q].tags \subseteq 1 .. TagsIndex'
                           /\ Protos'[q].metadata \subseteq 1 .. MetaKeysIndex'
  BY <1>1, <1>3 DEF IndexInv, IndexesAreDense
<1> QED
  BY <1>4 DEF IndexInv, IndexesAreDense, Dense

LEMMA PatchIndexes ==
    ASSUME OwnTypeOK, IndexInv,
           NEW u \in Signers, NEW p \in Hashes, NEW cost \in Costs,
           NEW refs \in SUBSET Hashes, NEW ts \in TagLists \cup {None},
           NEW hasData \in BOOLEAN,
           Patch(u, p, cost, refs, ts, hasData)
    PROVE  IndexInv'
<1>1. PICK old \in Proto : old = Protos[p]
  BY DEF OwnTypeOK, RegistryTypeOK, Patch, Editable
<1>2. PICK patches : patches = IF hasData THEN Append(old.patches, refs)
                               ELSE old.patches
  OBVIOUS
<1>3. PICK tags : tags = IF ts = None THEN old.tags ELSE Tagged(ts)
  OBVIOUS
<1>4. PICK new : new = [old EXCEPT !.patches = patches,
                                   !.include_cost = cost, !.tags = tags]
  OBVIOUS
<1>5. Protos' = [Protos EXCEPT ![p] = new]
  BY <1>1, <1>2, <1>3, <1>4 DEF Patch, OwnTypeOK, RegistryTypeOK
<1>6. p \in Uploaded
  BY DEF Patch, Editable, Uploaded
<1>7. new.tags = tags /\ new.metadata = old.metadata
  BY <1>1, <1>4 DEF Proto
<1>8. /\ old.tags \subseteq 1 .. TagsIndex
      /\ old.metadata \subseteq 1 .. MetaKeysIndex
  BY <1>1, <1>6 DEF IndexInv, IndexesAreDense
<1>9. TagsIndex \in Nat /\ MetaKeysIndex \in Nat
  BY DEF OwnTypeOK, IndexTypeOK
<1>10. /\ Dense(Tags', TagsIndex')
       /\ TagsIndex' \in Nat /\ TagsIndex <= TagsIndex'
       /\ tags \subseteq 1 .. TagsIndex'
  <2>1. CASE ts = None
    BY <1>3, <1>8, <1>9, <2>1 DEF Patch, IndexInv
  <2>2. CASE ts # None
    <3>1. ts \in TagLists /\ InternTags(ts)
      BY <2>2 DEF Patch
    <3> QED
      BY <1>3, <2>2, <3>1, TagsInterned
  <2> QED
    BY <2>1, <2>2
<1>11. UNCHANGED <<MetaKeys, MetaKeysIndex>>
  BY DEF Patch
<1>12. Dense(MetaKeys', MetaKeysIndex')
  BY <1>11 DEF IndexInv
<1>13. new.tags \subseteq 1 .. TagsIndex'
  BY <1>7, <1>10
<1>14. /\ new.metadata \subseteq 1 .. MetaKeysIndex'
       /\ MetaKeysIndex' \in Nat /\ MetaKeysIndex <= MetaKeysIndex'
  BY <1>7, <1>8, <1>9, <1>11
<1> QED
  BY <1>5, <1>6, <1>10, <1>12, <1>13, <1>14, EditIndexes

LEMMA TransferIndexes ==
    ASSUME OwnTypeOK, IndexInv,
           NEW u \in Signers, NEW p \in Hashes, NEW owner \in Accounts,
           Transfer(u, p, owner)
    PROVE  IndexInv'
<1>1. PICK old \in Proto : old = Protos[p]
  BY DEF OwnTypeOK, RegistryTypeOK, Transfer, Editable
<1>2. PICK new : new = [old EXCEPT !.owner = owner]
  OBVIOUS
<1>3. new.tags = old.tags /\ new.metadata = old.metadata
  BY <1>1, <1>2 DEF Proto
<1>4. Protos' = [Protos EXCEPT ![p] = new]
  BY <1>1, <1>2 DEF Transfer, OwnTypeOK, RegistryTypeOK
<1>5. p \in Uploaded
  BY DEF Transfer, Editable, Uploaded
<1>6. UNCHANGED indexVars
  BY DEF Transfer
<1>7. /\ new.tags \subseteq 1 .. TagsIndex
      /\ new.metadata \subseteq 1 .. MetaKeysIndex
  BY <1>1, <1>3, <1>5 DEF IndexInv, IndexesAreDense
<1>8. TagsIndex \in Nat /\ MetaKeysIndex \in Nat
  BY DEF OwnTypeOK, IndexTypeOK
<1>9. /\ new.tags \subseteq 1 .. TagsIndex'
      /\ new.metadata \subseteq 1 .. MetaKeysIndex'
      /\ TagsIndex' \in Nat /\ TagsIndex <= TagsIndex'
      /\ MetaKeysIndex' \in Nat /\ MetaKeysIndex <= MetaKeysIndex'
  BY <1>6, <1>7, <1>8 DEF indexVars
<1>10. Dense(Tags', TagsIndex') /\ Dense(MetaKeys', MetaKeysIndex')
  BY <1>6 DEF IndexInv, indexVars
<1> QED
  BY <1>4, <1>5, <1>9, <1>10, EditIndexes

LEMMA SetMetadataIndexes ==
    ASSUME OwnTypeOK, IndexInv,
           NEW u \in Signers, NEW p \in Hashes, NEW m \in MetaKeyNames,
           SetMetadata(u, p, m)
    PROVE  IndexInv'
<1>1. PICK old \in Proto : old = Protos[p]
  BY DEF OwnTypeOK, RegistryTypeOK, SetMetadata, Editable
<1>2. PICK st : st = Intern(MetaKeys, MetaKeysIndex, <<m>>)
  OBVIOUS
<1>3. PICK new : new = [old EXCEPT !.metadata = @ \cup {st.map[m]}]
  OBVIOUS
<1>4. new.tags = old.tags /\ new.metadata = old.metadata \cup {st.map[m]}
  BY <1>1, <1>3 DEF Proto
<1>5. Protos' = [Protos EXCEPT ![p] = new]
  BY <1>1, <1>2, <1>3 DEF SetMetadata, OwnTypeOK, RegistryTypeOK
<1>6. p \in Uploaded
  BY DEF SetMetadata, Editable, Uploaded
<1>7. TagsIndex \in Nat /\ MetaKeysIndex \in Nat
      /\ MetaKeys \in [MetaKeyNames -> Nat]
  BY DEF OwnTypeOK, IndexTypeOK
<1>8. /\ Dense(st.map, st.last)
      /\ st.last \in Nat /\ MetaKeysIndex <= st.last
      /\ st.map[m] \in 1 .. st.last
  <2>1. <<m>> \in Seq(Range(<<m>>)) /\ Range(<<m>>) = {m}
    BY DEF Range
  <2>2. Dense(MetaKeys, MetaKeysIndex)
    BY DEF IndexInv
  <2>3. Range(<<m>>) \subseteq MetaKeyNames
    BY <2>1
  <2>4. /\ Dense(st.map, st.last)
        /\ st.last \in Nat /\ MetaKeysIndex <= st.last
        /\ \A t \in Range(<<m>>) : st.map[t] \in 1 .. st.last
    BY <1>2, <1>7, <2>1, <2>2, <2>3, InternDense
  <2> QED
    BY <2>1, <2>4
<1>9. /\ MetaKeys' = st.map /\ MetaKeysIndex' = st.last
      /\ UNCHANGED <<Tags, TagsIndex>>
  BY <1>2 DEF SetMetadata
<1>10. /\ new.tags \subseteq 1 .. TagsIndex'
       /\ new.metadata \subseteq 1 .. MetaKeysIndex'
  <2>1. /\ old.tags \subseteq 1 .. TagsIndex
        /\ old.metadata \subseteq 1 .. MetaKeysIndex
    BY <1>1, <1>6 DEF IndexInv, IndexesAreDense
  <2> QED
    BY <1>4, <1>7, <1>8, <1>9, <2>1
<1>11. Dense(Tags', TagsIndex')
  BY <1>9 DEF IndexInv
<1>12. /\ TagsIndex' \in Nat /\ TagsIndex <= TagsIndex'
       /\ MetaKeysIndex' \in Nat /\ MetaKeysIndex <= MetaKeysIndex'
  BY <1>7, <1>8, <1>9
<1>13. Dense(MetaKeys', MetaKeysIndex')
  BY <1>8, <1>9
<1> QED
  BY <1>5, <1>6, <1>10, <1>11, <1>12, <1>13, EditIndexes

(***************************************************************************)
(* The indexes of tags and of metadata keys run from 1 to the last one     *)
(* without a gap or a repetition, and protos keep no others: a list of     *)
(* names may repeat itself and mix known with unknown ones.                *)
(***************************************************************************)
THEOREM IndexesDense == Spec => []IndexesAreDense
<1>1. Init => IndexInv
  <2> SUFFICES ASSUME Init PROVE IndexInv
    OBVIOUS
  <2>1. ASSUME NEW T
        PROVE  Dense([t \in T |-> 0], 0)
    BY FS_EmptySet DEF Dense, NumberedWithoutGap
  <2>2. Dense(Tags, TagsIndex) /\ Dense(MetaKeys, MetaKeysIndex)
    BY <2>1 DEF Init
  <2>3. Uploaded = {}
    BY DEF Init, Uploaded
  <2> QED
    BY <2>2, <2>3 DEF IndexInv, IndexesAreDense, Dense
<1>2. OwnTypeOK /\ IndexInv /\ [Next]_vars => IndexInv'
  <2> SUFFICES ASSUME OwnTypeOK, IndexInv, [Next]_vars
               PROVE  IndexInv'
    OBVIOUS
  <2>1. CASE Uploads
    BY <2>1, UploadIndexes DEF Uploads
  <2>2. ASSUME UNCHANGED <<Protos, indexVars>>
        PROVE  IndexInv'
    BY <2>2 DEF IndexInv, IndexesAreDense, Dense, NumberedWithoutGap, Uploaded,
                indexVars
  <2>3. CASE Edits
    <3>1. \A u, p : Detach(u, p) \/ FinalizeDetach(p)
                      => UNCHANGED <<Protos, indexVars>>
      BY DEF Detach, FinalizeDetach, registryVars
    <3> QED
      BY <2>2, <2>3, <3>1, PatchIndexes, TransferIndexes,
         SetMetadataIndexes DEF Edits
  <2>4. CASE Staking \/ AccountsStep \/ OnFinalize \/ UNCHANGED vars
    <3>1. UNCHANGED <<Protos, indexVars>>
      BY <2>4 DEF Staking, Stake, Unstake, AccountsStep, OnFinalize,
                  registryVars, indexVars, protosVars, vars
    <3> QED
      BY <2>2, <3>1
  <2> QED
    BY <2>1, <2>3, <2>4 DEF Next
<1>3. TypeOK => OwnTypeOK
  BY DEF TypeOK, OwnTypeOK
<1>4. IndexInv => IndexesAreDense
  BY DEF IndexInv
<1> QED
  BY <1>1, <1>2, <1>3, <1>4, TypeCorrect, PTL DEF Spec

=============================================================================
