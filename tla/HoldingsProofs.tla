---------------------------- MODULE HoldingsProofs ----------------------------
(***************************************************************************)
(* Proofs about the instances of the fragments pallet and their holders,   *)
(* for any accounts, classes and bounds, up to the abstract holdings.      *)
(***************************************************************************)
EXTENDS FragmentsProofs

(* What a step does to instances: it leaves them alone, mints editions,    *)
(* gives a copy of one, hands one over itself, or ends a block.            *)
Still == UNCHANGED <<EditionsCount, CopiesCount, Fragments,
                     UniqueData2Edition, Owners, Inventory,
                     Expirations, now>>

MintsEditions(u, c, q, d) == Definitions[c] # None /\ MintFragments(u, c, q, d)

GivesCopy(u, i, to, given, expiration) ==
    /\ Givable(u, i)
    /\ expiration # None => now < expiration
    /\ given \subseteq Fragments[i].permissions
    /\ "COPY" \in Fragments[i].permissions
    /\ GiveCopy(i, to, given, expiration)
    /\ UNCHANGED <<EditionsCount, UniqueData2Edition, now>>

HandsOver(u, i, to, given) ==
    /\ Givable(u, i)
    /\ given \subseteq Fragments[i].permissions
    /\ "COPY" \notin Fragments[i].permissions
    /\ GiveItself(u, i, to, given)
    /\ UNCHANGED <<EditionsCount, UniqueData2Edition, now>>

LEMMA StepKinds ==
    ASSUME TypeOK, [Next]_vars
    PROVE  \/ Still
           \/ \E u \in Accounts, c \in Classes, q \in Nat,
                 d \in DataHashes \cup {None} : MintsEditions(u, c, q, d)
           \/ \E u, to \in Accounts, i \in Instances, given \in SUBSET Perms,
                 expiration \in Blocks \cup {None} :
                   GivesCopy(u, i, to, given, expiration)
           \/ \E u, to \in Accounts, i \in Instances, given \in SUBSET Perms :
                 HandsOver(u, i, to, given)
           \/ OnFinalize
<1>1. ASSUME NEW u \in Accounts, NEW to \in Accounts, NEW i \in Instances,
             NEW perms \in PermissionSets \cup {None},
             NEW expiration \in Blocks \cup {None},
             Give(u, i, to, perms, expiration)
      PROVE  \E given \in SUBSET Perms :
               \/ GivesCopy(u, i, to, given, expiration)
               \/ HandsOver(u, i, to, given)
  BY <1>1, GiveCases DEF GivesCopy, HandsOver
<1> QED
  BY <1>1, StepCases DEF Still, MintsEditions

(* An instance that is given exists. *)
LEMMA GivableExists ==
    \A u, i : Givable(u, i) => Fragments[i] # None
BY DEF Givable

-----------------------------------------------------------------------------
(* Numbers are given out once. *)
NewNumbers ==
    \A i \in Instances :
        (Fragments[i] = None /\ Fragments'[i] # None)
            => /\ Copy(i) > CopiesCount[<<Class(i), Edition(i)>>]
               /\ Copy(i) <= CopiesCount'[<<Class(i), Edition(i)>>]

LEMMA StepNumbersAnew ==
    ASSUME Numbered, [Next]_vars
    PROVE  NewNumbers
<1> USE DEF Numbered
<1> SUFFICES ASSUME NEW i \in Instances, Fragments[i] = None,
                    Fragments'[i] # None
             PROVE  /\ Copy(i) > CopiesCount[<<Class(i), Edition(i)>>]
                    /\ Copy(i) <= CopiesCount'[<<Class(i), Edition(i)>>]
  BY DEF NewNumbers
<1>0. /\ Class(i) \in Classes /\ Edition(i) \in 1 .. MaxEdition
      /\ Edition(i) \in Nat /\ Copy(i) \in Nat
      /\ CopiesCount[<<Class(i), Edition(i)>>] \in Nat
      /\ EditionsCount[Class(i)] \in Nat
  BY InstanceParts, InstanceNumbers DEF TypeOK, EditionIds
<1>1. ~ Still
  BY DEF Still
<1>2. ASSUME NEW u \in Accounts, NEW c \in Classes, NEW q \in Nat,
             NEW d \in DataHashes \cup {None}, MintsEditions(u, c, q, d)
      PROVE  /\ Copy(i) > CopiesCount[<<Class(i), Edition(i)>>]
             /\ Copy(i) <= CopiesCount'[<<Class(i), Edition(i)>>]
  <2>1. i \in NewEditions(c, q)
    BY <1>2, MintFacts DEF MintsEditions
  <2>2. /\ Class(i) = c /\ Copy(i) = 1
        /\ Edition(i) > EditionsCount[c]
        /\ Edition(i) <= EditionsCount'[c]
    BY <1>2, <2>1, MintFacts DEF MintsEditions
  <2>3. CopiesCount'[<<c, Edition(i)>>] = 1
    BY <1>0, <1>2, <2>2, MintFacts DEF MintsEditions
  <2>4. ~ (CopiesCount[<<c, Edition(i)>>] > 0)
    BY <1>0, <2>2 DEF NumberedWithinCounts
  <2> QED
    BY <1>0, <2>2, <2>3, <2>4
<1>3. ASSUME NEW u \in Accounts, NEW k \in Instances, NEW to \in Accounts,
             NEW given \in SUBSET Perms,
             NEW expiration \in Blocks \cup {None},
             GivesCopy(u, k, to, given, expiration)
      PROVE  /\ Copy(i) > CopiesCount[<<Class(i), Edition(i)>>]
             /\ Copy(i) <= CopiesCount'[<<Class(i), Edition(i)>>]
  <2>1. Fragments[k] # None /\ GiveCopy(k, to, given, expiration)
    BY <1>3, GivableExists DEF GivesCopy
  <2>2. i = NextCopy(k)
    BY <2>1, CopyFacts
  <2>3. /\ Class(i) = Class(k) /\ Edition(i) = Edition(k)
        /\ Copy(i) = CopiesCount[<<Class(k), Edition(k)>>] + 1
    BY <2>1, <2>2, CopyFacts
  <2>4. CopiesCount'[<<Class(i), Edition(i)>>] =
          CopiesCount[<<Class(i), Edition(i)>>] + 1
    BY <1>0, <2>1, <2>3, CopyFacts
  <2> QED
    BY <1>0, <2>3, <2>4
<1>4. ASSUME NEW u \in Accounts, NEW k \in Instances, NEW to \in Accounts,
             NEW given \in SUBSET Perms, HandsOver(u, k, to, given)
      PROVE  FALSE
  BY <1>4, GivableExists, SelfFacts DEF HandsOver
<1>5. ~ OnFinalize
  BY DEF OnFinalize
<1> QED
  BY <1>1, <1>2, <1>3, <1>4, <1>5, StepKinds

(***************************************************************************)
(* A number that was given out is never given out again: an instance that  *)
(* expired does not come back as another one.  (CopiesCount, EditionsCount)*)
(***************************************************************************)
IdsNotReused ==
    [][\A i \in Instances :
         (Fragments[i] = None /\ Fragments'[i] # None)
             => /\ Copy(i) > CopiesCount[<<Class(i), Edition(i)>>]
                /\ Copy(i) <= CopiesCount'[<<Class(i), Edition(i)>>]]_vars

(***************************************************************************)
(* An expired instance never comes back as another one: mint_fragments and *)
(* give number what they make beyond every number given out before.        *)
(***************************************************************************)
THEOREM NumbersGivenOnce == Spec => IdsNotReused
<1>1. Numbered /\ [Next]_vars => [NewNumbers]_vars
  BY StepNumbersAnew
<1> QED
  BY <1>1, NumberedAlways, PTL DEF Spec, IdsNotReused, NewNumbers

-----------------------------------------------------------------------------
(* What an instance may do is only restricted. *)
OnlyRestricted ==
    \A i \in Instances :
        (Fragments[i] # None /\ Fragments'[i] # None) =>
            /\ Fragments'[i].permissions \subseteq Fragments[i].permissions
            /\ Fragments'[i].expiring_at = Fragments[i].expiring_at
            /\ Fragments'[i].custom_data = Fragments[i].custom_data

LEMMA StepOnlyRestricts ==
    ASSUME Numbered, [Next]_vars
    PROVE  OnlyRestricted
<1> USE DEF Numbered
<1> SUFFICES ASSUME NEW i \in Instances, Fragments[i] # None,
                    Fragments'[i] # None, Fragments'[i] # Fragments[i]
             PROVE  /\ Fragments'[i].permissions
                         \subseteq Fragments[i].permissions
                    /\ Fragments'[i].expiring_at = Fragments[i].expiring_at
                    /\ Fragments'[i].custom_data = Fragments[i].custom_data
  BY DEF OnlyRestricted
<1>1. ~ Still
  BY DEF Still
<1>2. ASSUME NEW u \in Accounts, NEW c \in Classes, NEW q \in Nat,
             NEW d \in DataHashes \cup {None}, MintsEditions(u, c, q, d)
      PROVE  FALSE
  BY <1>2, MintFacts, NewDidNotExist DEF MintsEditions
<1>3. ASSUME NEW u \in Accounts, NEW k \in Instances, NEW to \in Accounts,
             NEW given \in SUBSET Perms,
             NEW expiration \in Blocks \cup {None},
             GivesCopy(u, k, to, given, expiration)
      PROVE  FALSE
  <2>1. Fragments[k] # None /\ GiveCopy(k, to, given, expiration)
    BY <1>3, GivableExists DEF GivesCopy
  <2>2. NextCopy(k) \in Instances /\ i = NextCopy(k)
    BY <2>1, CopyFacts
  <2> QED
    BY <2>2, CopyDidNotExist
<1>4. ASSUME NEW u \in Accounts, NEW k \in Instances, NEW to \in Accounts,
             NEW given \in SUBSET Perms, HandsOver(u, k, to, given)
      PROVE  /\ Fragments'[i].permissions \subseteq Fragments[i].permissions
             /\ Fragments'[i].expiring_at = Fragments[i].expiring_at
             /\ Fragments'[i].custom_data = Fragments[i].custom_data
  BY <1>4, GivableExists, SelfFacts DEF HandsOver
<1>5. ~ OnFinalize
  BY DEF OnFinalize
<1> QED
  BY <1>1, <1>2, <1>3, <1>4, <1>5, StepKinds

(***************************************************************************)
(* Whoever holds an instance, give only narrows its permissions, and its   *)
(* data and expiration are as it was made.                                 *)
(***************************************************************************)
THEOREM OnlyNarrowed == Spec => PermissionsOnlyShrink
<1>1. Numbered /\ [Next]_vars => [OnlyRestricted]_vars
  BY StepOnlyRestricts
<1> QED
  BY <1>1, NumberedAlways, PTL
  DEF Spec, PermissionsOnlyShrink, OnlyRestricted

-----------------------------------------------------------------------------
(* The giver of a copy. *)
AsLimitedAsGivers ==
    \A i, j \in Instances :
        (Fragments[i] # None /\ Fragments[j] = None /\ Fragments'[j] # None)
          => \A u, to \in Accounts, perms \in PermissionSets \cup {None},
                expiration \in Blocks \cup {None} :
               Give(u, i, to, perms, expiration) =>
                 /\ Class(i) = Class(j) /\ Edition(i) = Edition(j)
                 /\ {"COPY", "TRANSFER"} \subseteq Fragments[i].permissions
                 /\ Fragments'[j].permissions
                      \subseteq Fragments[i].permissions
                 /\ Fragments'[j].custom_data = Fragments[i].custom_data
                 /\ Fragments[i].expiring_at # None =>
                      /\ Fragments'[j].expiring_at # None
                      /\ Fragments'[j].expiring_at
                           <= Fragments[i].expiring_at
                 /\ Fragments'[i] = Fragments[i]
                 /\ Inventory'[<<u, i>>] = Inventory[<<u, i>>]

(* A copy does not outlive its original. *)
LEMMA CopyExpiresFirst ==
    ASSUME TypeOK, NEW i \in Instances, Fragments[i] # None,
           Fragments[i].expiring_at # None,
           NEW expiration \in Blocks \cup {None}
    PROVE  /\ CopyExpiry(i, expiration) # None
           /\ CopyExpiry(i, expiration) <= Fragments[i].expiring_at
<1>1. Fragments[i].expiring_at \in Nat
  BY DEF TypeOK, FragmentInstance
<1>2. expiration # None => expiration \in Nat
  BY CountsAreNat DEF Blocks
<1> QED
  BY <1>1, <1>2, NoneIsAbsent DEF CopyExpiry

LEMMA StepLimitsCopies ==
    ASSUME Numbered, [Next]_vars
    PROVE  AsLimitedAsGivers
<1> USE DEF Numbered
<1> SUFFICES ASSUME NEW i \in Instances, NEW j \in Instances,
                    Fragments[i] # None, Fragments[j] = None,
                    Fragments'[j] # None,
                    NEW u \in Accounts, NEW to \in Accounts,
                    NEW perms \in PermissionSets \cup {None},
                    NEW expiration \in Blocks \cup {None},
                    Give(u, i, to, perms, expiration)
             PROVE  /\ Class(i) = Class(j) /\ Edition(i) = Edition(j)
                    /\ {"COPY", "TRANSFER"} \subseteq Fragments[i].permissions
                    /\ Fragments'[j].permissions
                         \subseteq Fragments[i].permissions
                    /\ Fragments'[j].custom_data = Fragments[i].custom_data
                    /\ Fragments[i].expiring_at # None =>
                         /\ Fragments'[j].expiring_at # None
                         /\ Fragments'[j].expiring_at
                              <= Fragments[i].expiring_at
                    /\ Fragments'[i] = Fragments[i]
                    /\ Inventory'[<<u, i>>] = Inventory[<<u, i>>]
  BY DEF AsLimitedAsGivers
<1>1. PICK given \in SUBSET Perms :
        /\ given \subseteq Fragments[i].permissions
        /\ \/ /\ "COPY" \in Fragments[i].permissions
              /\ GiveCopy(i, to, given, expiration)
           \/ GiveItself(u, i, to, given)
  BY GiveCases
<1>2. ~ GiveItself(u, i, to, given)
  BY SelfFacts
<1>3. /\ GiveCopy(i, to, given, expiration)
      /\ {"COPY", "TRANSFER"} \subseteq Fragments[i].permissions
  <2>1. "TRANSFER" \in Fragments[i].permissions
    BY DEF Give, Givable
  <2>2. "COPY" \in Fragments[i].permissions
    BY <1>1, <1>2
  <2>3. GiveCopy(i, to, given, expiration)
    BY <1>1, <1>2
  <2> QED
    BY <2>1, <2>2, <2>3
<1>4. NextCopy(i) \in Instances /\ j = NextCopy(i)
  BY <1>3, CopyFacts
<1>5. /\ Class(i) = Class(j) /\ Edition(i) = Edition(j)
      /\ Fragments'[j] = [permissions |-> given,
                          custom_data |-> Fragments[i].custom_data,
                          expiring_at |-> CopyExpiry(i, expiration)]
      /\ Fragments'[i] = Fragments[i]
  <2>1. /\ Class(NextCopy(i)) = Class(i) /\ Edition(NextCopy(i)) = Edition(i)
        /\ Fragments'[NextCopy(i)] =
             [permissions |-> given,
              custom_data |-> Fragments[i].custom_data,
              expiring_at |-> CopyExpiry(i, expiration)]
        /\ \A k \in Instances \ {NextCopy(i)} : Fragments'[k] = Fragments[k]
    <3>1. TypeOK /\ Fragments[i] # None
      OBVIOUS
    <3>2. GiveCopy(i, to, given, expiration)
      BY <1>3
    <3> HIDE DEF Numbered
    <3>3. Class(NextCopy(i)) = Class(i) /\ Edition(NextCopy(i)) = Edition(i)
      BY <3>1, <3>2, CopyFacts
    <3> DEFINE copy == [permissions |-> given,
                        custom_data |-> Fragments[i].custom_data,
                        expiring_at |-> CopyExpiry(i, expiration)]
    <3>4. Fragments' = [Fragments EXCEPT ![NextCopy(i)] = copy]
      BY <3>2 DEF GiveCopy
    <3>5. DOMAIN Fragments = Instances
      BY <3>1 DEF TypeOK
    <3> HIDE DEF copy
    <3>6. /\ Fragments'[NextCopy(i)] = copy
          /\ \A k \in Instances \ {NextCopy(i)} : Fragments'[k] = Fragments[k]
      BY <1>4, <3>4, <3>5
    <3> QED
      BY <3>3, <3>6 DEF copy
  <2>2. i # NextCopy(i)
    BY <1>4
  <2> QED
    BY <1>4, <2>1, <2>2
<1>6. Inventory'[<<u, i>>] = Inventory[<<u, i>>]
  <2>1. Inventory' = [Inventory EXCEPT ![<<to, j>>] = @ + 1]
    BY <1>3, <1>4 DEF GiveCopy
  <2>2. <<u, i>> # <<to, j>>
    OBVIOUS
  <2> QED
    BY <2>1, <2>2 DEF TypeOK
<1>7. Fragments[i].expiring_at # None =>
        /\ Fragments'[j].expiring_at # None
        /\ Fragments'[j].expiring_at <= Fragments[i].expiring_at
  BY <1>5, CopyExpiresFirst
<1> QED
  BY <1>1, <1>3, <1>5, <1>6, <1>7

(***************************************************************************)
(* Along any chain of copies of copies, what a giver hands out may do no   *)
(* more than what it keeps, lives no longer and holds the same data.       *)
(***************************************************************************)
THEOREM CopiesAreLimited == Spec => CopiesInherit
<1>1. Numbered /\ [Next]_vars => [AsLimitedAsGivers]_vars
  BY StepLimitsCopies
<1> QED
  BY <1>1, NumberedAlways, PTL DEF Spec, CopiesInherit, AsLimitedAsGivers

-----------------------------------------------------------------------------
(* How the lists of holders change. *)
LEMMA ListedFacts ==
    ASSUME NEW list \in [Listings -> Nat], NEW u, NEW new,
           NEW v \in Accounts, NEW i \in Instances
    PROVE  Listed(list, u, new)[<<v, i>>] =
             IF v = u /\ i \in new THEN list[<<v, i>>] + 1
             ELSE list[<<v, i>>]
BY DEF Listed, Listings

LEMMA HandedFacts ==
    ASSUME NEW list \in [Listings -> Nat], NEW u \in Accounts,
           NEW to \in Accounts, NEW i \in Instances,
           NEW v \in Accounts, NEW k \in Instances
    PROVE  Handed(list, i, u, to)[<<v, k>>] =
             IF k = i
             THEN IF v = to THEN IF u = to THEN 1 ELSE list[<<v, k>>] + 1
                  ELSE IF v = u THEN 0 ELSE list[<<v, k>>]
             ELSE list[<<v, k>>]
<1> DEFINE less == [list EXCEPT ![<<u, i>>] = 0]
<1>1. /\ less \in [Listings -> Nat]
      /\ \A l \in Listings :
           less[l] = IF l = <<u, i>> THEN 0 ELSE list[l]
  OBVIOUS
<1>2. <<u, i>> \in Listings /\ <<to, i>> \in Listings /\ <<v, k>> \in Listings
  BY DEF Listings
<1>3. Handed(list, i, u, to) = [less EXCEPT ![<<to, i>>] = less[<<to, i>>] + 1]
  BY DEF Handed
<1> HIDE DEF less
<1>4. Handed(list, i, u, to)[<<v, k>>] =
        IF <<v, k>> = <<to, i>> THEN less[<<to, i>>] + 1 ELSE less[<<v, k>>]
  BY <1>1, <1>2, <1>3
<1> QED
  BY <1>1, <1>2, <1>4

LEMMA RemovedFacts ==
    ASSUME NEW list \in [Listings -> Nat], NEW expired,
           NEW v \in Accounts, NEW i \in Instances
    PROVE  Removed(list, expired)[<<v, i>>] =
             IF /\ i \in expired
                /\ \E u \in Accounts : Owners[<<u, i>>] > 0
                /\ v = FoundIn(i)
                /\ list[<<v, i>>] > 0
             THEN list[<<v, i>>] - 1 ELSE list[<<v, i>>]
BY DEF Removed, Listings

(* One account holds the instance i, once. *)
HeldOnce(i) ==
    \E u \in Accounts :
        /\ Owners[<<u, i>>] = 1
        /\ \A v \in Accounts \ {u} : Owners[<<v, i>>] = 0

HeldByNone(i) == \A u \in Accounts : Owners[<<u, i>>] = 0

LEMMA OneOwnerIs ==
    OneOwner <=> \A i \in Instances :
                   /\ Fragments[i] = None => HeldByNone(i)
                   /\ Fragments[i] # None => HeldOnce(i)
BY DEF OneOwner, HeldOnce, HeldByNone

LEMMA OneOwnerStep ==
    ASSUME Numbered, InventoryIsOwners, OneOwner, [Next]_vars
    PROVE  OneOwner'
<1> USE DEF Numbered
<1>a. /\ Owners \in [Listings -> Nat]
      /\ \A u \in Accounts, i \in Instances :
           <<u, i>> \in Listings /\ Owners[<<u, i>>] \in Nat
  BY DEF TypeOK, Listings
<1>b. SUFFICES ASSUME NEW i \in Instances
               PROVE  /\ Fragments'[i] = None => HeldByNone(i)'
                      /\ Fragments'[i] # None => HeldOnce(i)'
  BY DEF OneOwner, HeldOnce, HeldByNone
<1>c. /\ Fragments[i] = None => HeldByNone(i)
      /\ Fragments[i] # None => HeldOnce(i)
  BY OneOwnerIs
<1>d. ASSUME \A v \in Accounts : Owners'[<<v, i>>] = Owners[<<v, i>>],
             Fragments'[i] = None <=> Fragments[i] = None
      PROVE  /\ Fragments'[i] = None => HeldByNone(i)'
             /\ Fragments'[i] # None => HeldOnce(i)'
  BY <1>c, <1>d DEF HeldByNone, HeldOnce
<1>e. ASSUME HeldByNone(i), NEW to \in Accounts, Fragments'[i] # None,
             \A v \in Accounts : Owners'[<<v, i>>] =
               IF v = to THEN Owners[<<v, i>>] + 1 ELSE Owners[<<v, i>>]
      PROVE  /\ Fragments'[i] = None => HeldByNone(i)'
             /\ Fragments'[i] # None => HeldOnce(i)'
  BY <1>e DEF HeldByNone, HeldOnce
<1>1. CASE Still
  BY <1>1, <1>d DEF Still
<1>2. ASSUME NEW u \in Accounts, NEW c \in Classes, NEW q \in Nat,
             NEW d \in DataHashes \cup {None}, MintsEditions(u, c, q, d)
      PROVE  /\ Fragments'[i] = None => HeldByNone(i)'
             /\ Fragments'[i] # None => HeldOnce(i)'
  <2> DEFINE new == NewEditions(c, q)
  <2>1. Owners' = Listed(Owners, u, new)
    BY <1>2 DEF MintsEditions, MintFragments
  <2>2. \A v \in Accounts : Owners'[<<v, i>>] =
          IF v = u /\ i \in new THEN Owners[<<v, i>>] + 1
          ELSE Owners[<<v, i>>]
    BY <1>a, <2>1, ListedFacts
  <2>3. CASE i \in new
    <3>1. Fragments[i] = None /\ Fragments'[i] # None
      BY <1>2, <2>3, NewDidNotExist, MintFacts DEF MintsEditions
    <3> HIDE DEF new
    <3> QED
      BY <1>c, <1>e, <2>2, <2>3, <3>1
  <2>4. CASE i \notin new
    <3>1. Fragments'[i] = Fragments[i]
      BY <1>2, <2>4, MintFacts DEF MintsEditions
    <3> HIDE DEF new
    <3> QED
      BY <1>d, <2>2, <2>4, <3>1
  <2> QED
    BY <2>3, <2>4
<1>3. ASSUME NEW u \in Accounts, NEW k \in Instances, NEW to \in Accounts,
             NEW given \in SUBSET Perms,
             NEW expiration \in Blocks \cup {None},
             GivesCopy(u, k, to, given, expiration)
      PROVE  /\ Fragments'[i] = None => HeldByNone(i)'
             /\ Fragments'[i] # None => HeldOnce(i)'
  <2> DEFINE j == NextCopy(k)
  <2>1. Fragments[k] # None /\ GiveCopy(k, to, given, expiration)
    BY <1>3, GivableExists DEF GivesCopy
  <2>2. /\ j \in Instances /\ Fragments[j] = None /\ Fragments'[j] # None
        /\ i # j => Fragments'[i] = Fragments[i]
    BY <2>1, CopyFacts, CopyDidNotExist
  <2>3. Owners' = [Owners EXCEPT ![<<to, j>>] = Owners[<<to, j>>] + 1]
    BY <2>1 DEF GiveCopy
  <2> HIDE DEF j
  <2>4. \A v \in Accounts : Owners'[<<v, i>>] =
          IF v = to /\ i = j THEN Owners[<<v, i>>] + 1 ELSE Owners[<<v, i>>]
    BY <1>a, <2>2, <2>3
  <2>5. CASE i = j
    BY <1>c, <1>e, <2>2, <2>4, <2>5
  <2>6. CASE i # j
    BY <1>d, <2>2, <2>4, <2>6
  <2> QED
    BY <2>5, <2>6
<1>4. ASSUME NEW u \in Accounts, NEW k \in Instances, NEW to \in Accounts,
             NEW given \in SUBSET Perms, HandsOver(u, k, to, given)
      PROVE  /\ Fragments'[i] = None => HeldByNone(i)'
             /\ Fragments'[i] # None => HeldOnce(i)'
  <2>1. /\ Fragments[k] # None /\ GiveItself(u, k, to, given)
        /\ Inventory[<<u, k>>] > 0
    BY <1>4 DEF HandsOver, Givable
  <2>2. Fragments'[i] = None <=> Fragments[i] = None
    BY <2>1, SelfFacts
  <2>3. Owners' = Handed(Owners, k, u, to)
    BY <2>1 DEF GiveItself
  <2>4. \A v \in Accounts : Owners'[<<v, i>>] =
          IF i = k
          THEN IF v = to THEN IF u = to THEN 1 ELSE Owners[<<v, i>>] + 1
               ELSE IF v = u THEN 0 ELSE Owners[<<v, i>>]
          ELSE Owners[<<v, i>>]
    BY <1>a, <2>3, HandedFacts
  <2>5. CASE i # k
    BY <1>d, <2>2, <2>4, <2>5
  <2>6. CASE i = k
    <3>1. PICK w \in Accounts :
            /\ Owners[<<w, i>>] = 1
            /\ \A v \in Accounts \ {w} : Owners[<<v, i>>] = 0
      BY <1>c, <2>1, <2>6 DEF HeldOnce
    <3>2. w = u
      BY <2>1, <2>6, <3>1 DEF InventoryIsOwners
    <3>3. /\ Owners'[<<to, i>>] = 1
          /\ \A v \in Accounts \ {to} : Owners'[<<v, i>>] = 0
      BY <2>4, <2>6, <3>1, <3>2
    <3> QED
      BY <2>1, <2>2, <2>6, <3>3 DEF HeldOnce
  <2> QED
    BY <2>5, <2>6
<1>5. ASSUME OnFinalize
      PROVE  /\ Fragments'[i] = None => HeldByNone(i)'
             /\ Fragments'[i] # None => HeldOnce(i)'
  <2> DEFINE expired == Expirations[now]
  <2>1. /\ Owners' = Removed(Owners, expired)
        /\ Fragments'[i] = IF i \in expired THEN None ELSE Fragments[i]
    BY <1>5 DEF OnFinalize
  <2>2. \A v \in Accounts : Owners'[<<v, i>>] =
          IF /\ i \in expired
             /\ \E u \in Accounts : Owners[<<u, i>>] > 0
             /\ v = FoundIn(i)
             /\ Owners[<<v, i>>] > 0
          THEN Owners[<<v, i>>] - 1 ELSE Owners[<<v, i>>]
    BY <1>a, <2>1, RemovedFacts
  <2> HIDE DEF expired
  <2>3. CASE i \notin expired
    BY <1>d, <2>1, <2>2, <2>3
  <2>4. CASE i \in expired /\ Fragments[i] = None
    BY <1>c, <2>1, <2>2, <2>4 DEF HeldByNone
  <2>5. CASE i \in expired /\ Fragments[i] # None
    <3>1. PICK w \in Accounts :
            /\ Owners[<<w, i>>] = 1
            /\ \A v \in Accounts \ {w} : Owners[<<v, i>>] = 0
      BY <1>c, <2>5 DEF HeldOnce
    <3>2. FoundIn(i) \in Accounts /\ Owners[<<FoundIn(i), i>>] > 0
      BY <3>1 DEF FoundIn
    <3>3. w = FoundIn(i)
      BY <3>1, <3>2
    <3>4. \A v \in Accounts : Owners'[<<v, i>>] = 0
      BY <2>2, <2>5, <3>1, <3>2, <3>3
    <3> QED
      BY <2>1, <2>5, <3>4 DEF HeldByNone
  <2> QED
    BY <2>3, <2>4, <2>5
<1> QED
  BY <1>1, <1>2, <1>3, <1>4, <1>5, StepKinds

(***************************************************************************)
(* A living instance is in the list of one account, once, and a dead one   *)
(* in none: the search of on_finalize over all lists finds the holder, and *)
(* the retain of give leaves no second entry, even to oneself.             *)
(***************************************************************************)
THEOREM HasOneOwner == Spec => []OneOwner
<1> DEFINE Inv == Numbered /\ InventoryIsOwners /\ OneOwner
<1>1. Init => Inv
  <2>1. Init => Numbered
    <3>1. Init => NumberedWithinCounts
      BY CountsAreNat DEF Init, NumberedWithinCounts
    <3> QED
      BY <3>1, InitType DEF Numbered
  <2>2. Init => InventoryIsOwners
    BY DEF Init, InventoryIsOwners
  <2>3. Init => OneOwner
    BY DEF Init, OneOwner
  <2> QED
    BY <2>1, <2>2, <2>3
<1>2. Inv /\ [Next]_vars => Inv'
  BY StepType, NumberedStep, InventoryStep, OneOwnerStep DEF Numbered
<1> QED
  BY <1>1, <1>2, PTL DEF Spec

-----------------------------------------------------------------------------
LEMMA ScheduledStep ==
    ASSUME Numbered, ExpirationsAreScheduled, [Next]_vars
    PROVE  ExpirationsAreScheduled'
<1> USE DEF Numbered
<1>a. /\ \A i \in Instances, b \in Blocks :
           i \in Expirations[b] <=>
             (Fragments[i] # None /\ Fragments[i].expiring_at = b)
      /\ \A b \in Blocks : Expirations[b] # {} => now <= b
      /\ Expirations \in [Blocks -> SUBSET Instances]
      /\ now \in Blocks
      /\ Blocks \subseteq Nat /\ None \notin Blocks
  <2>1. Blocks \subseteq Nat /\ None \notin Blocks
    BY CountsAreNat, NoneIsAbsent DEF Blocks
  <2>2. Expirations \in [Blocks -> SUBSET Instances] /\ now \in Blocks
    BY DEF TypeOK
  <2> QED
    BY <2>1, <2>2 DEF ExpirationsAreScheduled
<1>b. SUFFICES ASSUME NEW b \in Blocks
               PROVE  /\ \A i \in Instances :
                           i \in Expirations'[b] <=>
                             (/\ Fragments'[i] # None
                              /\ Fragments'[i].expiring_at = b)
                      /\ Expirations'[b] # {} => now' <= b
  BY DEF ExpirationsAreScheduled
<1> DEFINE Ok == /\ \A i \in Instances :
                      i \in Expirations'[b] <=>
                        (/\ Fragments'[i] # None
                         /\ Fragments'[i].expiring_at = b)
                 /\ Expirations'[b] # {} => now' <= b
<1>1. CASE Still
  BY <1>1, <1>a DEF Still
<1>2. ASSUME NEW u \in Accounts, NEW c \in Classes, NEW q \in Nat,
             NEW d \in DataHashes \cup {None}, MintsEditions(u, c, q, d)
      PROVE  Ok
  <2>1. Expirations' = Expirations /\ now' = now
    BY <1>2 DEF MintsEditions, MintFragments
  <2>2. ASSUME NEW i \in Instances
        PROVE  i \in Expirations[b] <=>
                 (Fragments'[i] # None /\ Fragments'[i].expiring_at = b)
    <3>1. CASE i \in NewEditions(c, q)
      <4>1. Fragments[i] = None /\ Fragments'[i].expiring_at = None
        BY <1>2, <3>1, NewDidNotExist, MintFacts DEF MintsEditions
      <4> QED
        BY <1>a, <4>1
    <3>2. CASE i \notin NewEditions(c, q)
      <4>1. Fragments'[i] = Fragments[i]
        BY <1>2, <3>2, MintFacts DEF MintsEditions
      <4> QED
        BY <1>a, <4>1
    <3> QED
      BY <3>1, <3>2
  <2> QED
    BY <1>a, <2>1, <2>2
<1>3. ASSUME NEW u \in Accounts, NEW k \in Instances, NEW to \in Accounts,
             NEW given \in SUBSET Perms,
             NEW expiration \in Blocks \cup {None},
             GivesCopy(u, k, to, given, expiration)
      PROVE  Ok
  <2> DEFINE j == NextCopy(k)
             expires == CopyExpiry(k, expiration)
  <2>1. /\ Fragments[k] # None /\ GiveCopy(k, to, given, expiration)
        /\ Fragments[k].expiring_at # None => now < Fragments[k].expiring_at
        /\ expiration # None => now < expiration
        /\ now' = now
    BY <1>3 DEF GivesCopy, Givable
  <2>2. /\ j \in Instances /\ Fragments[j] = None /\ Fragments'[j] # None
        /\ Fragments'[j].expiring_at = expires
        /\ \A i \in Instances \ {j} : Fragments'[i] = Fragments[i]
    <3>1. /\ j \in Instances /\ Fragments'[j] # None
          /\ Fragments'[j] = [permissions |-> given,
                              custom_data |-> Fragments[k].custom_data,
                              expiring_at |-> expires]
          /\ \A i \in Instances \ {j} : Fragments'[i] = Fragments[i]
      BY <2>1, CopyFacts
    <3>2. Fragments[j] = None
      BY <3>1, CopyDidNotExist
    <3> QED
      BY <3>1, <3>2
  <2>3. expires # None => expires \in Nat /\ now < expires
    <3>1. Fragments[k].expiring_at \in Nat \cup {None}
      BY <2>1 DEF TypeOK, FragmentInstance
    <3> QED
      BY <1>a, <2>1, <3>1 DEF CopyExpiry
  <2>4. Expirations' = Scheduled(j, expires)
    BY <2>1 DEF GiveCopy
  <2> HIDE DEF j, expires
  <2>5. Expirations'[b] = IF b = expires THEN Expirations[b] \cup {j}
                          ELSE Expirations[b]
    <3>1. CASE expires = None
      BY <1>a, <2>4, <3>1 DEF Scheduled
    <3>2. CASE expires # None
      <4>1. Expirations' = [Expirations EXCEPT
              ![expires] = Expirations[expires] \cup {j}]
        BY <2>4, <3>2 DEF Scheduled
      <4> QED
        BY <1>a, <4>1
    <3> QED
      BY <3>1, <3>2
  <2>6. ASSUME NEW i \in Instances
        PROVE  i \in Expirations'[b] <=>
                 (Fragments'[i] # None /\ Fragments'[i].expiring_at = b)
    <3>1. CASE i = j
      <4>1. i \notin Expirations[b]
        BY <1>a, <2>2, <3>1
      <4> QED
        BY <2>2, <2>5, <3>1, <4>1
    <3>2. CASE i # j
      BY <1>a, <2>2, <2>5, <3>2
    <3> QED
      BY <3>1, <3>2
  <2>7. Expirations'[b] # {} => now' <= b
    <3>1. CASE b = expires
      BY <1>a, <2>1, <2>3, <3>1
    <3>2. CASE b # expires
      BY <1>a, <2>1, <2>5, <3>2
    <3> QED
      BY <3>1, <3>2
  <2> QED
    BY <2>6, <2>7
<1>4. ASSUME NEW u \in Accounts, NEW k \in Instances, NEW to \in Accounts,
             NEW given \in SUBSET Perms, HandsOver(u, k, to, given)
      PROVE  Ok
  <2>1. /\ Fragments[k] # None /\ GiveItself(u, k, to, given)
        /\ now' = now
    BY <1>4, GivableExists DEF HandsOver
  <2>2. /\ Expirations' = Expirations
        /\ \A i \in Instances \ {k} : Fragments'[i] = Fragments[i]
        /\ \A i \in Instances : Fragments'[i] = None <=> Fragments[i] = None
        /\ Fragments'[k].expiring_at = Fragments[k].expiring_at
    BY <2>1, SelfFacts
  <2>3. ASSUME NEW i \in Instances
        PROVE  i \in Expirations[b] <=>
                 (Fragments'[i] # None /\ Fragments'[i].expiring_at = b)
    <3>1. CASE i = k
      BY <1>a, <2>2, <3>1
    <3>2. CASE i # k
      BY <1>a, <2>2, <3>2
    <3> QED
      BY <3>1, <3>2
  <2> QED
    BY <1>a, <2>1, <2>2, <2>3
<1>5. ASSUME OnFinalize PROVE Ok
  <2>1. /\ Expirations' = [Expirations EXCEPT ![now] = {}]
        /\ now' = IF now < MaxBlock THEN now + 1 ELSE now
        /\ \A i \in Instances : Fragments'[i] =
             IF i \in Expirations[now] THEN None ELSE Fragments[i]
    BY <1>5 DEF OnFinalize
  <2>2. CASE b = now
    <3>1. Expirations'[b] = {}
      BY <1>a, <2>1, <2>2
    <3>2. ASSUME NEW i \in Instances, Fragments'[i] # None
          PROVE  Fragments'[i].expiring_at # b
      BY <1>a, <2>1, <2>2, <3>2
    <3> QED
      BY <3>1, <3>2
  <2>3. CASE b # now
    <3>1. Expirations'[b] = Expirations[b]
      BY <1>a, <2>1, <2>3
    <3>2. ASSUME NEW i \in Instances
          PROVE  i \in Expirations[b] <=>
                   (Fragments'[i] # None /\ Fragments'[i].expiring_at = b)
      BY <1>a, <2>1, <2>3
    <3>3. Expirations[b] # {} => now' <= b
      <4>1. now \in Nat /\ b \in Nat
        BY <1>a
      <4> QED
        BY <1>a, <2>1, <2>3, <4>1
    <3> QED
      BY <3>1, <3>2, <3>3
  <2> QED
    BY <2>2, <2>3
<1> QED
  BY <1>1, <1>2, <1>3, <1>4, <1>5, StepKinds

(***************************************************************************)
(* What expires is always put down for its block, and no such block is     *)
(* over: copies of copies and gifts in the block before included, nothing  *)
(* outlives its expiration and on_finalize removes nothing else.           *)
(***************************************************************************)
THEOREM ExpirationsKept == Spec => []ExpirationsAreScheduled
<1>1. Init => ExpirationsAreScheduled
  BY DEF Init, ExpirationsAreScheduled
<1>2. Numbered /\ ExpirationsAreScheduled /\ [Next]_vars
        => ExpirationsAreScheduled'
  BY ScheduledStep
<1> QED
  BY <1>1, <1>2, NumberedAlways, PTL DEF Spec

-----------------------------------------------------------------------------
(* The abstract holdings.                                                  *)

(* What the single holder rests on. *)
Owned == Numbered /\ InventoryIsOwners /\ OneOwner

LEMMA OwnedAlways == Spec => []Owned
BY NumberedAlways, InventoryAgrees, HasOneOwner, PTL DEF Owned

(* The search of on_finalize finds the one account that lists i. *)
LEMMA HolderFound ==
    ASSUME NEW i, NEW u \in Accounts, Owners[<<u, i>>] > 0,
           \A v \in Accounts \ {u} : Owners[<<v, i>>] = 0
    PROVE  FoundIn(i) = u
<1>1. FoundIn(i) \in Accounts /\ Owners[<<FoundIn(i), i>>] > 0
  BY DEF FoundIn
<1> QED
  BY <1>1

(* What the mapping shows of an instance. *)
LEMMA Shown ==
    ASSUME Owned, NEW i \in Instances
    PROVE  /\ Fragments[i] = None => Holder(i) = None /\ PermissionsOf(i) = {}
           /\ Fragments[i] # None =>
                /\ Holder(i) \in Accounts /\ Holder(i) # None
                /\ PermissionsOf(i) = Fragments[i].permissions
                /\ PermissionsOf(i) \in SUBSET Perms
                /\ Owners[<<Holder(i), i>>] = 1
                /\ \A v \in Accounts \ {Holder(i)} : Owners[<<v, i>>] = 0
                /\ i \in GivenOut
<1>1. CASE Fragments[i] = None
  BY <1>1 DEF Holder, PermissionsOf
<1>2. CASE Fragments[i] # None
  <2>1. PICK u \in Accounts :
          /\ Owners[<<u, i>>] = 1
          /\ \A v \in Accounts \ {u} : Owners[<<v, i>>] = 0
    BY <1>2, OneOwnerIs DEF Owned, HeldOnce
  <2>2. Holder(i) = u
    BY <1>2, <2>1, HolderFound DEF Holder
  <2>3. Fragments[i] \in FragmentInstance
    BY <1>2 DEF Owned, Numbered, TypeOK
  <2>4. i \in GivenOut
    BY <1>2 DEF Owned, Numbered, NumberedWithinCounts, GivenOut
  <2> QED
    BY <1>2, <2>1, <2>2, <2>3, <2>4, NoneIsAbsent
    DEF PermissionsOf, FragmentInstance
<1> QED
  BY <1>1, <1>2

LEMMA ShownNext ==
    ASSUME Owned, Owned', NEW i \in Instances
    PROVE  /\ Fragments'[i] = None =>
                Holder(i)' = None /\ PermissionsOf(i)' = {}
           /\ Fragments'[i] # None =>
                /\ Holder(i)' \in Accounts /\ Holder(i)' # None
                /\ PermissionsOf(i)' = Fragments'[i].permissions
                /\ Owners'[<<Holder(i)', i>>] = 1
                /\ \A v \in Accounts \ {Holder(i)'} : Owners'[<<v, i>>] = 0
<1>1. CASE Fragments'[i] = None
  BY <1>1 DEF Holder, PermissionsOf
<1>2. CASE Fragments'[i] # None
  <2>1. PICK u \in Accounts :
          /\ Owners'[<<u, i>>] = 1
          /\ \A v \in Accounts \ {u} : Owners'[<<v, i>>] = 0
    BY <1>2 DEF Owned, OneOwner
  <2>2. FoundIn(i)' \in Accounts /\ Owners'[<<FoundIn(i)', i>>] > 0
    BY <2>1 DEF FoundIn
  <2>3. Holder(i)' = u
    BY <1>2, <2>1, <2>2 DEF Holder
  <2> QED
    BY <1>2, <2>1, <2>3, NoneIsAbsent DEF PermissionsOf
<1> QED
  BY <1>1, <1>2

(* An instance that is as it was, in lists that are, has its holder. *)
LEMMA Kept ==
    ASSUME Owned, Owned', NEW i \in Instances,
           Fragments'[i] = Fragments[i],
           \A v \in Accounts : Owners'[<<v, i>>] = Owners[<<v, i>>]
    PROVE  /\ Holder(i)' = Holder(i)
           /\ PermissionsOf(i)' = PermissionsOf(i)
<1>1. CASE Fragments[i] = None
  BY <1>1, Shown, ShownNext
<1>2. CASE Fragments[i] # None
  <2>1. /\ Holder(i)' \in Accounts /\ Owners'[<<Holder(i)', i>>] = 1
        /\ PermissionsOf(i)' = Fragments'[i].permissions
    BY <1>2, ShownNext
  <2>2. /\ PermissionsOf(i) = Fragments[i].permissions
        /\ \A v \in Accounts \ {Holder(i)} : Owners[<<v, i>>] = 0
    BY <1>2, Shown
  <2> QED
    BY <2>1, <2>2
<1> QED
  BY <1>1, <1>2

(* What is listed once, by u alone, is u's. *)
LEMMA HeldBy ==
    ASSUME Owned, Owned', NEW i \in Instances, Fragments'[i] # None,
           NEW u \in Accounts, Owners'[<<u, i>>] > 0
    PROVE  Holder(i)' = u
<1>1. \A v \in Accounts \ {Holder(i)'} : Owners'[<<v, i>>] = 0
  BY ShownNext
<1> QED
  BY <1>1

(* An instance that was given out exists or existed. *)
LEMMA GivenOutIs ==
    ASSUME Owned, NEW i \in Instances
    PROVE  /\ i \in GivenOut <=>
                Copy(i) <= CopiesCount[<<Class(i), Edition(i)>>]
           /\ Copy(i) \in Nat /\ Copy(i) >= 1 /\ Edition(i) \in Nat
           /\ CopiesCount[<<Class(i), Edition(i)>>] \in Nat
           /\ EditionsCount[Class(i)] \in Nat
           /\ CopiesCount[<<Class(i), Edition(i)>>] > 0
                <=> Edition(i) <= EditionsCount[Class(i)]
<1>1. /\ Class(i) \in Classes /\ Edition(i) \in 1 .. MaxEdition
      /\ <<Class(i), Edition(i)>> \in EditionIds
      /\ Copy(i) \in 1 .. MaxCopy
  BY InstanceParts
<1>2. Copy(i) \in Nat /\ Edition(i) \in Nat
  BY InstanceNumbers
<1>3. /\ CopiesCount[<<Class(i), Edition(i)>>] \in Nat
      /\ EditionsCount[Class(i)] \in Nat
  BY <1>1 DEF Owned, Numbered, TypeOK, EditionIds
<1> QED
  BY <1>1, <1>2, <1>3 DEF GivenOut, Owned, Numbered, NumberedWithinCounts

(* No instance of an edition beyond the count was given out. *)
LEMMA NotGivenOut ==
    ASSUME Owned, NEW i \in Instances,
           Edition(i) > EditionsCount[Class(i)]
    PROVE  i \notin GivenOut
<1>1. /\ Edition(i) \in Nat /\ EditionsCount[Class(i)] \in Nat
      /\ CopiesCount[<<Class(i), Edition(i)>>] \in Nat
      /\ Copy(i) \in Nat /\ Copy(i) >= 1
      /\ CopiesCount[<<Class(i), Edition(i)>>] > 0
           <=> Edition(i) <= EditionsCount[Class(i)]
      /\ i \in GivenOut <=> Copy(i) <= CopiesCount[<<Class(i), Edition(i)>>]
  BY GivenOutIs
<1>2. ~ (Edition(i) <= EditionsCount[Class(i)])
  BY <1>1
<1> QED
  BY <1>1, <1>2

-----------------------------------------------------------------------------
LEMMA StillHolds ==
    ASSUME Still
    PROVE  UNCHANGED Holds!holdingVars
BY DEF Still, Holds!holdingVars, GivenOut, Holder, FoundIn, PermissionsOf

(* Minting gives birth to first copies of editions that had none. *)
LEMMA MintHolds ==
    ASSUME Owned, Owned', NEW u \in Accounts, NEW c \in Classes, NEW q \in Nat,
           NEW d \in DataHashes \cup {None}, MintsEditions(u, c, q, d)
    PROVE  Holds!HoldingsNext
<1> DEFINE new == NewEditions(c, q)
           r == Definitions[c].permissions
<1>1. MintFragments(u, c, q, d) /\ Definitions[c] # None /\ TypeOK
  BY DEF MintsEditions, Owned, Numbered
<1>2. /\ \A i \in new : /\ i \in Instances /\ Class(i) = c /\ Copy(i) = 1
                        /\ Edition(i) > EditionsCount[c]
                        /\ Edition(i) <= EditionsCount'[c]
                        /\ Fragments'[i] # None
      /\ \A i \in Instances \ new : Fragments'[i] = Fragments[i]
      /\ \A b \in Classes, e \in 1 .. MaxEdition :
           CopiesCount'[<<b, e>>] =
             IF b = c /\ e > EditionsCount[c] /\ e <= EditionsCount'[c]
             THEN 1 ELSE CopiesCount[<<b, e>>]
  BY <1>1, MintFacts
<1>3. r \in SUBSET Perms
  BY <1>1 DEF TypeOK, FragmentDefinition
<1>4. \A i \in new : Fragments'[i].permissions = r
  BY <1>1, <1>2 DEF MintFragments
<1>5. \A i \in Instances, v \in Accounts : Owners'[<<v, i>>] =
        IF v = u /\ i \in new THEN Owners[<<v, i>>] + 1 ELSE Owners[<<v, i>>]
  <2>1. Owners \in [Listings -> Nat] /\ Owners' = Listed(Owners, u, new)
    BY <1>1 DEF MintFragments, TypeOK, Listings
  <2> QED
    BY <2>1, ListedFacts
<1>6. \A i \in new : i \notin GivenOut
  <2> SUFFICES ASSUME NEW i \in new PROVE i \notin GivenOut
    OBVIOUS
  <2>1. i \in Instances /\ Class(i) = c /\ Edition(i) > EditionsCount[c]
    BY <1>2
  <2> HIDE DEF new
  <2> QED
    BY <2>1, NotGivenOut
<1> HIDE DEF new
<1>7. ASSUME NEW i \in Instances
      PROVE  /\ i \in GivenOut' <=> i \in GivenOut \/ i \in new
             /\ Holder(i)' = IF i \in new THEN u ELSE Holder(i)
             /\ PermissionsOf(i)' = IF i \in new THEN r ELSE PermissionsOf(i)
  <2>1. CASE i \in new
    <3>1. Owners'[<<u, i>>] > 0
      <4>1. Owners[<<u, i>>] \in Nat
        BY <1>1 DEF TypeOK
      <4> QED
        BY <1>5, <2>1, <4>1
    <3>2. Holder(i)' = u
      BY <1>2, <2>1, <3>1, HeldBy
    <3>3. PermissionsOf(i)' = r
      BY <1>2, <1>4, <2>1, ShownNext
    <3>4. i \in GivenOut'
      BY <1>2, <2>1 DEF Owned, Numbered, NumberedWithinCounts, GivenOut
    <3> QED
      BY <2>1, <3>2, <3>3, <3>4
  <2>2. CASE i \notin new
    <3>1. Holder(i)' = Holder(i) /\ PermissionsOf(i)' = PermissionsOf(i)
      BY <1>2, <1>5, <2>2, Kept
    <3>2. i \in GivenOut' <=> i \in GivenOut
      <4>1. i \in GivenOut' <=>
              Copy(i) <= CopiesCount'[<<Class(i), Edition(i)>>]
        BY DEF GivenOut
      <4>2. Class(i) \in Classes /\ Edition(i) \in 1 .. MaxEdition
        BY InstanceParts
      <4>3. CASE /\ Class(i) = c /\ Edition(i) > EditionsCount[c]
                 /\ Edition(i) <= EditionsCount'[c]
        <5>1. CopiesCount'[<<Class(i), Edition(i)>>] = 1
          BY <1>2, <4>2, <4>3
        <5>2. Copy(i) # 1
          <6>1. EditionsCount'[c] = EditionsCount[c] + q
            BY <1>1, MintFacts
          <6> QED
            BY <2>2, <4>3, <6>1 DEF new, NewEditions
        <5> QED
          BY <4>1, <4>3, <5>1, <5>2, GivenOutIs
      <4>4. CASE ~ (/\ Class(i) = c /\ Edition(i) > EditionsCount[c]
                    /\ Edition(i) <= EditionsCount'[c])
        <5>1. CopiesCount'[<<Class(i), Edition(i)>>] =
                CopiesCount[<<Class(i), Edition(i)>>]
          BY <1>2, <4>2, <4>4
        <5> QED
          BY <4>1, <5>1, GivenOutIs
      <4> QED
        BY <4>3, <4>4
    <3> QED
      BY <2>2, <3>1, <3>2
  <2> QED
    BY <2>1, <2>2
<1>8. ASSUME NEW i \in new, NEW j \in new \cup GivenOut,
             Class(i) = Class(j), Edition(i) = Edition(j)
      PROVE  i = j
  <2>0. i \in Instances /\ Class(i) = c /\ Edition(i) > EditionsCount[c]
        /\ Copy(i) = 1
    BY <1>2
  <2>1. CASE j \in new
    <3>1. j \in Instances /\ Copy(j) = Copy(i)
      BY <1>2, <2>1
    <3>2. i = <<Class(i), Edition(i), Copy(i)>>
      BY <2>0, InstanceParts
    <3>3. j = <<Class(j), Edition(j), Copy(j)>>
      BY <3>1, InstanceParts
    <3> QED
      BY <1>8, <3>1, <3>2, <3>3
  <2>2. CASE j \in GivenOut
    <3>1. j \in Instances
      BY <2>2 DEF GivenOut
    <3>2. Edition(j) > EditionsCount[Class(j)]
      BY <1>8, <2>0
    <3> QED
      BY <2>2, <3>1, <3>2, NotGivenOut
  <2> QED
    BY <2>1, <2>2
<1>9. new \in SUBSET (Instances \ GivenOut) /\ GivenOut \subseteq Instances
  BY <1>2, <1>6 DEF GivenOut
<1> HIDE DEF r
<1>10. Holds!MintNew(new, u, r)
  <2>1. \A i \in new, j \in new \cup GivenOut :
          [k \in Instances |-> <<Class(k), Edition(k)>>][i]
            = [k \in Instances |-> <<Class(k), Edition(k)>>][j] => i = j
    BY <1>8, <1>9
  <2>2. GivenOut' = GivenOut \cup new
    <3>1. GivenOut' \subseteq Instances
      BY DEF GivenOut
    <3> QED
      BY <1>7, <1>9, <3>1
  <2>3. Holds!Born(new, u, r)
    BY <1>7, <2>2 DEF Holds!Born
  <2> QED
    BY <2>1, <2>3 DEF Holds!MintNew
<1> QED
  BY <1>3, <1>9, <1>10 DEF Holds!HoldingsNext

(* Giving a copy gives birth to the next copy of the edition. *)
LEMMA CopyHolds ==
    ASSUME Owned, Owned', NEW u \in Accounts, NEW k \in Instances,
           NEW to \in Accounts, NEW given \in SUBSET Perms,
           NEW expiration \in Blocks \cup {None},
           GivesCopy(u, k, to, given, expiration)
    PROVE  Holds!HoldingsNext
<1> DEFINE j == NextCopy(k)
<1>1. /\ GiveCopy(k, to, given, expiration) /\ TypeOK /\ NumberedWithinCounts
      /\ Fragments[k] # None
      /\ {"COPY", "TRANSFER"} \subseteq Fragments[k].permissions
      /\ given \subseteq Fragments[k].permissions
  BY DEF GivesCopy, Givable, Owned, Numbered
<1>2. /\ j \in Instances /\ Class(j) = Class(k) /\ Edition(j) = Edition(k)
      /\ Copy(j) = CopiesCount[<<Class(k), Edition(k)>>] + 1
      /\ Fragments'[j] # None
      /\ Fragments'[j] = [permissions |-> given,
                          custom_data |-> Fragments[k].custom_data,
                          expiring_at |-> CopyExpiry(k, expiration)]
      /\ \A i \in Instances \ {j} : Fragments'[i] = Fragments[i]
      /\ \A b \in Classes, e \in 1 .. MaxEdition :
           CopiesCount'[<<b, e>>] =
             IF b = Class(k) /\ e = Edition(k)
             THEN CopiesCount[<<b, e>>] + 1 ELSE CopiesCount[<<b, e>>]
  BY <1>1, CopyFacts
<1>3. Owners' = [Owners EXCEPT ![<<to, j>>] = Owners[<<to, j>>] + 1]
  BY <1>1 DEF GiveCopy
<1> HIDE DEF j
<1>4. \A i \in Instances, v \in Accounts : Owners'[<<v, i>>] =
        IF v = to /\ i = j THEN Owners[<<v, i>>] + 1 ELSE Owners[<<v, i>>]
  <2>1. Owners \in [Listings -> Nat]
        /\ \A i \in Instances, v \in Accounts : <<v, i>> \in Listings
    BY <1>1 DEF TypeOK, Listings
  <2> QED
    BY <1>2, <1>3, <2>1
<1>5. j \notin GivenOut
  <2>1. CopiesCount[<<Class(j), Edition(j)>>] \in Nat
    BY <1>2, GivenOutIs
  <2>2. ~ (Copy(j) <= CopiesCount[<<Class(j), Edition(j)>>])
    BY <1>2, <2>1
  <2> QED
    BY <2>2 DEF GivenOut
<1>6. ASSUME NEW i \in Instances
      PROVE  /\ i \in GivenOut' <=> i \in GivenOut \/ i = j
             /\ Holder(i)' = IF i \in {j} THEN to ELSE Holder(i)
             /\ PermissionsOf(i)' =
                  IF i \in {j} THEN given ELSE PermissionsOf(i)
  <2>1. CASE i = j
    <3>1. Owners'[<<to, i>>] > 0
      <4>1. Owners[<<to, i>>] \in Nat
        BY <1>1 DEF TypeOK
      <4> QED
        BY <1>4, <2>1, <4>1
    <3>2. Holder(i)' = to
      BY <1>2, <2>1, <3>1, HeldBy
    <3>3. PermissionsOf(i)' = given
      <4>1. Fragments'[j].permissions = given
        BY <1>2
      <4>2. PermissionsOf(i)' = Fragments'[i].permissions
        BY <1>2, <2>1, ShownNext
      <4> QED
        BY <2>1, <4>1, <4>2
    <3>4. i \in GivenOut'
      BY <1>2, <2>1 DEF Owned, Numbered, NumberedWithinCounts, GivenOut
    <3> QED
      BY <2>1, <3>2, <3>3, <3>4
  <2>2. CASE i # j
    <3>1. Holder(i)' = Holder(i) /\ PermissionsOf(i)' = PermissionsOf(i)
      BY <1>2, <1>4, <2>2, Kept
    <3>2. i \in GivenOut' <=> i \in GivenOut
      <4>1. i \in GivenOut' <=>
              Copy(i) <= CopiesCount'[<<Class(i), Edition(i)>>]
        BY DEF GivenOut
      <4>2. /\ Class(i) \in Classes /\ Edition(i) \in 1 .. MaxEdition
            /\ Copy(i) \in Nat
            /\ CopiesCount[<<Class(i), Edition(i)>>] \in Nat
        BY InstanceParts, GivenOutIs
      <4>3. CASE Class(i) = Class(k) /\ Edition(i) = Edition(k)
        <5>1. CopiesCount'[<<Class(i), Edition(i)>>] = Copy(j)
          BY <1>2, <4>2, <4>3
        <5>2. Copy(i) # Copy(j)
          <6>1. i = <<Class(i), Edition(i), Copy(i)>>
            BY InstanceParts
          <6>2. j = <<Class(j), Edition(j), Copy(j)>>
            BY <1>2, InstanceParts
          <6> QED
            BY <1>2, <2>2, <4>3, <6>1, <6>2
        <5> QED
          BY <1>2, <4>1, <4>2, <4>3, <5>1, <5>2, GivenOutIs
      <4>4. CASE ~ (Class(i) = Class(k) /\ Edition(i) = Edition(k))
        <5>1. CopiesCount'[<<Class(i), Edition(i)>>] =
                CopiesCount[<<Class(i), Edition(i)>>]
          BY <1>2, <4>2, <4>4
        <5> QED
          BY <4>1, <5>1, GivenOutIs
      <4> QED
        BY <4>3, <4>4
    <3> QED
      BY <2>2, <3>1, <3>2
  <2> QED
    BY <2>1, <2>2
<1>7. /\ PermissionsOf(k) = Fragments[k].permissions /\ Holder(k) # None
      /\ GivenOut \subseteq Instances
  BY <1>1, Shown DEF GivenOut
<1>8. Holds!CopyTo(k, j, to, given)
  <2>1. GivenOut' = GivenOut \cup {j}
    <3>1. GivenOut' \subseteq Instances
      BY DEF GivenOut
    <3> QED
      BY <1>2, <1>6, <1>7, <3>1
  <2>2. Holds!Born({j}, to, given)
    BY <1>6, <2>1 DEF Holds!Born
  <2> QED
    BY <1>1, <1>2, <1>7, <2>2 DEF Holds!CopyTo
<1> QED
  BY <1>1, <1>2, <1>5, <1>7, <1>8 DEF Holds!HoldingsNext, Holds!Alive

(* Giving an instance itself makes the receiver its one holder. *)
LEMMA HandHolds ==
    ASSUME Owned, Owned', NEW u \in Accounts, NEW k \in Instances,
           NEW to \in Accounts, NEW given \in SUBSET Perms,
           HandsOver(u, k, to, given)
    PROVE  Holds!HoldingsNext
<1>1. /\ GiveItself(u, k, to, given) /\ TypeOK
      /\ Fragments[k] # None
      /\ "TRANSFER" \in Fragments[k].permissions
      /\ "COPY" \notin Fragments[k].permissions
      /\ given \subseteq Fragments[k].permissions
  BY DEF HandsOver, Givable, Owned, Numbered
<1>2. /\ \A i \in Instances : Fragments'[i] = None <=> Fragments[i] = None
      /\ \A i \in Instances \ {k} : Fragments'[i] = Fragments[i]
      /\ Fragments'[k].permissions = given
      /\ CopiesCount' = CopiesCount
  BY <1>1, SelfFacts
<1>3. \A i \in Instances, v \in Accounts : Owners'[<<v, i>>] =
        IF i = k
        THEN IF v = to THEN IF u = to THEN 1 ELSE Owners[<<v, i>>] + 1
             ELSE IF v = u THEN 0 ELSE Owners[<<v, i>>]
        ELSE Owners[<<v, i>>]
  <2>1. Owners \in [Listings -> Nat] /\ Owners' = Handed(Owners, k, u, to)
    BY <1>1 DEF GiveItself, TypeOK, Listings
  <2> QED
    BY <2>1, HandedFacts
<1>4. Holder(k)' = to
  <2>1. Owners[<<to, k>>] \in Nat
    BY <1>1 DEF TypeOK
  <2>2. Owners'[<<to, k>>] > 0
    BY <1>3, <2>1
  <2> QED
    BY <1>1, <1>2, <2>2, HeldBy
<1>5. PermissionsOf(k)' = given
  BY <1>1, <1>2, ShownNext
<1>6. \A i \in Instances \ {k} :
        Holder(i)' = Holder(i) /\ PermissionsOf(i)' = PermissionsOf(i)
  BY <1>2, <1>3, Kept
<1>7. PermissionsOf(k) = Fragments[k].permissions /\ Holder(k) # None
  BY <1>1, Shown
<1>8. GivenOut' = GivenOut
  BY <1>2 DEF GivenOut
<1>9. Holds!HandOver(k, to, given)
  BY <1>1, <1>4, <1>5, <1>6, <1>7, <1>8 DEF Holds!HandOver
<1> QED
  BY <1>1, <1>7, <1>9 DEF Holds!HoldingsNext, Holds!Alive

(* The end of a block takes what expires from its holders. *)
LEMMA FinalizeHolds ==
    ASSUME Owned, Owned', OnFinalize
    PROVE  Holds!HoldingsNext
<1> DEFINE gone == {i \in Expirations[now] \cap Instances :
                      Fragments[i] # None}
<1>1. \A i \in Instances :
        /\ Fragments'[i] = IF i \in gone THEN None ELSE Fragments[i]
  BY DEF OnFinalize
<1>2. ASSUME NEW i \in Instances
      PROVE  /\ Holder(i)' = IF i \in gone THEN None ELSE Holder(i)
             /\ PermissionsOf(i)' = IF i \in gone THEN {} ELSE PermissionsOf(i)
  <2>1. CASE i \in gone
    <3>1. Fragments'[i] = None
      BY <1>1, <2>1
    <3> QED
      BY <2>1, <3>1, ShownNext
  <2>2. CASE i \notin gone /\ Fragments[i] = None
    <3>1. Fragments'[i] = None
      BY <1>1, <2>2
    <3> HIDE DEF gone
    <3> QED
      BY <2>2, <3>1, Shown, ShownNext
  <2>3. CASE i \notin gone /\ Fragments[i] # None
    <3>1. Fragments'[i] = Fragments[i] /\ i \notin Expirations[now]
      BY <1>1, <2>3
    <3>2. Owners \in [Listings -> Nat]
          /\ Owners' = Removed(Owners, Expirations[now])
      BY DEF OnFinalize, Owned, Numbered, TypeOK, Listings
    <3>3. \A v \in Accounts : Owners'[<<v, i>>] = Owners[<<v, i>>]
      BY <3>1, <3>2, RemovedFacts
    <3> HIDE DEF gone
    <3> QED
      BY <2>3, <3>1, <3>3, Kept
  <2> QED
    BY <2>1, <2>2, <2>3
<1>3. gone \in SUBSET Holds!Alive
  BY Shown DEF Holds!Alive
<1>4. GivenOut' = GivenOut
  BY DEF OnFinalize, GivenOut
<1> HIDE DEF gone
<1>5. Holds!Expire(gone)
  BY <1>2, <1>4 DEF Holds!Expire
<1> QED
  BY <1>3, <1>5 DEF Holds!HoldingsNext

(***************************************************************************)
(* The pallet implements the abstract holdings: every step of minting,     *)
(* giving or expiring, over two double maps of lists and two counts, is a  *)
(* step of single holders, and the other steps leave holders and rights    *)
(* alone.                                                                  *)
(***************************************************************************)
THEOREM ImplementsHoldings == Spec => IsHoldings
<1>1. Init => Holds!HoldingsInit
  <2> SUFFICES ASSUME Init PROVE Holds!HoldingsInit
    OBVIOUS
  <2>1. GivenOut = {}
    <3>1. ASSUME NEW i \in Instances
          PROVE  ~ (Copy(i) <= CopiesCount[<<Class(i), Edition(i)>>])
      <4>1. CopiesCount[<<Class(i), Edition(i)>>] = 0 /\ Copy(i) \in 1 .. MaxCopy
        BY InstanceParts DEF Init, EditionIds
      <4>2. Copy(i) \in Nat /\ Copy(i) # 0
        BY <4>1, InstanceNumbers
      <4> QED
        BY <4>1, <4>2
    <3> QED
      BY <3>1 DEF GivenOut
  <2>2. \A i \in Instances : Holder(i) = None /\ PermissionsOf(i) = {}
    BY DEF Init, Holder, PermissionsOf
  <2> QED
    BY <2>1, <2>2 DEF Holds!HoldingsInit
<1>2. Owned /\ Owned' /\ [Next]_vars
        => [Holds!HoldingsNext]_(Holds!holdingVars)
  <2> SUFFICES ASSUME Owned, Owned', [Next]_vars
               PROVE  \/ Holds!HoldingsNext
                      \/ UNCHANGED Holds!holdingVars
    OBVIOUS
  <2>1. TypeOK
    BY DEF Owned, Numbered
  <2> QED
    BY <2>1, StepKinds, StillHolds, MintHolds, CopyHolds, HandHolds,
       FinalizeHolds
<1> QED
  BY <1>1, <1>2, OwnedAlways, PTL DEF Spec, IsHoldings, Holds!HoldingsSpec

=============================================================================
