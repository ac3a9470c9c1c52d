--------------------------- MODULE FragmentsProofs ---------------------------
(***************************************************************************)
(* Proofs about the fragments pallet, for any accounts, protos, classes    *)
(* and bounds.                                                             *)
(***************************************************************************)
EXTENDS Fragments, TLAPS

Listings == Accounts \X Instances
EditionIds == Classes \X (1 .. MaxEdition)

(* An instance is its class, edition and copy. *)
LEMMA InstanceParts ==
    /\ \A i \in Instances :
         /\ Class(i) \in Classes
         /\ Edition(i) \in 1 .. MaxEdition
         /\ Copy(i) \in 1 .. MaxCopy
         /\ i = <<Class(i), Edition(i), Copy(i)>>
         /\ <<Class(i), Edition(i)>> \in EditionIds
    /\ \A c \in Classes, e \in 1 .. MaxEdition, k \in 1 .. MaxCopy :
         /\ <<c, e, k>> \in Instances
         /\ Class(<<c, e, k>>) = c
         /\ Edition(<<c, e, k>>) = e
         /\ Copy(<<c, e, k>>) = k
BY DEF Instances, Class, Edition, Copy, EditionIds

LEMMA InstanceNumbers ==
    \A i \in Instances : Edition(i) \in Nat /\ Copy(i) \in Nat
<1> SUFFICES ASSUME NEW i \in Instances
             PROVE  Edition(i) \in Nat /\ Copy(i) \in Nat
  OBVIOUS
<1>1. Edition(i) \in 1 .. MaxEdition /\ Copy(i) \in 1 .. MaxCopy
  BY InstanceParts
<1>2. MaxEdition \in Nat /\ MaxCopy \in Nat
  BY CountsAreNat
<1> QED
  BY <1>1, <1>2

LEMMA NewAreInstances ==
    ASSUME NEW c \in Classes, NEW q \in Nat, NEW i \in NewEditions(c, q)
    PROVE  /\ i \in Instances
           /\ Class(i) = c /\ Copy(i) = 1
           /\ Edition(i) > EditionsCount[c]
           /\ Edition(i) <= EditionsCount[c] + q
BY DEF NewEditions

LEMMA ListedType ==
    ASSUME NEW list \in [Listings -> Nat], NEW u, NEW new
    PROVE  Listed(list, u, new) \in [Listings -> Nat]
BY DEF Listed, Listings

LEMMA HandedType ==
    ASSUME NEW list \in [Listings -> Nat], NEW i, NEW u, NEW to
    PROVE  Handed(list, i, u, to) \in [Listings -> Nat]
<1> DEFINE less == [list EXCEPT ![<<u, i>>] = 0]
<1>1. less \in [Listings -> Nat]
  OBVIOUS
<1> HIDE DEF less
<1>2. [less EXCEPT ![<<to, i>>] = @ + 1] \in [Listings -> Nat]
  <2>1. CASE <<to, i>> \in Listings
    <3>1. less[<<to, i>>] + 1 \in Nat
      BY <1>1, <2>1
    <3> QED
      BY <1>1, <3>1
  <2>2. CASE <<to, i>> \notin Listings
    BY <1>1, <2>2
  <2> QED
    BY <2>1, <2>2
<1> QED
  BY <1>2 DEF Handed, less

LEMMA RemovedType ==
    ASSUME NEW list \in [Listings -> Nat], NEW expired
    PROVE  Removed(list, expired) \in [Listings -> Nat]
<1>1. ASSUME NEW l \in Listings
      PROVE  (IF /\ l[2] \in expired
                 /\ \E u \in Accounts : Owners[<<u, l[2]>>] > 0
                 /\ l[1] = FoundIn(l[2])
                 /\ list[l] > 0
              THEN list[l] - 1 ELSE list[l]) \in Nat
  <2>1. list[l] \in Nat
    OBVIOUS
  <2>2. list[l] > 0 => list[l] - 1 \in Nat
    BY <2>1
  <2> QED
    BY <2>1, <2>2
<1> QED
  BY <1>1 DEF Removed, Listings

-----------------------------------------------------------------------------
LEMMA InitType == Init => TypeOK
BY CountsAreNat DEF Init, Protos!RegistryInit, TypeOK, Blocks

LEMMA MintType ==
    ASSUME TypeOK, NEW u \in Accounts, NEW c \in Classes,
           NEW q \in Nat, NEW d \in DataHashes \cup {None},
           Definitions[c] # None, MintFragments(u, c, q, d),
           Publishing' \in [Classes -> PublishingData \cup {None}]
    PROVE  TypeOK'
<1> DEFINE new == NewEditions(c, q)
           fresh == [permissions |-> Definitions[c].permissions,
                     custom_data |-> d, expiring_at |-> None]
<1>1. fresh \in FragmentInstance
  BY DEF TypeOK, FragmentDefinition, FragmentInstance
<1>2. Fragments' \in [Instances -> FragmentInstance \cup {None}]
  BY <1>1 DEF MintFragments, TypeOK
<1>3. CopiesCount' \in [EditionIds -> 0 .. MaxCopy]
  BY CountsAreNat DEF MintFragments, TypeOK, EditionIds
<1>4. Inventory' \in [Listings -> Nat] /\ Owners' \in [Listings -> Nat]
  BY ListedType DEF MintFragments, TypeOK, Listings
<1>5. EditionsCount' \in [Classes -> 0 .. MaxEdition]
  <2>1. EditionsCount[c] \in Nat /\ EditionsCount[c] + q \in 0 .. MaxEdition
    BY CountsAreNat DEF MintFragments, TypeOK
  <2> QED
    BY <2>1 DEF MintFragments, TypeOK
<1>6. UniqueData2Edition' \in [Classes \X DataHashes -> Nat \cup {None}]
  <2>1. EditionsCount[c] \in Nat
    BY DEF TypeOK
  <2> QED
    BY <2>1 DEF MintFragments, TypeOK
<1> QED
  BY <1>2, <1>3, <1>4, <1>5, <1>6
  DEF MintFragments, TypeOK, protoVars, classVars, EditionIds, Listings

LEMMA StepType == TypeOK /\ [Next]_vars => TypeOK'
<1> SUFFICES ASSUME TypeOK, [Next]_vars PROVE TypeOK'
    OBVIOUS
<1> USE DEF protoVars, classVars, listVars, instanceVars
<1>1. ASSUME RegistryStep PROVE TypeOK'
  BY <1>1 DEF TypeOK, RegistryStep, Protos!RegistryNext, Protos!Claim,
              Protos!PassOn, Protos!Seal
<1>3. ASSUME NEW c \in Classes, FundVault(c) PROVE TypeOK'
  BY <1>3 DEF TypeOK, FundVault
<1>4. ASSUME NEW u \in Accounts, NEW c \in Classes,
             NEW perms \in PermissionSets, NEW unique \in BOOLEAN,
             NEW max \in Quantities \cup {None},
             Create(u, c, perms, unique, max)
      PROVE  TypeOK'
  <2>1. [permissions |-> perms, unique |-> unique, max_supply |-> max]
          \in FragmentDefinition
    BY PermsAreFlags, CountsAreNat DEF FragmentDefinition
  <2> QED
    BY <1>4, <2>1 DEF TypeOK, Create
<1>5. ASSUME NEW u \in Accounts, NEW c \in Classes,
             NEW quantity \in Quantities \cup {None},
             NEW expires \in Blocks \cup {None},
             Publish(u, c, quantity, expires)
      PROVE  TypeOK'
  <2>1. [units_left |-> quantity, expiration |-> expires] \in PublishingData
    BY CountsAreNat DEF PublishingData, Blocks
  <2> QED
    BY <1>5, <2>1 DEF TypeOK, Publish
<1>6. ASSUME NEW u \in Accounts, NEW c \in Classes, Unpublish(u, c)
      PROVE  TypeOK'
  BY <1>6 DEF TypeOK, Unpublish
<1>7. ASSUME NEW u \in Accounts, NEW c \in Classes, NEW q \in Quantities,
             NEW d \in DataHashes \cup {None}, Mint(u, c, q, d)
      PROVE  TypeOK'
  <2>1. Publishing' \in [Classes -> PublishingData \cup {None}]
    BY <1>7 DEF Mint, TypeOK
  <2> QED
    BY <1>7, <2>1, MintType, CountsAreNat DEF Mint
<1>8. ASSUME NEW u \in Accounts, NEW c \in Classes, NEW q \in Quantities,
             NEW d \in DataHashes \cup {None}, Buy(u, c, q, d)
      PROVE  TypeOK'
  <2>1. q \in Nat
    BY CountsAreNat
  <2>2. Publishing' \in [Classes -> PublishingData \cup {None}]
    <3>1. CASE Publishing[c].units_left = None
      BY <1>8, <3>1 DEF Buy, TypeOK
    <3>2. CASE Publishing[c].units_left # None
      <4>1. PICK s \in PublishingData : Publishing[c] = s
        BY <1>8 DEF Buy, OnSale, TypeOK
      <4>2. s.units_left \in Nat /\ s.units_left - q \in Nat
        BY <1>8, <2>1, <3>2, <4>1 DEF Buy, InStock, PublishingData
      <4>3. [s EXCEPT !.units_left = @ - q] \in PublishingData
        BY <4>2 DEF PublishingData
      <4>4. Publishing' = [Publishing EXCEPT
                             ![c] = [s EXCEPT !.units_left = @ - q]]
        BY <1>8, <3>2, <4>1 DEF Buy, TypeOK
      <4> QED
        BY <4>3, <4>4 DEF TypeOK
    <3> QED
      BY <3>1, <3>2
  <2> QED
    BY <1>8, <2>1, <2>2, MintType DEF Buy
<1>9. ASSUME NEW u \in Accounts, NEW to \in Accounts, NEW i \in Instances,
             NEW perms \in PermissionSets \cup {None},
             NEW expiration \in Blocks \cup {None},
             Give(u, i, to, perms, expiration)
      PROVE  TypeOK'
  <2> DEFINE given == IF perms # None THEN perms
                      ELSE Fragments[i].permissions
  <2>1. PICK f \in FragmentInstance : Fragments[i] = f
    BY <1>9 DEF Give, Givable, TypeOK
  <2>2. given \in SUBSET Perms
    BY <2>1, PermsAreFlags DEF FragmentInstance
  <2>3. CASE GiveCopy(i, to, given, expiration)
    <3> DEFINE j == NextCopy(i)
    <3>1. /\ CopiesCount[<<Class(i), Edition(i)>>] \in Nat
          /\ Copy(j) = CopiesCount[<<Class(i), Edition(i)>>] + 1
      BY InstanceParts DEF TypeOK, NextCopy, Copy, EditionIds
    <3>2. Copy(j) \in 1 .. MaxCopy /\ j \in Instances
      BY <2>3, <3>1, InstanceParts, CountsAreNat DEF GiveCopy, NextCopy
    <3>3. CopyExpiry(i, expiration) \in Nat \cup {None}
      BY <2>1, CountsAreNat DEF CopyExpiry, FragmentInstance, Blocks
    <3>4. [permissions |-> given, custom_data |-> Fragments[i].custom_data,
           expiring_at |-> CopyExpiry(i, expiration)] \in FragmentInstance
      BY <2>1, <2>2, <3>3 DEF FragmentInstance
    <3>5. Fragments' \in [Instances -> FragmentInstance \cup {None}]
      BY <2>3, <3>4 DEF GiveCopy, TypeOK
    <3>6. CopiesCount' \in [EditionIds -> 0 .. MaxCopy]
      <4>1. Copy(j) \in 0 .. MaxCopy
        BY <3>2, CountsAreNat
      <4>2. CopiesCount \in [EditionIds -> 0 .. MaxCopy]
        BY DEF TypeOK, EditionIds
      <4>3. CopiesCount' =
              [CopiesCount EXCEPT ![<<Class(i), Edition(i)>>] = Copy(j)]
        BY <2>3 DEF GiveCopy
      <4> QED
        BY <4>1, <4>2, <4>3
    <3>7. Owners' \in [Listings -> Nat] /\ Inventory' \in [Listings -> Nat]
      BY <2>3, <3>2 DEF GiveCopy, TypeOK, Listings
    <3>8. Expirations' \in [Blocks -> SUBSET Instances]
      BY <2>3, <3>2 DEF GiveCopy, Scheduled, TypeOK
    <3> QED
      BY <1>9, <3>5, <3>6, <3>7, <3>8 DEF Give, TypeOK, EditionIds, Listings
  <2>4. CASE GiveItself(u, i, to, given)
    <3>1. [f EXCEPT !.permissions = given] \in FragmentInstance
      BY <2>2 DEF FragmentInstance
    <3>2. Fragments' = [Fragments EXCEPT
                          ![i] = [f EXCEPT !.permissions = given]]
      BY <2>1, <2>4 DEF GiveItself, TypeOK
    <3>3. Owners' \in [Listings -> Nat] /\ Inventory' \in [Listings -> Nat]
      BY <2>4, HandedType DEF GiveItself, TypeOK, Listings
    <3>4. Fragments' \in [Instances -> FragmentInstance \cup {None}]
      BY <3>1, <3>2 DEF TypeOK
    <3>5. UNCHANGED <<ProtoOwner, DetachedHashes, Funded, Definitions,
                      Publishing, EditionsCount, CopiesCount,
                      UniqueData2Edition, Expirations, now>>
      BY <1>9, <2>4 DEF Give, GiveItself
    <3> QED
      BY <3>3, <3>4, <3>5 DEF TypeOK, Listings
  <2> QED
    BY <1>9, <2>3, <2>4 DEF Give
<1>10. ASSUME OnFinalize PROVE TypeOK'
  <2>1. Fragments' \in [Instances -> FragmentInstance \cup {None}]
    BY <1>10 DEF OnFinalize, TypeOK
  <2>2. Owners' \in [Listings -> Nat] /\ Inventory' \in [Listings -> Nat]
    BY <1>10, RemovedType DEF OnFinalize, TypeOK, Listings
  <2>3. Expirations' \in [Blocks -> SUBSET Instances] /\ now' \in Blocks
    BY <1>10, CountsAreNat DEF OnFinalize, TypeOK, Blocks
  <2> QED
    BY <1>10, <2>1, <2>2, <2>3 DEF OnFinalize, TypeOK, Listings
<1>11. CASE UNCHANGED vars
  BY <1>11 DEF vars, TypeOK
<1> QED
  BY <1>1, <1>3, <1>4, <1>5, <1>6, <1>7, <1>8, <1>9, <1>10, <1>11
  DEF Next, Environment, Market, Gifts

(* Storage holds values of its types, within the bounds.                   *)
THEOREM TypeCorrect == Spec => []TypeOK
<1>1. TypeOK /\ [Next]_vars => TypeOK'
  BY StepType
<1> QED
  BY InitType, <1>1, PTL DEF Spec

-----------------------------------------------------------------------------
(* What a step does to instances: nothing, or it mints, gives or expires.  *)
LEMMA StepCases ==
    ASSUME [Next]_vars
    PROVE  \/ UNCHANGED <<EditionsCount, CopiesCount, Fragments,
                         UniqueData2Edition, Owners, Inventory,
                         Expirations, now>>
           \/ \E u \in Accounts, c \in Classes, q \in Nat,
                 d \in DataHashes \cup {None} :
                   Definitions[c] # None /\ MintFragments(u, c, q, d)
           \/ \E u, to \in Accounts, i \in Instances,
                 perms \in PermissionSets \cup {None},
                 expiration \in Blocks \cup {None} :
                   Give(u, i, to, perms, expiration)
           \/ OnFinalize
<1> USE DEF protoVars, classVars, listVars, instanceVars
<1> DEFINE Still == UNCHANGED <<EditionsCount, CopiesCount, Fragments,
                                UniqueData2Edition, Owners, Inventory,
                                Expirations, now>>
<1>1. Environment => Still
  BY DEF Environment, RegistryStep, FundVault
<1>2. ASSUME Market
      PROVE  \/ Still
             \/ \E u \in Accounts, c \in Classes, q \in Nat,
                   d \in DataHashes \cup {None} :
                     Definitions[c] # None /\ MintFragments(u, c, q, d)
  <2>1. \A u, c, perms, unique, max :
          Create(u, c, perms, unique, max) => Still
    BY DEF Create
  <2>2. \A u, c, quantity, expires :
          Publish(u, c, quantity, expires) => Still
    BY DEF Publish
  <2>3. \A u, c : Unpublish(u, c) => Still
    BY DEF Unpublish
  <2>4. \A u, c, q, d : Mint(u, c, q, d) \/ Buy(u, c, q, d)
          => Definitions[c] # None /\ MintFragments(u, c, q, d)
    BY DEF Mint, Buy
  <2> QED
    BY <1>2, <2>1, <2>2, <2>3, <2>4, CountsAreNat DEF Market
<1>3. UNCHANGED vars => Still
  BY DEF vars
<1> QED
  BY <1>1, <1>2, <1>3 DEF Next, Gifts

(* What minting does, instance by instance. *)
LEMMA MintFacts ==
    ASSUME TypeOK, NEW u \in Accounts, NEW c \in Classes, NEW q \in Nat,
           NEW d \in DataHashes \cup {None}, Definitions[c] # None,
           MintFragments(u, c, q, d)
    PROVE  /\ \A i \in NewEditions(c, q) :
                /\ i \in Instances
                /\ Class(i) = c /\ Copy(i) = 1
                /\ Edition(i) > EditionsCount[c]
                /\ Edition(i) <= EditionsCount'[c]
                /\ Fragments'[i] # None
                /\ Fragments'[i].custom_data = d
                /\ Fragments'[i].expiring_at = None
           /\ \A i \in Instances \ NewEditions(c, q) :
                Fragments'[i] = Fragments[i]
           /\ \A b \in Classes, e \in 1 .. MaxEdition :
                CopiesCount'[<<b, e>>] =
                  IF b = c /\ e > EditionsCount[c] /\ e <= EditionsCount'[c]
                  THEN 1 ELSE CopiesCount[<<b, e>>]
           /\ EditionsCount'[c] = EditionsCount[c] + q
           /\ \A b \in Classes \ {c} : EditionsCount'[b] = EditionsCount[b]
           /\ EditionsCount[c] \in Nat
<1> DEFINE new == NewEditions(c, q)
           fresh == [permissions |-> Definitions[c].permissions,
                     custom_data |-> d, expiring_at |-> None]
<1>1. /\ EditionsCount[c] \in Nat
      /\ EditionsCount'[c] = EditionsCount[c] + q
      /\ \A b \in Classes \ {c} : EditionsCount'[b] = EditionsCount[b]
  BY DEF TypeOK, MintFragments
<1>2. \A i \in new : /\ i \in Instances
                     /\ Class(i) = c /\ Copy(i) = 1
                     /\ Edition(i) > EditionsCount[c]
                     /\ Edition(i) <= EditionsCount'[c]
  BY <1>1 DEF NewEditions
<1>3. fresh # None
  <2>1. fresh \in FragmentInstance
    BY DEF TypeOK, FragmentDefinition, FragmentInstance
  <2> QED
    BY <2>1, NoneIsNoRecord
<1>4. \A i \in new : Fragments'[i] = fresh
  BY <1>2 DEF MintFragments
<1>5. \A i \in Instances \ new : Fragments'[i] = Fragments[i]
  BY DEF MintFragments
<1>6. ASSUME NEW b \in Classes, NEW e \in 1 .. MaxEdition
      PROVE  CopiesCount'[<<b, e>>] =
               IF b = c /\ e > EditionsCount[c] /\ e <= EditionsCount'[c]
               THEN 1 ELSE CopiesCount[<<b, e>>]
  <2>1. 1 \in 1 .. MaxCopy
    BY CountsAreNat
  <2>2. <<b, e, 1>> \in new <=>
          (b = c /\ e > EditionsCount[c] /\ e <= EditionsCount'[c])
    BY <1>1, <2>1, InstanceParts DEF NewEditions
  <2>3. CopiesCount'[<<b, e>>] =
          IF <<b, e, 1>> \in new THEN 1 ELSE CopiesCount[<<b, e>>]
    BY DEF MintFragments
  <2> QED
    BY <2>2, <2>3
<1> HIDE DEF new
<1>7. \A i \in new : /\ Fragments'[i] # None
                     /\ Fragments'[i].custom_data = d
                     /\ Fragments'[i].expiring_at = None
  BY <1>3, <1>4
<1> QED
  BY <1>1, <1>2, <1>5, <1>6, <1>7 DEF new

(* The copy that giving away a copy makes. *)
LEMMA CopyFacts ==
    ASSUME TypeOK, NEW i \in Instances, NEW to \in Accounts,
           NEW given \in SUBSET Perms, NEW expiration \in Blocks \cup {None},
           Fragments[i] # None, GiveCopy(i, to, given, expiration)
    PROVE  /\ NextCopy(i) \in Instances
           /\ Class(NextCopy(i)) = Class(i)
           /\ Edition(NextCopy(i)) = Edition(i)
           /\ Copy(NextCopy(i)) = CopiesCount[<<Class(i), Edition(i)>>] + 1
           /\ CopiesCount[<<Class(i), Edition(i)>>] \in Nat
           /\ CopyExpiry(i, expiration) \in Nat \cup {None}
           /\ Fragments'[NextCopy(i)] # None
           /\ Fragments'[NextCopy(i)] =
                [permissions |-> given,
                 custom_data |-> Fragments[i].custom_data,
                 expiring_at |-> CopyExpiry(i, expiration)]
           /\ \A k \in Instances \ {NextCopy(i)} :
                Fragments'[k] = Fragments[k]
           /\ \A b \in Classes, e \in 1 .. MaxEdition :
                CopiesCount'[<<b, e>>] =
                  IF b = Class(i) /\ e = Edition(i)
                  THEN CopiesCount[<<b, e>>] + 1 ELSE CopiesCount[<<b, e>>]
<1> DEFINE j == NextCopy(i)
           kept == CopiesCount[<<Class(i), Edition(i)>>]
           copy == [permissions |-> given,
                    custom_data |-> Fragments[i].custom_data,
                    expiring_at |-> CopyExpiry(i, expiration)]
<1>1. kept \in Nat
  BY InstanceParts DEF TypeOK, EditionIds
<1>2. /\ Class(j) = Class(i) /\ Edition(j) = Edition(i)
      /\ Copy(j) = kept + 1
  BY DEF NextCopy, Class, Edition, Copy
<1>3. j \in Instances
  <2>1. kept + 1 \in 1 .. MaxCopy
    BY <1>1, <1>2, CountsAreNat DEF GiveCopy
  <2> QED
    BY <2>1, InstanceParts DEF NextCopy
<1>4. CopyExpiry(i, expiration) \in Nat \cup {None}
  <2>1. Fragments[i] \in FragmentInstance
    BY DEF TypeOK
  <2> QED
    BY <2>1, CountsAreNat DEF CopyExpiry, FragmentInstance, Blocks
<1>5. copy # None
  <2>1. Fragments[i] \in FragmentInstance
    BY DEF TypeOK
  <2>2. copy \in FragmentInstance
    BY <2>1, <1>4 DEF FragmentInstance
  <2> QED
    BY <2>2, NoneIsNoRecord
<1>6. Fragments' = [Fragments EXCEPT ![j] = copy]
  BY DEF GiveCopy
<1>7. Fragments'[j] = copy
  BY <1>3, <1>6 DEF TypeOK
<1>8. \A k \in Instances \ {j} : Fragments'[k] = Fragments[k]
  BY <1>6 DEF TypeOK
<1>9. ASSUME NEW b \in Classes, NEW e \in 1 .. MaxEdition
      PROVE  CopiesCount'[<<b, e>>] =
               IF b = Class(i) /\ e = Edition(i)
               THEN CopiesCount[<<b, e>>] + 1 ELSE CopiesCount[<<b, e>>]
  <2>1. CopiesCount \in [EditionIds -> 0 .. MaxCopy]
    BY DEF TypeOK, EditionIds
  <2>2. CopiesCount' = [CopiesCount EXCEPT
                          ![<<Class(i), Edition(i)>>] = kept + 1]
    BY <1>2 DEF GiveCopy
  <2>3. <<b, e>> \in EditionIds
    BY DEF EditionIds
  <2>4. <<b, e>> = <<Class(i), Edition(i)>> <=>
          (b = Class(i) /\ e = Edition(i))
    OBVIOUS
  <2> HIDE DEF j
  <2> QED
    BY <2>1, <2>2, <2>3, <2>4
<1> QED
  BY <1>1, <1>2, <1>3, <1>4, <1>5, <1>7, <1>8, <1>9

(* Giving an instance itself away only narrows its permissions. *)
LEMMA SelfFacts ==
    ASSUME TypeOK, NEW u \in Accounts, NEW i \in Instances,
           NEW to \in Accounts, NEW given \in SUBSET Perms,
           Fragments[i] # None, GiveItself(u, i, to, given)
    PROVE  /\ \A k \in Instances : (Fragments'[k] = None
                                      <=> Fragments[k] = None)
           /\ \A k \in Instances \ {i} : Fragments'[k] = Fragments[k]
           /\ Fragments'[i].permissions = given
           /\ Fragments'[i].custom_data = Fragments[i].custom_data
           /\ Fragments'[i].expiring_at = Fragments[i].expiring_at
           /\ UNCHANGED <<CopiesCount, Expirations>>
<1>1. PICK f \in FragmentInstance : f = Fragments[i]
  BY DEF TypeOK
<1>2. PICK g : g = [f EXCEPT !.permissions = given]
  OBVIOUS
<1>3. /\ g \in FragmentInstance
      /\ g.permissions = given
      /\ g.custom_data = f.custom_data
      /\ g.expiring_at = f.expiring_at
  BY <1>2 DEF FragmentInstance
<1>4. Fragments' = [Fragments EXCEPT ![i] = g]
  BY <1>1, <1>2 DEF GiveItself, TypeOK
<1>5. /\ Fragments'[i] = g
      /\ \A k \in Instances \ {i} : Fragments'[k] = Fragments[k]
  BY <1>4 DEF TypeOK
<1>6. g # None
  BY <1>3, NoneIsNoRecord
<1> QED
  BY <1>1, <1>3, <1>5, <1>6 DEF GiveItself

(* A step of giving is one of the two, with permissions that the giver's   *)
(* instance grants.                                                        *)
LEMMA GiveCases ==
    ASSUME TypeOK, NEW u \in Accounts, NEW i \in Instances,
           NEW to \in Accounts, NEW perms \in PermissionSets \cup {None},
           NEW expiration \in Blocks \cup {None},
           Give(u, i, to, perms, expiration)
    PROVE  /\ Givable(u, i)
           /\ expiration # None => now < expiration
           /\ UNCHANGED <<EditionsCount, UniqueData2Edition, now>>
           /\ \E given \in SUBSET Perms :
                /\ given \subseteq Fragments[i].permissions
                /\ \/ /\ "COPY" \in Fragments[i].permissions
                      /\ GiveCopy(i, to, given, expiration)
                   \/ /\ "COPY" \notin Fragments[i].permissions
                      /\ GiveItself(u, i, to, given)
<1> DEFINE given == IF perms # None THEN perms ELSE Fragments[i].permissions
<1>1. Givable(u, i) /\ Fragments[i] \in FragmentInstance
  BY DEF Give, Givable, TypeOK
<1>2. given \in SUBSET Perms /\ given \subseteq Fragments[i].permissions
  BY <1>1, PermsAreFlags DEF Give, Grantable, FragmentInstance
<1>3. \/ /\ "COPY" \in Fragments[i].permissions
         /\ GiveCopy(i, to, given, expiration)
      \/ /\ "COPY" \notin Fragments[i].permissions
         /\ GiveItself(u, i, to, given)
  BY DEF Give
<1> QED
  BY <1>1, <1>2, <1>3 DEF Give

-----------------------------------------------------------------------------
(* The two maps are written together.                                      *)
LEMMA InventoryStep ==
    ASSUME InventoryIsOwners, [Next]_vars
    PROVE  InventoryIsOwners'
<1>1. CASE UNCHANGED listVars
  BY <1>1 DEF InventoryIsOwners, listVars
<1>2. ASSUME NEW u, NEW c, NEW q, NEW d, MintFragments(u, c, q, d)
      PROVE  InventoryIsOwners'
  BY <1>2 DEF MintFragments, InventoryIsOwners
<1>3. ASSUME NEW u, NEW i, NEW to, NEW perms, NEW expiration,
             Give(u, i, to, perms, expiration)
      PROVE  InventoryIsOwners'
  BY <1>3 DEF Give, GiveCopy, GiveItself, InventoryIsOwners
<1>4. ASSUME OnFinalize PROVE InventoryIsOwners'
  BY <1>4 DEF OnFinalize, InventoryIsOwners
<1> QED
  BY <1>1, <1>2, <1>3, <1>4, StepCases DEF listVars

(***************************************************************************)
(* Inventory and Owners never differ: mint_fragments, give and on_finalize *)
(* write both alike.                                                       *)
(***************************************************************************)
THEOREM InventoryAgrees == Spec => []InventoryIsOwners
<1>1. Init => InventoryIsOwners
  BY DEF Init, InventoryIsOwners
<1>2. InventoryIsOwners /\ [Next]_vars => InventoryIsOwners'
  BY InventoryStep
<1> QED
  BY <1>1, <1>2, PTL DEF Spec

-----------------------------------------------------------------------------
(* Minting makes editions that no instance had.                            *)
LEMMA NewDidNotExist ==
    ASSUME TypeOK, NumberedWithinCounts, NEW c \in Classes, NEW q \in Nat,
           NEW i \in NewEditions(c, q)
    PROVE  i \in Instances /\ Fragments[i] = None
<1>1. /\ i \in Instances /\ Class(i) = c
      /\ Edition(i) > EditionsCount[c]
  BY DEF NewEditions
<1>2. EditionsCount[c] \in Nat
  BY DEF TypeOK
<1>3. Edition(i) \in Nat
  BY <1>1, InstanceNumbers
<1>4. SUFFICES ASSUME Fragments[i] # None PROVE FALSE
  BY <1>1
<1>5. Edition(i) <= EditionsCount[c]
  BY <1>1, <1>4 DEF NumberedWithinCounts
<1> QED
  BY <1>1, <1>2, <1>3, <1>5

(* A copy is one that did not exist. *)
LEMMA CopyDidNotExist ==
    ASSUME TypeOK, NumberedWithinCounts, NEW i \in Instances,
           NextCopy(i) \in Instances
    PROVE  Fragments[NextCopy(i)] = None
<1> DEFINE j == NextCopy(i)
           kept == CopiesCount[<<Class(i), Edition(i)>>]
<1>1. kept \in Nat
  BY InstanceParts DEF TypeOK, EditionIds
<1>2. /\ Class(j) = Class(i) /\ Edition(j) = Edition(i)
      /\ Copy(j) = kept + 1
  BY DEF NextCopy, Class, Edition, Copy
<1>3. SUFFICES ASSUME Fragments[j] # None PROVE FALSE
  OBVIOUS
<1>4. Copy(j) <= CopiesCount[<<Class(j), Edition(j)>>]
  BY <1>3 DEF NumberedWithinCounts
<1> HIDE DEF j
<1> QED
  BY <1>1, <1>2, <1>4

LEMMA NumberedStep ==
    ASSUME TypeOK, NumberedWithinCounts, [Next]_vars
    PROVE  NumberedWithinCounts'
<1> USE DEF NumberedWithinCounts
<1>1. CASE UNCHANGED <<EditionsCount, CopiesCount, Fragments>>
  BY <1>1
<1>2. ASSUME NEW u \in Accounts, NEW c \in Classes, NEW q \in Nat,
             NEW d \in DataHashes \cup {None}, Definitions[c] # None,
             MintFragments(u, c, q, d)
      PROVE  NumberedWithinCounts'
  <2> DEFINE new == NewEditions(c, q)
  <2>1. /\ \A i \in new : /\ i \in Instances
                          /\ Class(i) = c /\ Copy(i) = 1
                          /\ Edition(i) > EditionsCount[c]
                          /\ Edition(i) <= EditionsCount'[c]
        /\ \A i \in Instances \ new : Fragments'[i] = Fragments[i]
        /\ \A b \in Classes, e \in 1 .. MaxEdition :
             CopiesCount'[<<b, e>>] =
               IF b = c /\ e > EditionsCount[c] /\ e <= EditionsCount'[c]
               THEN 1 ELSE CopiesCount[<<b, e>>]
        /\ EditionsCount'[c] = EditionsCount[c] + q
        /\ \A b \in Classes \ {c} : EditionsCount'[b] = EditionsCount[b]
        /\ EditionsCount[c] \in Nat
    BY <1>2, MintFacts
  <2> HIDE DEF new
  <2>2. ASSUME NEW i \in Instances, Fragments'[i] # None
        PROVE  /\ Edition(i) <= EditionsCount'[Class(i)]
               /\ Copy(i) <= CopiesCount'[<<Class(i), Edition(i)>>]
    <3>1. /\ Class(i) \in Classes /\ Edition(i) \in 1 .. MaxEdition
          /\ Copy(i) \in Nat
      BY InstanceParts, InstanceNumbers
    <3>2. CASE i \in new
      <4>1. /\ Class(i) = c /\ Copy(i) = 1
            /\ Edition(i) > EditionsCount[c]
            /\ Edition(i) <= EditionsCount'[c]
        BY <2>1, <3>2
      <4>2. CopiesCount'[<<c, Edition(i)>>] = 1
        BY <2>1, <3>1, <4>1
      <4> QED
        BY <4>1, <4>2
    <3>3. CASE i \notin new
      <4>1. /\ Fragments[i] # None
            /\ Edition(i) <= EditionsCount[Class(i)]
            /\ Copy(i) <= CopiesCount[<<Class(i), Edition(i)>>]
        BY <2>1, <2>2, <3>3
      <4>2. CASE Class(i) = c
        BY <2>1, <3>1, <4>1, <4>2
      <4>3. CASE Class(i) # c
        BY <2>1, <3>1, <4>1, <4>3
      <4> QED
        BY <4>2, <4>3
    <3> QED
      BY <3>2, <3>3
  <2>3. ASSUME NEW b \in Classes, NEW e \in 1 .. MaxEdition
        PROVE  CopiesCount'[<<b, e>>] > 0 <=> e <= EditionsCount'[b]
    <3>1. CopiesCount[<<b, e>>] > 0 <=> e <= EditionsCount[b]
      OBVIOUS
    <3>2. CASE b = c
      BY <2>1, <3>1, <3>2
    <3>3. CASE b # c
      BY <2>1, <3>1, <3>3
    <3> QED
      BY <3>2, <3>3
  <2> QED
    BY <2>2, <2>3
<1>3. ASSUME NEW u \in Accounts, NEW to \in Accounts, NEW i \in Instances,
             NEW perms \in PermissionSets \cup {None},
             NEW expiration \in Blocks \cup {None},
             Give(u, i, to, perms, expiration)
      PROVE  NumberedWithinCounts'
  <2>1. /\ Givable(u, i) /\ EditionsCount' = EditionsCount
        /\ Fragments[i] # None
    BY <1>3, GiveCases DEF Givable
  <2>2. PICK given \in SUBSET Perms :
            GiveCopy(i, to, given, expiration) \/ GiveItself(u, i, to, given)
    BY <1>3, GiveCases
  <2>3. CASE GiveItself(u, i, to, given)
    <3>1. \A k \in Instances : Fragments'[k] = None <=> Fragments[k] = None
      BY <2>1, <2>3, SelfFacts
    <3>2. CopiesCount' = CopiesCount
      BY <2>1, <2>3, SelfFacts
    <3> QED
      BY <2>1, <3>1, <3>2
  <2>4. CASE GiveCopy(i, to, given, expiration)
    <3> DEFINE j == NextCopy(i)
    <3>1. /\ j \in Instances
          /\ Class(j) = Class(i) /\ Edition(j) = Edition(i)
          /\ Copy(j) = CopiesCount[<<Class(i), Edition(i)>>] + 1
          /\ \A k \in Instances \ {j} : Fragments'[k] = Fragments[k]
          /\ \A b \in Classes, e \in 1 .. MaxEdition :
               CopiesCount'[<<b, e>>] =
                 IF b = Class(i) /\ e = Edition(i)
                 THEN CopiesCount[<<b, e>>] + 1 ELSE CopiesCount[<<b, e>>]
          /\ CopiesCount[<<Class(i), Edition(i)>>] \in Nat
      BY <2>1, <2>4, CopyFacts
    <3> HIDE DEF j
    <3>2. /\ Class(i) \in Classes /\ Edition(i) \in 1 .. MaxEdition
          /\ Edition(i) <= EditionsCount[Class(i)]
          /\ CopiesCount[<<Class(i), Edition(i)>>] > 0
      BY <2>1, InstanceParts
    <3>3. ASSUME NEW k \in Instances, Fragments'[k] # None
          PROVE  /\ Edition(k) <= EditionsCount'[Class(k)]
                 /\ Copy(k) <= CopiesCount'[<<Class(k), Edition(k)>>]
      <4>1. /\ Class(k) \in Classes /\ Edition(k) \in 1 .. MaxEdition
            /\ Copy(k) \in Nat
        BY InstanceParts, InstanceNumbers
      <4>2. CASE k = j
        <5>1. CopiesCount'[<<Class(i), Edition(i)>>] =
                CopiesCount[<<Class(i), Edition(i)>>] + 1
          BY <3>1, <3>2
        <5> QED
          BY <2>1, <3>1, <3>2, <4>2, <5>1
      <4>3. CASE k # j
        <5>1. /\ Fragments[k] # None
              /\ Edition(k) <= EditionsCount[Class(k)]
              /\ Copy(k) <= CopiesCount[<<Class(k), Edition(k)>>]
          BY <3>1, <3>3, <4>3
        <5>2. CopiesCount'[<<Class(k), Edition(k)>>] =
                IF Class(k) = Class(i) /\ Edition(k) = Edition(i)
                THEN CopiesCount[<<Class(k), Edition(k)>>] + 1
                ELSE CopiesCount[<<Class(k), Edition(k)>>]
          BY <3>1, <4>1
        <5>3. CopiesCount[<<Class(k), Edition(k)>>] \in Nat
          BY InstanceParts DEF TypeOK, EditionIds
        <5> QED
          BY <2>1, <4>1, <5>1, <5>2, <5>3
      <4> QED
        BY <4>2, <4>3
    <3>4. ASSUME NEW b \in Classes, NEW e \in 1 .. MaxEdition
          PROVE  CopiesCount'[<<b, e>>] > 0 <=> e <= EditionsCount'[b]
      BY <2>1, <3>1, <3>2
    <3> QED
      BY <3>3, <3>4
  <2> QED
    BY <2>2, <2>3, <2>4
<1>4. ASSUME OnFinalize PROVE NumberedWithinCounts'
  <2>1. \A i \in Instances : Fragments'[i] # None => Fragments[i] # None
    BY <1>4 DEF OnFinalize
  <2> QED
    BY <1>4, <2>1 DEF OnFinalize
<1> QED
  BY <1>1, <1>2, <1>3, <1>4, StepCases

(* What the theorems below rest on. *)
Numbered == TypeOK /\ NumberedWithinCounts

LEMMA NumberedAlways == Spec => []Numbered
<1>1. Init => Numbered
  <2>1. Init => NumberedWithinCounts
    BY CountsAreNat DEF Init, NumberedWithinCounts
  <2> QED
    BY <2>1, InitType DEF Numbered
<1>2. Numbered /\ [Next]_vars => Numbered'
  BY StepType, NumberedStep DEF Numbered
<1> QED
  BY <1>1, <1>2, PTL DEF Spec

(***************************************************************************)
(* Instances keep within the counts of editions and copies, and the counts *)
(* have no gaps: minting and copying write both counts as they number.     *)
(***************************************************************************)
THEOREM CountsAgree == Spec => []NumberedWithinCounts
BY NumberedAlways, PTL DEF Numbered

=============================================================================
