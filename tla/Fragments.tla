----------------------------- MODULE Fragments -----------------------------
(***************************************************************************)
(* The fragments pallet (pallets/fragments): definitions made from protos, *)
(* their sale, and the instances that are minted, bought, copied, given    *)
(* away and expired.                                                       *)
(*                                                                         *)
(* Owners and Inventory are double maps to lists of (edition, copy) whose  *)
(* order plays no part: each is modelled by the number of times an         *)
(* instance stands in the list of an account.  Balances are those of other *)
(* pallets: a call whose payment fails is a call that is not made.         *)
(***************************************************************************)
EXTENDS Naturals, FiniteSets

CONSTANTS
    Accounts,
    Hashes,          \* protos
    Classes,         \* hashes of fragment definitions
    ProtoOf,         \* the proto that a definition's hash is made from
    PermissionSets,  \* the FragmentPerms that calls carry
    DataHashes,      \* hashes of unique data
    Quantities,      \* quantities that calls carry
    MaxEdition,      \* bound on the editions of a definition
    MaxCopy,         \* bound on the copies of an edition
    MaxBlock,        \* where the clock of the model stops
    None

Blocks == 0 .. MaxBlock
Perms == {"EDIT", "TRANSFER", "COPY"}

(* class, edition, copy *)
Instances == Classes \X (1 .. MaxEdition) \X (1 .. MaxCopy)

Class(i)   == i[1]
Edition(i) == i[2]
Copy(i)    == i[3]

ASSUME ProtoOfClass   == ProtoOf \in [Classes -> Hashes]
ASSUME PermsAreFlags  == PermissionSets \subseteq SUBSET Perms
ASSUME CountsAreNat   == /\ Quantities \subseteq Nat
                         /\ MaxEdition \in Nat
                         /\ MaxCopy \in Nat \ {0}
                         /\ MaxBlock \in Nat
ASSUME NoneIsAbsent   == /\ None \notin Accounts
                         /\ None \notin Nat
                         /\ None \notin DataHashes
                         /\ None \notin PermissionSets

VARIABLES
    ProtoOwner,          \* of the protos pallet: hash -> owner, or None
    DetachedHashes,      \* of the detach pallet
    Funded,              \* vaults that hold the existential deposit
    Definitions,         \* class -> definition
    Publishing,          \* class -> its sale
    EditionsCount,       \* class -> editions so far
    CopiesCount,         \* (class, edition) -> copies so far, 0 for none
    Fragments,           \* instance -> its data
    UniqueData2Edition,  \* (class, data) -> edition
    Owners, Inventory,   \* (account, instance) -> times it is listed
    Expirations,         \* block -> instances that expire at it
    now

FragmentDefinition ==
    [permissions: SUBSET Perms, unique: BOOLEAN,
     max_supply: Nat \cup {None}]
PublishingData ==
    [units_left: Nat \cup {None}, expiration: Nat \cup {None}]
FragmentInstance ==
    [permissions: SUBSET Perms, custom_data: DataHashes \cup {None},
     expiring_at: Nat \cup {None}]

ASSUME NoneIsNoRecord == /\ None \notin FragmentDefinition
                         /\ None \notin PublishingData
                         /\ None \notin FragmentInstance

protoVars    == <<ProtoOwner, DetachedHashes>>
classVars    == <<Funded, Definitions>>
listVars     == <<Owners, Inventory>>
instanceVars == <<CopiesCount, Fragments, Expirations>>
vars == <<ProtoOwner, DetachedHashes, Funded, Definitions, Publishing,
          EditionsCount, CopiesCount, Fragments, UniqueData2Edition,
          Owners, Inventory, Expirations, now>>

(* The protos and detach pallets, by what they promise. *)
Protos == INSTANCE Registry WITH owner <- ProtoOwner, detached <- DetachedHashes

Init ==
    /\ Protos!RegistryInit
    /\ Funded = {}
    /\ Definitions = [c \in Classes |-> None]
    /\ Publishing = [c \in Classes |-> None]
    /\ EditionsCount = [c \in Classes |-> 0]
    /\ CopiesCount = [e \in Classes \X (1 .. MaxEdition) |-> 0]
    /\ Fragments = [i \in Instances |-> None]
    /\ UniqueData2Edition = [d \in Classes \X DataHashes |-> None]
    /\ Owners = [l \in Accounts \X Instances |-> 0]
    /\ Inventory = [l \in Accounts \X Instances |-> 0]
    /\ Expirations = [b \in Blocks |-> {}]
    /\ now = 0

-----------------------------------------------------------------------------
(* The other pallets.                                                      *)

(* Uploads, transfers and detachments, as far as they are seen from here. *)
RegistryStep ==
    /\ Protos!RegistryNext
    /\ UNCHANGED <<classVars, Publishing, EditionsCount, instanceVars,
                   UniqueData2Edition, listVars, now>>

(* A transfer of the existential deposit to the account of a vault. *)
FundVault(c) ==
    /\ Funded' = Funded \cup {c}
    /\ UNCHANGED <<protoVars, Definitions, Publishing, EditionsCount,
                   instanceVars, UniqueData2Edition, listVars, now>>

-----------------------------------------------------------------------------
(* Definitions and their sale.                                             *)

\* Mutated form: a detached proto still has its owner's rights.
MayManageDetached(u, c) == ProtoOwner[ProtoOf[c]] = u

(* The caller owns the proto of the class, which was not detached. *)
MayManage(u, c) ==
    /\ ProtoOwner[ProtoOf[c]] = u
    /\ ProtoOf[c] \notin DetachedHashes

(* The deposit is reserved in the vault, so it has to be there before. *)
Create(u, c, perms, unique, max) ==
    /\ MayManage(u, c)
    /\ Definitions[c] = None
    /\ c \in Funded
    /\ Definitions' = [Definitions EXCEPT ![c] =
         [permissions |-> perms, unique |-> unique, max_supply |-> max]]
    /\ UNCHANGED <<protoVars, Funded, Publishing, EditionsCount,
                   instanceVars, UniqueData2Edition, listVars, now>>

(* The editions that may still be made, of a class with a maximal supply. *)
Left(c) ==
    IF Definitions[c].max_supply > EditionsCount[c]
    THEN Definitions[c].max_supply - EditionsCount[c] ELSE 0

\* Mutated form: what was minted is not counted against a sale.
OfferableAnew(c, quantity) ==
    Definitions[c].max_supply # None =>
        /\ quantity # None
        /\ quantity <= Definitions[c].max_supply
        /\ Definitions[c].max_supply # 0

(* A scarce class is offered in a quantity that is left, if any is. *)
Offerable(c, quantity) ==
    Definitions[c].max_supply # None =>
        /\ quantity # None
        /\ quantity <= Left(c)
        /\ Left(c) # 0

Publish(u, c, quantity, expires) ==
    /\ Definitions[c] # None
    /\ MayManage(u, c)
    /\ Publishing[c] = None
    /\ Offerable(c, quantity)
    /\ Publishing' = [Publishing EXCEPT ![c] =
         [units_left |-> quantity, expiration |-> expires]]
    /\ UNCHANGED <<protoVars, classVars, EditionsCount, instanceVars,
                   UniqueData2Edition, listVars, now>>

Unpublish(u, c) ==
    /\ Definitions[c] # None
    /\ MayManage(u, c)
    /\ Publishing[c] # None
    /\ Publishing' = [Publishing EXCEPT ![c] = None]
    /\ UNCHANGED <<protoVars, classVars, EditionsCount, instanceVars,
                   UniqueData2Edition, listVars, now>>

-----------------------------------------------------------------------------
(***************************************************************************)
(* mint_fragments: q new editions of c for u, or one with unique data d.   *)
(* The supply is checked by its two callers, below.                        *)
(***************************************************************************)

\* Mutated form: unique data may be used again.
OptionsFitAnyData(c, q, d) == IF d = None THEN ~ Definitions[c].unique
                              ELSE Definitions[c].unique /\ q = 1

(* Unique data is for unique classes, one edition at a time and once. *)
OptionsFit(c, q, d) ==
    IF d = None THEN ~ Definitions[c].unique
    ELSE /\ Definitions[c].unique
         /\ q = 1
         /\ UniqueData2Edition[<<c, d>>] = None

\* Mutated form: numbering starts at the number of editions so far.
NewEditionsFromZero(c, q) ==
    {i \in Instances : /\ Class(i) = c
                       /\ Copy(i) = 1
                       /\ Edition(i) >= EditionsCount[c]
                       /\ Edition(i) < EditionsCount[c] + q}

(* The first copies of the next q editions. *)
NewEditions(c, q) ==
    {i \in Instances : /\ Class(i) = c
                       /\ Copy(i) = 1
                       /\ Edition(i) > EditionsCount[c]
                       /\ Edition(i) <= EditionsCount[c] + q}

(* The lists after each of `new' was appended to u's. *)
Listed(list, u, new) ==
    [l \in Accounts \X Instances |->
        IF l[1] = u /\ l[2] \in new THEN list[l] + 1 ELSE list[l]]

(* The unique data is filed under the number of editions there were        *)
(* before, which is one less than the edition that gets it.                *)
MintFragments(u, c, q, d) ==
    LET new == NewEditions(c, q)
    IN  /\ OptionsFit(c, q, d)
        /\ EditionsCount[c] + q <= MaxEdition
        /\ Fragments' = [i \in Instances |->
             IF i \in new
             THEN [permissions |-> Definitions[c].permissions,
                   custom_data |-> d, expiring_at |-> None]
             ELSE Fragments[i]]
        /\ CopiesCount' = [e \in Classes \X (1 .. MaxEdition) |->
             IF <<e[1], e[2], 1>> \in new THEN 1 ELSE CopiesCount[e]]
        /\ Inventory' = Listed(Inventory, u, new)
        /\ Owners' = Listed(Owners, u, new)
        /\ UniqueData2Edition' =
             [x \in Classes \X DataHashes |->
                IF x = <<c, d>> THEN EditionsCount[c]
                ELSE UniqueData2Edition[x]]
        /\ EditionsCount' = [EditionsCount EXCEPT ![c] = @ + q]
        /\ UNCHANGED <<protoVars, classVars, Expirations, now>>

(* The owner of the proto mints within the maximal supply. *)
Mint(u, c, q, d) ==
    /\ Definitions[c] # None
    /\ MayManage(u, c)
    /\ Definitions[c].max_supply # None => q <= Left(c)
    /\ MintFragments(u, c, q, d)
    /\ UNCHANGED Publishing

(* The sale is on: it has not expired and is not sold out. *)
OnSale(c) ==
    /\ Publishing[c] # None
    /\ Publishing[c].expiration # None => now < Publishing[c].expiration
    /\ Publishing[c].units_left # None => Publishing[c].units_left > 0

\* Mutated form: a sale that is not sold out sells any quantity.
InStockAnyQuantity(c, q) == TRUE

(* What was asked for is still there. *)
InStock(c, q) ==
    Publishing[c].units_left # None => q <= Publishing[c].units_left

(* Anyone buys within the units left of the sale, at its price. *)
Buy(u, c, q, d) ==
    /\ OnSale(c)
    /\ Definitions[c] # None
    /\ InStock(c, q)
    /\ IF Publishing[c].units_left = None
       THEN UNCHANGED Publishing
       ELSE Publishing' = [Publishing EXCEPT ![c].units_left = @ - q]
    /\ MintFragments(u, c, q, d)

-----------------------------------------------------------------------------
(* Giving an instance away.                                                *)

\* Mutated form: only the right to transfer is compared.
GrantableTransfer(held, perms) ==
    "TRANSFER" \in perms => "TRANSFER" \in held

(* Permissions may be withdrawn on the way, never added. *)
Grantable(held, perms) == perms \subseteq held

(* u holds i, which outlives this block and may be transferred. *)
Givable(u, i) ==
    /\ Fragments[i] # None
    /\ Fragments[i].expiring_at # None => now < Fragments[i].expiring_at
    /\ Inventory[<<u, i>>] > 0
    /\ "TRANSFER" \in Fragments[i].permissions

\* Mutated form: the copy lives as long as it is told to.
CopyExpiryAsTold(i, expiration) ==
    IF expiration = None THEN Fragments[i].expiring_at ELSE expiration

(* The copy expires no later than its original, at `expiration' at most. *)
CopyExpiry(i, expiration) ==
    LET own == Fragments[i].expiring_at
    IN  IF own = None THEN expiration
        ELSE IF expiration # None /\ expiration < own THEN expiration
        ELSE own

\* Mutated form: the copy is not put down for expiration.
ScheduledNot(i, expiration) == Expirations

Scheduled(i, expiration) ==
    IF expiration = None THEN Expirations
    ELSE [Expirations EXCEPT ![expiration] = @ \cup {i}]

(* The next copy of the edition of i. *)
NextCopy(i) ==
    <<Class(i), Edition(i), CopiesCount[<<Class(i), Edition(i)>>] + 1>>

GiveCopy(i, to, perms, expiration) ==
    LET j       == NextCopy(i)
        expires == CopyExpiry(i, expiration)
    IN  /\ Copy(j) <= MaxCopy
        /\ CopiesCount' =
             [CopiesCount EXCEPT ![<<Class(i), Edition(i)>>] = Copy(j)]
        /\ Owners' = [Owners EXCEPT ![<<to, j>>] = @ + 1]
        /\ Inventory' = [Inventory EXCEPT ![<<to, j>>] = @ + 1]
        /\ Expirations' = Scheduled(j, expires)
        /\ Fragments' = [Fragments EXCEPT ![j] =
             [permissions |-> perms,
              custom_data |-> Fragments[i].custom_data,
              expiring_at |-> expires]]

\* Mutated form: the list of the giver keeps the instance.
HandedWithoutRetain(list, i, u, to) == [list EXCEPT ![<<to, i>>] = @ + 1]

(* The lists after i went from u's to to's, which may be the same. *)
Handed(list, i, u, to) ==
    [[list EXCEPT ![<<u, i>>] = 0] EXCEPT ![<<to, i>>] = @ + 1]

\* Mutated form: the instance is taken from one of the two lists only.
GiveItselfHalf(u, i, to, perms) ==
    /\ Owners' = Handed(Owners, i, u, to)
    /\ Inventory' = [Inventory EXCEPT ![<<to, i>>] = @ + 1]
    /\ Fragments' = [Fragments EXCEPT ![i].permissions = perms]
    /\ UNCHANGED <<CopiesCount, Expirations>>

(* The expiration that was asked for plays no part. *)
GiveItself(u, i, to, perms) ==
    /\ Owners' = Handed(Owners, i, u, to)
    /\ Inventory' = Handed(Inventory, i, u, to)
    /\ Fragments' = [Fragments EXCEPT ![i].permissions = perms]
    /\ UNCHANGED <<CopiesCount, Expirations>>

\* Mutated form: what is granted decides whether the instance is copied.
GiveByGranted(u, i, to, new_permissions, expiration) ==
    /\ Givable(u, i)
    /\ expiration # None => now < expiration
    /\ new_permissions # None
         => Grantable(Fragments[i].permissions, new_permissions)
    /\ LET perms == IF new_permissions # None THEN new_permissions
                    ELSE Fragments[i].permissions
       IN  IF "COPY" \in perms
           THEN GiveCopy(i, to, perms, expiration)
           ELSE GiveItself(u, i, to, perms)
    /\ UNCHANGED <<protoVars, classVars, Publishing, EditionsCount,
                   UniqueData2Edition, now>>

Give(u, i, to, new_permissions, expiration) ==
    /\ Givable(u, i)
    /\ expiration # None => now < expiration
    /\ new_permissions # None
         => Grantable(Fragments[i].permissions, new_permissions)
    /\ LET perms == IF new_permissions # None THEN new_permissions
                    ELSE Fragments[i].permissions
       IN  IF "COPY" \in Fragments[i].permissions
           THEN GiveCopy(i, to, perms, expiration)
           ELSE GiveItself(u, i, to, perms)
    /\ UNCHANGED <<protoVars, classVars, Publishing, EditionsCount,
                   UniqueData2Edition, now>>

-----------------------------------------------------------------------------
(* The end of a block: what expires in it is removed from everywhere.      *)

(* The account in whose list the search for i stops; if none, no list. *)
FoundIn(i) == CHOOSE u \in Accounts : Owners[<<u, i>>] > 0

(* The lists after one entry of each expired instance was removed. *)
Removed(list, expired) ==
    [l \in Accounts \X Instances |->
        IF /\ l[2] \in expired
           /\ \E u \in Accounts : Owners[<<u, l[2]>>] > 0
           /\ l[1] = FoundIn(l[2])
           /\ list[l] > 0
        THEN list[l] - 1 ELSE list[l]]

OnFinalize ==
    LET expired == Expirations[now]
    IN  /\ Fragments' = [i \in Instances |->
             IF i \in expired THEN None ELSE Fragments[i]]
        /\ Owners' = Removed(Owners, expired)
        /\ Inventory' = Removed(Inventory, expired)
        /\ Expirations' = [Expirations EXCEPT ![now] = {}]
        /\ now' = IF now < MaxBlock THEN now + 1 ELSE now
        /\ UNCHANGED <<protoVars, classVars, Publishing, EditionsCount,
                       CopiesCount, UniqueData2Edition>>

-----------------------------------------------------------------------------
Environment ==
    \/ RegistryStep
    \/ \E c \in Classes : FundVault(c)

Market ==
    \/ \E u \in Accounts, c \in Classes, perms \in PermissionSets,
          unique \in BOOLEAN, max \in Quantities \cup {None} :
            Create(u, c, perms, unique, max)
    \/ \E u \in Accounts, c \in Classes, quantity \in Quantities \cup {None},
          expires \in Blocks \cup {None} : Publish(u, c, quantity, expires)
    \/ \E u \in Accounts, c \in Classes : Unpublish(u, c)
    \/ \E u \in Accounts, c \in Classes, q \in Quantities,
          d \in DataHashes \cup {None} : Mint(u, c, q, d) \/ Buy(u, c, q, d)

Gifts ==
    \E u, to \in Accounts, i \in Instances,
       perms \in PermissionSets \cup {None},
       expiration \in Blocks \cup {None} : Give(u, i, to, perms, expiration)

Next == Environment \/ Market \/ Gifts \/ OnFinalize

(* Every block is finalised. *)
Spec == Init /\ [][Next]_vars /\ WF_vars(OnFinalize)

-----------------------------------------------------------------------------
(* Every variable holds values of its storage type. *)
TypeOK ==
    /\ ProtoOwner \in [Hashes -> Accounts \cup {None}]
    /\ DetachedHashes \subseteq Hashes
    /\ Funded \subseteq Classes
    /\ Definitions \in [Classes -> FragmentDefinition \cup {None}]
    /\ Publishing \in [Classes -> PublishingData \cup {None}]
    /\ EditionsCount \in [Classes -> 0 .. MaxEdition]
    /\ CopiesCount \in [Classes \X (1 .. MaxEdition) -> 0 .. MaxCopy]
    /\ Fragments \in [Instances -> FragmentInstance \cup {None}]
    /\ UniqueData2Edition \in [Classes \X DataHashes -> Nat \cup {None}]
    /\ Owners \in [Accounts \X Instances -> Nat]
    /\ Inventory \in [Accounts \X Instances -> Nat]
    /\ Expirations \in [Blocks -> SUBSET Instances]
    /\ now \in Blocks

(***************************************************************************)
(* An instance that exists stands once in the list of one account and in   *)
(* no other; one that does not exist, or no longer, stands in none.        *)
(* (Fragments, Owners, mint_fragments, give, on_finalize)                  *)
(***************************************************************************)
OneOwner ==
    \A i \in Instances :
        IF Fragments[i] = None
        THEN \A u \in Accounts : Owners[<<u, i>>] = 0
        ELSE \E u \in Accounts :
               /\ Owners[<<u, i>>] = 1
               /\ \A v \in Accounts \ {u} : Owners[<<v, i>>] = 0

(***************************************************************************)
(* Inventory stores exactly the same thing as Owners, as their             *)
(* declarations say.  (Owners, Inventory)                                  *)
(***************************************************************************)
InventoryIsOwners == Inventory = Owners

(***************************************************************************)
(* Instances are numbered within the counts of their class, and every      *)
(* number up to them was given out: an edition that exists has a count of  *)
(* copies.  (EditionsCount, CopiesCount)                                   *)
(***************************************************************************)
NumberedWithinCounts ==
    /\ \A i \in Instances : Fragments[i] # None =>
         /\ Edition(i) <= EditionsCount[Class(i)]
         /\ Copy(i) <= CopiesCount[<<Class(i), Edition(i)>>]
    /\ \A c \in Classes, e \in 1 .. MaxEdition :
         CopiesCount[<<c, e>>] > 0 <=> e <= EditionsCount[c]

(***************************************************************************)
(* An instance that expires is put down for the block at which it expires, *)
(* which is not over, and nothing else is put down: nothing outlives its   *)
(* expiration and no block removes what it should not.                     *)
(* (give, Expirations, on_finalize)                                        *)
(***************************************************************************)
ExpirationsAreScheduled ==
    /\ \A i \in Instances, b \in Blocks :
         i \in Expirations[b] <=>
             (Fragments[i] # None /\ Fragments[i].expiring_at = b)
    /\ \A b \in Blocks : Expirations[b] # {} => now <= b

(***************************************************************************)
(* No two editions of a class hold the same unique data, even after the    *)
(* class was sold, given away and copied.  (UniqueData2Edition)            *)
(***************************************************************************)
UniqueDataOnce ==
    \A i, j \in Instances :
        (/\ Fragments[i] # None /\ Fragments[j] # None
         /\ Class(i) = Class(j)
         /\ Fragments[i].custom_data # None
         /\ Fragments[i].custom_data = Fragments[j].custom_data)
            => Edition(i) = Edition(j)

(***************************************************************************)
(* A scarce class never comes to more than twice its maximal supply: the   *)
(* owner's mint ignores the open sale and the sale ignores what was minted *)
(* since it opened, but each keeps within the supply.  (publish, mint, buy)*)
(***************************************************************************)
SupplyAtMostDoubled ==
    \A c \in Classes :
        (Definitions[c] # None /\ Definitions[c].max_supply # None) =>
            LET max == Definitions[c].max_supply
            IN  /\ EditionsCount[c] <= 2 * max
                /\ Publishing[c] # None =>
                     /\ Publishing[c].units_left <= max
                     /\ EditionsCount[c] + Publishing[c].units_left
                          <= 2 * max

(***************************************************************************)
(* A scarce class never has more editions than its maximal supply, as the  *)
(* arguments of create say.  (max_supply; the code breaks it)              *)
(***************************************************************************)
SupplyRespected ==
    \A c \in Classes :
        (Definitions[c] # None /\ Definitions[c].max_supply # None)
            => EditionsCount[c] <= Definitions[c].max_supply

(***************************************************************************)
(* A new copy is as limited as the instance that its giver holds and       *)
(* keeps, which may itself be a copy: it may not do more, it does not live *)
(* longer, it holds the same data, and the giver's is as it was.  (give)   *)
(***************************************************************************)
CopiesInherit ==
    [][\A i, j \in Instances :
         (Fragments[i] # None /\ Fragments[j] = None /\ Fragments'[j] # None)
           => \A u, to \in Accounts, perms \in PermissionSets \cup {None},
                 expiration \in Blocks \cup {None} :
                Give(u, i, to, perms, expiration) =>
                  /\ Class(i) = Class(j) /\ Edition(i) = Edition(j)
                  /\ {"COPY", "TRANSFER"} \subseteq Fragments[i].permissions
                  /\ Fragments'[j].permissions
                       \subseteq Fragments[i].permissions
                  /\ Fragments'[j].custom_data = Fragments[i].custom_data
                  /\ Fragments[i].expiring_at # None =>
                       /\ Fragments'[j].expiring_at # None
                       /\ Fragments'[j].expiring_at
                            <= Fragments[i].expiring_at
                  /\ Fragments'[i] = Fragments[i]
                  /\ Inventory'[<<u, i>>] = Inventory[<<u, i>>]]_vars

(***************************************************************************)
(* What may be done with an instance is only ever restricted, whoever      *)
(* holds it, and its expiration and data never change.  (give)             *)
(***************************************************************************)
PermissionsOnlyShrink ==
    [][\A i \in Instances :
         (Fragments[i] # None /\ Fragments'[i] # None) =>
             /\ Fragments'[i].permissions \subseteq Fragments[i].permissions
             /\ Fragments'[i].expiring_at = Fragments[i].expiring_at
             /\ Fragments'[i].custom_data = Fragments[i].custom_data]_vars

(***************************************************************************)
(* Once its proto is detached, a class has no new editions but the units   *)
(* of the sale that was open, and that sale can only run out: it is not    *)
(* closed, reopened or topped up.  (create, publish, unpublish, mint, buy) *)
(***************************************************************************)
DetachedOnlySellsOut ==
    [][\A c \in Classes : ProtoOf[c] \in DetachedHashes =>
         /\ Definitions'[c] = Definitions[c]
         /\ Publishing[c] = None =>
              /\ Publishing'[c] = None
              /\ EditionsCount'[c] = EditionsCount[c]
         /\ Publishing[c] # None =>
              /\ Publishing'[c] # None
              /\ Publishing[c].units_left # None =>
                   Publishing'[c].units_left + EditionsCount'[c]
                     = Publishing[c].units_left + EditionsCount[c]]_vars

(***************************************************************************)
(* Every instance that expires is gone in the end.  (on_finalize)          *)
(***************************************************************************)
ExpiringGoes ==
    \A i \in Instances :
        (Fragments[i] # None /\ Fragments[i].expiring_at # None)
            ~> (Fragments[i] = None)

-----------------------------------------------------------------------------
(* The instances that were given out, those that expired since included.   *)
GivenOut ==
    {i \in Instances : Copy(i) <= CopiesCount[<<Class(i), Edition(i)>>]}

(* Who holds an instance, by the search of on_finalize. *)
Holder(i) == IF Fragments[i] = None THEN None ELSE FoundIn(i)

PermissionsOf(i) == IF Fragments[i] = None THEN {} ELSE Fragments[i].permissions

Holds == INSTANCE Holdings WITH
    EditionOf <- [i \in Instances |-> <<Class(i), Edition(i)>>],
    born      <- GivenOut,
    holder    <- [i \in Instances |-> Holder(i)],
    rights    <- [i \in Instances |-> PermissionsOf(i)]

(***************************************************************************)
(* Each instance is minted or copied once, has one holder while it exists  *)
(* and changes hands only with the right to: the two maps of lists that    *)
(* the pallet keeps come to a single holder.  (Holdings)                   *)
(***************************************************************************)
IsHoldings == Holds!HoldingsSpec
=============================================================================
