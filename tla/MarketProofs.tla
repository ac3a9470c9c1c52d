----------------------------- MODULE MarketProofs -----------------------------
(***************************************************************************)
(* Proofs about what the fragments pallet sells: unique data, and how many *)
(* editions come of a maximal supply, for any classes and quantities.      *)
(***************************************************************************)
EXTENDS HoldingsProofs

(* The map knows the data of every instance that exists, one number below  *)
(* its edition.                                                            *)
DataKnown ==
    \A i \in Instances :
        (Fragments[i] # None /\ Fragments[i].custom_data # None) =>
            UniqueData2Edition[<<Class(i), Fragments[i].custom_data>>]
              = Edition(i) - 1

LEMMA DataOfInstance ==
    ASSUME TypeOK, NEW i \in Instances, Fragments[i] # None
    PROVE  Fragments[i].custom_data \in DataHashes \cup {None}
BY DEF TypeOK, FragmentInstance

LEMMA KnownIsOnce ==
    ASSUME TypeOK, DataKnown
    PROVE  UniqueDataOnce
<1> SUFFICES ASSUME NEW i \in Instances, NEW j \in Instances,
                    Fragments[i] # None, Fragments[j] # None,
                    Class(i) = Class(j), Fragments[i].custom_data # None,
                    Fragments[i].custom_data = Fragments[j].custom_data
             PROVE  Edition(i) = Edition(j)
  BY DEF UniqueDataOnce
<1>1. Edition(i) - 1 = Edition(j) - 1
  BY DEF DataKnown
<1> QED
  BY <1>1, InstanceNumbers

LEMMA DataKnownStep ==
    ASSUME Numbered, DataKnown, [Next]_vars
    PROVE  DataKnown'
<1> USE DEF Numbered
<1> SUFFICES ASSUME NEW i \in Instances, Fragments'[i] # None,
                    Fragments'[i].custom_data # None
             PROVE  UniqueData2Edition'[<<Class(i), Fragments'[i].custom_data>>]
                      = Edition(i) - 1
  BY DEF DataKnown
<1> DEFINE data == Fragments'[i].custom_data
<1>a. ASSUME Fragments[i] # None, Fragments[i].custom_data = data
      PROVE  /\ UniqueData2Edition[<<Class(i), data>>] = Edition(i) - 1
             /\ data \in DataHashes
             /\ Class(i) \in Classes
             /\ Edition(i) - 1 # None
  <2>1. Edition(i) - 1 \in Nat
    <3>1. Edition(i) \in 1 .. MaxEdition /\ MaxEdition \in Nat
      BY InstanceParts, CountsAreNat
    <3> QED
      BY <3>1
  <2> QED
    BY <1>a, <2>1, DataOfInstance, InstanceParts, NoneIsAbsent DEF DataKnown
<1>1. CASE Still
  BY <1>1, <1>a DEF Still
<1>2. ASSUME NEW u \in Accounts, NEW c \in Classes, NEW q \in Nat,
             NEW d \in DataHashes \cup {None}, MintsEditions(u, c, q, d)
      PROVE  UniqueData2Edition'[<<Class(i), data>>] = Edition(i) - 1
  <2>1. /\ OptionsFit(c, q, d)
        /\ UniqueData2Edition' =
             [x \in Classes \X DataHashes |->
                IF x = <<c, d>> THEN EditionsCount[c]
                ELSE UniqueData2Edition[x]]
    BY <1>2 DEF MintsEditions, MintFragments
  <2>2. CASE i \in NewEditions(c, q)
    <3>1. /\ Class(i) = c /\ data = d
          /\ Edition(i) > EditionsCount[c]
          /\ Edition(i) <= EditionsCount[c] + q
          /\ EditionsCount[c] \in Nat
      BY <1>2, <2>2, MintFacts DEF MintsEditions
    <3>2. d \in DataHashes /\ q = 1
      BY <2>1, <3>1 DEF OptionsFit
    <3>3. UniqueData2Edition'[<<c, d>>] = EditionsCount[c]
      BY <2>1, <3>2
    <3>4. Edition(i) - 1 = EditionsCount[c]
      BY <3>1, <3>2, InstanceNumbers
    <3> QED
      BY <3>1, <3>3, <3>4
  <2>3. CASE i \notin NewEditions(c, q)
    <3>1. Fragments'[i] = Fragments[i]
      BY <1>2, <2>3, MintFacts DEF MintsEditions
    <3>2. /\ UniqueData2Edition[<<Class(i), data>>] = Edition(i) - 1
          /\ data \in DataHashes
          /\ Class(i) \in Classes
          /\ Edition(i) - 1 # None
      BY <1>a, <3>1
    <3> HIDE DEF data
    <3>3. <<Class(i), data>> # <<c, d>>
      BY <2>1, <3>2, NoneIsAbsent DEF OptionsFit
    <3> QED
      BY <2>1, <3>2, <3>3
  <2> QED
    BY <2>2, <2>3
<1>3. ASSUME NEW u \in Accounts, NEW k \in Instances, NEW to \in Accounts,
             NEW given \in SUBSET Perms,
             NEW expiration \in Blocks \cup {None},
             GivesCopy(u, k, to, given, expiration)
      PROVE  UniqueData2Edition'[<<Class(i), data>>] = Edition(i) - 1
  <2>1. /\ Fragments[k] # None /\ GiveCopy(k, to, given, expiration)
        /\ UniqueData2Edition' = UniqueData2Edition
    BY <1>3, GivableExists DEF GivesCopy
  <2>2. CASE i = NextCopy(k)
    <3>1. /\ Class(i) = Class(k) /\ Edition(i) = Edition(k)
          /\ data = Fragments[k].custom_data
      <4>1. /\ Class(NextCopy(k)) = Class(k)
            /\ Edition(NextCopy(k)) = Edition(k)
            /\ Fragments'[NextCopy(k)] =
                 [permissions |-> given,
                  custom_data |-> Fragments[k].custom_data,
                  expiring_at |-> CopyExpiry(k, expiration)]
        BY <2>1, CopyFacts
      <4> QED
        BY <2>2, <4>1
    <3>2. UniqueData2Edition[<<Class(k), Fragments[k].custom_data>>]
            = Edition(k) - 1
      BY <2>1, <3>1 DEF DataKnown
    <3> QED
      BY <2>1, <3>1, <3>2
  <2>3. CASE i # NextCopy(k)
    <3>1. Fragments'[i] = Fragments[i]
      BY <2>1, <2>3, CopyFacts
    <3> QED
      BY <1>a, <2>1, <3>1
  <2> QED
    BY <2>2, <2>3
<1>4. ASSUME NEW u \in Accounts, NEW k \in Instances, NEW to \in Accounts,
             NEW given \in SUBSET Perms, HandsOver(u, k, to, given)
      PROVE  UniqueData2Edition'[<<Class(i), data>>] = Edition(i) - 1
  <2>1. /\ Fragments[i] # None /\ Fragments[i].custom_data = data
        /\ UniqueData2Edition' = UniqueData2Edition
    BY <1>4, GivableExists, SelfFacts DEF HandsOver
  <2> QED
    BY <1>a, <2>1
<1>5. ASSUME OnFinalize
      PROVE  UniqueData2Edition'[<<Class(i), data>>] = Edition(i) - 1
  BY <1>5, <1>a DEF OnFinalize
<1> QED
  BY <1>1, <1>2, <1>3, <1>4, <1>5, StepKinds

(***************************************************************************)
(* No two editions of a class ever hold the same unique data: what the map *)
(* knows is written with every edition and never unlearned, even when the  *)
(* instances that hold it expire.                                          *)
(***************************************************************************)
THEOREM DataOnce == Spec => []UniqueDataOnce
<1>1. Init => DataKnown
  BY DEF Init, DataKnown
<1>2. Numbered /\ DataKnown /\ [Next]_vars => DataKnown'
  BY DataKnownStep
<1>3. Numbered /\ DataKnown => UniqueDataOnce
  BY KnownIsOnce DEF Numbered
<1> QED
  BY <1>1, <1>2, <1>3, NumberedAlways, PTL DEF Spec

-----------------------------------------------------------------------------
(* What a step does to a class: nothing, or one of five calls. *)
LEMMA ClassCases ==
    ASSUME [Next]_vars, NEW c \in Classes
    PROVE  \/ UNCHANGED <<Definitions, Publishing, EditionsCount>>
           \/ \E u \in Accounts, b \in Classes, perms \in PermissionSets,
                 unique \in BOOLEAN, max \in Quantities \cup {None} :
                   Create(u, b, perms, unique, max)
           \/ \E u \in Accounts, b \in Classes,
                 quantity \in Quantities \cup {None},
                 expires \in Blocks \cup {None} :
                   Publish(u, b, quantity, expires)
           \/ \E u \in Accounts, b \in Classes : Unpublish(u, b)
           \/ \E u \in Accounts, b \in Classes, q \in Quantities,
                 d \in DataHashes \cup {None} : Mint(u, b, q, d)
           \/ \E u \in Accounts, b \in Classes, q \in Quantities,
                 d \in DataHashes \cup {None} : Buy(u, b, q, d)
<1> DEFINE Same == UNCHANGED <<Definitions, Publishing, EditionsCount>>
<1>1. Environment => Same
  BY DEF Environment, RegistryStep, FundVault, classVars
<1>2. Gifts => Same
  BY DEF Gifts, Give, classVars
<1>3. OnFinalize => Same
  BY DEF OnFinalize, classVars
<1>4. UNCHANGED vars => Same
  BY DEF vars
<1> QED
  BY <1>1, <1>2, <1>3, <1>4 DEF Next, Market

(* What a sale takes from the units left. *)
LEMMA BuyFacts ==
    ASSUME TypeOK, NEW u, NEW c \in Classes, NEW q \in Nat, NEW d,
           Buy(u, c, q, d)
    PROVE  /\ Definitions[c] # None /\ Publishing[c] # None
           /\ Publishing'[c] # None
           /\ Publishing[c].units_left # None =>
                /\ Publishing[c].units_left \in Nat
                /\ q <= Publishing[c].units_left
                /\ Publishing'[c].units_left = Publishing[c].units_left - q
           /\ Publishing[c].units_left = None =>
                Publishing' = Publishing
           /\ \A b \in Classes \ {c} : Publishing'[b] = Publishing[b]
<1>1. /\ Definitions[c] # None /\ Publishing[c] # None
      /\ Publishing[c].units_left # None => q <= Publishing[c].units_left
      /\ IF Publishing[c].units_left = None
         THEN UNCHANGED Publishing
         ELSE Publishing' = [Publishing EXCEPT ![c].units_left = @ - q]
  BY DEF Buy, OnSale, InStock
<1>2. PICK sale \in PublishingData : sale = Publishing[c]
  BY <1>1 DEF TypeOK
<1>3. CASE sale.units_left = None
  BY <1>1, <1>2, <1>3
<1>4. CASE sale.units_left # None
  <2>1. sale.units_left \in Nat /\ q <= sale.units_left
    BY <1>1, <1>2, <1>4 DEF PublishingData
  <2>2. PICK after : after = [sale EXCEPT !.units_left = sale.units_left - q]
    OBVIOUS
  <2>3. after \in PublishingData /\ after.units_left = sale.units_left - q
    BY <2>1, <2>2 DEF PublishingData
  <2>4. Publishing' = [Publishing EXCEPT ![c] = after]
    BY <1>1, <1>2, <1>4, <2>2 DEF TypeOK
  <2>5. Publishing'[c] = after /\ after # None
    BY <2>3, <2>4, NoneIsNoRecord DEF TypeOK
  <2>6. \A b \in Classes \ {c} : Publishing'[b] = Publishing[b]
    BY <2>4 DEF TypeOK
  <2> QED
    BY <1>1, <1>2, <1>4, <2>1, <2>3, <2>5, <2>6
<1> QED
  BY <1>3, <1>4

(* Both ways to mint add to the count of editions of one class. *)
LEMMA CountsGrow ==
    ASSUME TypeOK, NEW u, NEW c \in Classes, NEW q \in Nat, NEW d,
           MintFragments(u, c, q, d)
    PROVE  /\ EditionsCount'[c] = EditionsCount[c] + q
           /\ \A b \in Classes \ {c} : EditionsCount'[b] = EditionsCount[b]
           /\ Definitions' = Definitions
BY DEF MintFragments, TypeOK, classVars

LEMMA CountIsNat == TypeOK => \A c \in Classes : EditionsCount[c] \in Nat
BY DEF TypeOK

-----------------------------------------------------------------------------
(* After its proto was detached. *)
SellsOut ==
    \A c \in Classes : ProtoOf[c] \in DetachedHashes =>
        /\ Definitions'[c] = Definitions[c]
        /\ Publishing[c] = None =>
             /\ Publishing'[c] = None
             /\ EditionsCount'[c] = EditionsCount[c]
        /\ Publishing[c] # None =>
             /\ Publishing'[c] # None
             /\ Publishing[c].units_left # None =>
                  Publishing'[c].units_left + EditionsCount'[c]
                    = Publishing[c].units_left + EditionsCount[c]

LEMMA StepSellsOut ==
    ASSUME TypeOK, [Next]_vars
    PROVE  SellsOut
<1> SUFFICES ASSUME NEW c \in Classes, ProtoOf[c] \in DetachedHashes
             PROVE  /\ Definitions'[c] = Definitions[c]
                    /\ Publishing[c] = None =>
                         /\ Publishing'[c] = None
                         /\ EditionsCount'[c] = EditionsCount[c]
                    /\ Publishing[c] # None =>
                         /\ Publishing'[c] # None
                         /\ Publishing[c].units_left # None =>
                              Publishing'[c].units_left + EditionsCount'[c]
                                = Publishing[c].units_left + EditionsCount[c]
  BY DEF SellsOut
<1> DEFINE Same == /\ Definitions'[c] = Definitions[c]
                   /\ Publishing'[c] = Publishing[c]
                   /\ EditionsCount'[c] = EditionsCount[c]
<1>0. \A u : \A b \in Classes : MayManage(u, b) => b # c
  BY DEF MayManage
<1>1. UNCHANGED <<Definitions, Publishing, EditionsCount>> => Same
  OBVIOUS
<1>2. ASSUME NEW u, NEW b \in Classes, NEW perms, NEW unique, NEW max,
             Create(u, b, perms, unique, max)
      PROVE  Same
  BY <1>2, <1>0 DEF Create, TypeOK
<1>3. ASSUME NEW u, NEW b \in Classes, NEW quantity, NEW expires,
             Publish(u, b, quantity, expires)
      PROVE  Same
  BY <1>3, <1>0 DEF Publish, TypeOK, classVars
<1>4. ASSUME NEW u, NEW b \in Classes, Unpublish(u, b)
      PROVE  Same
  BY <1>4, <1>0 DEF Unpublish, TypeOK, classVars
<1>5. ASSUME NEW u, NEW b \in Classes, NEW q \in Quantities, NEW d,
             Mint(u, b, q, d)
      PROVE  Same
  <2>1. /\ b # c /\ Publishing' = Publishing
        /\ MintFragments(u, b, q, d) /\ q \in Nat
    BY <1>5, <1>0, CountsAreNat DEF Mint
  <2> QED
    BY <2>1, CountsGrow
<1>6. ASSUME NEW u, NEW b \in Classes, NEW q \in Quantities, NEW d,
             Buy(u, b, q, d)
      PROVE  \/ Same
             \/ /\ Definitions'[c] = Definitions[c]
                /\ Publishing[c] # None /\ Publishing'[c] # None
                /\ Publishing[c].units_left # None =>
                     Publishing'[c].units_left + EditionsCount'[c]
                       = Publishing[c].units_left + EditionsCount[c]
  <2>1. MintFragments(u, b, q, d) /\ q \in Nat
    BY <1>6, CountsAreNat DEF Buy
  <2>2. CASE b = c
    <3>1. /\ Definitions' = Definitions
          /\ EditionsCount'[c] = EditionsCount[c] + q
          /\ EditionsCount[c] \in Nat
      BY <2>1, <2>2, CountsGrow, CountIsNat
    <3>2. /\ Publishing[c] # None /\ Publishing'[c] # None
          /\ Publishing[c].units_left # None =>
               /\ Publishing[c].units_left \in Nat
               /\ Publishing'[c].units_left = Publishing[c].units_left - q
      BY <1>6, <2>1, <2>2, BuyFacts
    <3> QED
      BY <2>1, <3>1, <3>2
  <2>3. CASE b # c
    <3>1. Publishing'[c] = Publishing[c]
      BY <1>6, <2>1, <2>3, BuyFacts
    <3>2. Definitions' = Definitions /\ EditionsCount'[c] = EditionsCount[c]
      BY <2>1, <2>3, CountsGrow
    <3> QED
      BY <3>1, <3>2
  <2> QED
    BY <2>2, <2>3
<1>7. Same => \/ Publishing[c] = None
              \/ /\ Publishing'[c] # None
                 /\ Publishing'[c].units_left + EditionsCount'[c]
                      = Publishing[c].units_left + EditionsCount[c]
  OBVIOUS
<1> QED
  BY <1>1, <1>2, <1>3, <1>4, <1>5, <1>6, <1>7, ClassCases

(***************************************************************************)
(* Once the proto of a class is detached, its open sale can only run out,  *)
(* unit by unit, and nothing else comes of the class: create, publish,     *)
(* unpublish and mint refuse, and buy takes what it mints from the sale.   *)
(***************************************************************************)
THEOREM DetachedSellsOut == Spec => DetachedOnlySellsOut
<1>1. TypeOK /\ [Next]_vars => [SellsOut]_vars
  BY StepSellsOut
<1> QED
  BY <1>1, TypeCorrect, PTL DEF Spec, DetachedOnlySellsOut, SellsOut

-----------------------------------------------------------------------------
(* A class of maximal supply. *)
Scarce(c) == Definitions[c] # None /\ Definitions[c].max_supply # None

Supply(c) == Definitions[c].max_supply

(* A definition is written once. *)
LEMMA DefinitionStays ==
    ASSUME TypeOK, NEW c \in Classes, [Next]_vars
    PROVE  /\ Definitions[c] # None => Definitions'[c] = Definitions[c]
           /\ Scarce(c)' => Supply(c)' \in Nat
<1> DEFINE Ok == /\ Definitions[c] # None => Definitions'[c] = Definitions[c]
                 /\ Scarce(c)' => Supply(c)' \in Nat
<1>1. Definitions'[c] = Definitions[c] => Ok
  BY CountsAreNat DEF TypeOK, FragmentDefinition, Scarce, Supply
<1>2. ASSUME NEW u, NEW b \in Classes, NEW perms, NEW unique,
             NEW max \in Quantities \cup {None},
             Create(u, b, perms, unique, max)
      PROVE  Ok
  <2>1. /\ Definitions[b] = None
        /\ Definitions' = [Definitions EXCEPT ![b] =
             [permissions |-> perms, unique |-> unique, max_supply |-> max]]
    BY <1>2 DEF Create
  <2>2. CASE b = c
    <3>1. Definitions'[c].max_supply = max
      BY <2>1, <2>2 DEF TypeOK
    <3>2. max # None => max \in Nat
      BY CountsAreNat
    <3> QED
      BY <2>1, <2>2, <3>1, <3>2 DEF Scarce, Supply
  <2>3. CASE b # c
    BY <1>1, <2>1, <2>3 DEF TypeOK
  <2> QED
    BY <2>2, <2>3
<1>3. \A u : \A b \in Classes :
        /\ \A n, x : Publish(u, b, n, x) => UNCHANGED Definitions
        /\ Unpublish(u, b) => UNCHANGED Definitions
        /\ \A q, d : Mint(u, b, q, d) \/ Buy(u, b, q, d) => UNCHANGED Definitions
  BY DEF Publish, Unpublish, Mint, Buy, MintFragments, classVars
<1> HIDE DEF Ok
<1>4. UNCHANGED Definitions => Ok
  BY <1>1
<1> QED
  BY <1>2, <1>3, <1>4, ClassCases DEF Ok

(* Nothing comes of a class before it is created. *)
LEMMA UndefinedIsIdle ==
    ASSUME TypeOK, NEW c \in Classes, Definitions[c] = None, [Next]_vars
    PROVE  Publishing'[c] = Publishing[c] /\ EditionsCount'[c] = EditionsCount[c]
<1> DEFINE Same == /\ Publishing'[c] = Publishing[c]
                   /\ EditionsCount'[c] = EditionsCount[c]
<1>1. UNCHANGED <<Definitions, Publishing, EditionsCount>> => Same
  OBVIOUS
<1>2. ASSUME NEW u, NEW b \in Classes, NEW perms, NEW unique, NEW max,
             Create(u, b, perms, unique, max)
      PROVE  Same
  BY <1>2 DEF Create
<1>3. ASSUME NEW u, NEW b \in Classes, NEW n, NEW x, Publish(u, b, n, x)
      PROVE  Same
  BY <1>3 DEF Publish, TypeOK
<1>4. ASSUME NEW u, NEW b \in Classes, Unpublish(u, b)
      PROVE  Same
  BY <1>4 DEF Unpublish, TypeOK
<1>5. ASSUME NEW u, NEW b \in Classes, NEW q \in Quantities, NEW d,
             Mint(u, b, q, d)
      PROVE  Same
  <2>1. /\ b # c /\ Publishing' = Publishing
        /\ MintFragments(u, b, q, d) /\ q \in Nat
    BY <1>5, CountsAreNat DEF Mint
  <2> QED
    BY <2>1, CountsGrow
<1>6. ASSUME NEW u, NEW b \in Classes, NEW q \in Quantities, NEW d,
             Buy(u, b, q, d)
      PROVE  Same
  <2>1. MintFragments(u, b, q, d) /\ q \in Nat
    BY <1>6, CountsAreNat DEF Buy
  <2>2. b # c
    BY <1>6, <2>1, BuyFacts
  <2> QED
    BY <1>6, <2>1, <2>2, BuyFacts, CountsGrow
<1> HIDE DEF Same
<1>7. Same
  BY <1>1, <1>2, <1>3, <1>4, <1>5, <1>6, ClassCases
<1> QED
  BY <1>7 DEF Same

(* What may happen to the count and the sale of a scarce class. *)
Rests(c)  == Publishing'[c] = Publishing[c] /\ EditionsCount'[c] = EditionsCount[c]
Closes(c) == Publishing'[c] = None /\ EditionsCount'[c] = EditionsCount[c]
Opens(c)  == /\ Publishing'[c] # None /\ Publishing'[c].units_left \in Nat
             /\ EditionsCount[c] + Publishing'[c].units_left <= Supply(c)
             /\ EditionsCount'[c] = EditionsCount[c]
Mints(c)  == \E q \in Nat :
                /\ q = 0 \/ EditionsCount[c] + q <= Supply(c)
                /\ EditionsCount'[c] = EditionsCount[c] + q
                /\ Publishing'[c] = Publishing[c]
Sells(c)  == \E q \in Nat :
                /\ Publishing[c] # None /\ Publishing'[c] # None
                /\ Publishing[c].units_left \in Nat
                /\ q <= Publishing[c].units_left
                /\ Publishing'[c].units_left = Publishing[c].units_left - q
                /\ EditionsCount'[c] = EditionsCount[c] + q

(* The owner of the proto mints editions of c. *)
OwnerMints(c) ==
    \E u \in Accounts, q \in Quantities, d \in DataHashes \cup {None} :
        Mint(u, c, q, d)

LEMMA ScarceMoves ==
    ASSUME TypeOK, NEW c \in Classes, Scarce(c),
           Publishing[c] # None => Publishing[c].units_left # None,
           [Next]_vars
    PROVE  \/ Rests(c) \/ Closes(c) \/ Opens(c) \/ Sells(c)
           \/ Mints(c) /\ OwnerMints(c)
<1> DEFINE Ok == \/ Rests(c) \/ Closes(c) \/ Opens(c) \/ Sells(c)
                 \/ Mints(c) /\ OwnerMints(c)
<1>0. EditionsCount[c] \in Nat /\ Supply(c) \in Nat
  BY CountIsNat DEF TypeOK, Scarce, Supply, FragmentDefinition
<1>1. ASSUME Publishing'[c] = Publishing[c], EditionsCount'[c] = EditionsCount[c]
      PROVE  Ok
  BY <1>1 DEF Rests
<1>2. Left(c) = IF Supply(c) > EditionsCount[c]
                THEN Supply(c) - EditionsCount[c] ELSE 0
  BY DEF Left, Supply
<1>3. \A u : \A b \in Classes : \A perms, unique, max :
        Create(u, b, perms, unique, max) => Ok
  BY <1>1 DEF Create
<1>4. ASSUME NEW u, NEW b \in Classes, NEW quantity \in Quantities \cup {None},
             NEW expires \in Blocks \cup {None},
             Publish(u, b, quantity, expires)
      PROVE  Ok
  <2> DEFINE sale == [units_left |-> quantity, expiration |-> expires]
  <2>1. /\ Publishing' = [Publishing EXCEPT ![b] = sale]
        /\ EditionsCount' = EditionsCount
    BY <1>4 DEF Publish
  <2>2. CASE b = c
    <3>1. /\ quantity \in Nat /\ quantity <= Left(c) /\ Left(c) # 0
      BY <1>4, <2>2, CountsAreNat DEF Publish, Offerable, Scarce
    <3>2. EditionsCount[c] + quantity <= Supply(c)
      BY <1>0, <1>2, <3>1
    <3>3. Publishing'[c] = sale
      BY <2>1, <2>2 DEF TypeOK
    <3>4. sale # None /\ sale.units_left = quantity
      <4>1. sale \in PublishingData
        BY <3>1, CountsAreNat DEF PublishingData, Blocks
      <4> QED
        BY <4>1, NoneIsNoRecord
    <3> HIDE DEF sale
    <3>5. Opens(c)
      BY <2>1, <3>1, <3>2, <3>3, <3>4 DEF Opens
    <3> QED
      BY <3>5
  <2>3. CASE b # c
    BY <1>1, <2>1, <2>3 DEF TypeOK
  <2> QED
    BY <2>2, <2>3
<1>5. ASSUME NEW u, NEW b \in Classes, Unpublish(u, b)
      PROVE  Ok
  <2>1. /\ Publishing' = [Publishing EXCEPT ![b] = None]
        /\ EditionsCount' = EditionsCount
    BY <1>5 DEF Unpublish
  <2>2. b = c => Closes(c)
    BY <2>1 DEF TypeOK, Closes
  <2>3. b # c => Publishing'[c] = Publishing[c]
    BY <2>1 DEF TypeOK
  <2> QED
    BY <1>1, <2>1, <2>2, <2>3
<1>6. ASSUME NEW u \in Accounts, NEW b \in Classes, NEW q \in Quantities,
             NEW d \in DataHashes \cup {None}, Mint(u, b, q, d)
      PROVE  Ok
  <2>1. /\ q \in Nat /\ Publishing' = Publishing
        /\ Definitions[b].max_supply # None => q <= Left(b)
        /\ EditionsCount'[b] = EditionsCount[b] + q
        /\ \A a \in Classes \ {b} : EditionsCount'[a] = EditionsCount[a]
    BY <1>6, CountsAreNat, CountsGrow DEF Mint
  <2>2. CASE b = c
    <3>1. q <= Left(c)
      BY <2>1, <2>2 DEF Scarce
    <3>2. q = 0 \/ EditionsCount[c] + q <= Supply(c)
      BY <1>0, <1>2, <2>1, <3>1
    <3>3. Mints(c)
      BY <2>1, <2>2, <3>2 DEF Mints
    <3> QED
      BY <1>6, <2>2, <3>3 DEF OwnerMints
  <2>3. CASE b # c
    BY <1>1, <2>1, <2>3
  <2> QED
    BY <2>2, <2>3
<1>7. ASSUME NEW u, NEW b \in Classes, NEW q \in Quantities, NEW d,
             Buy(u, b, q, d)
      PROVE  Ok
  <2>1. MintFragments(u, b, q, d) /\ q \in Nat
    BY <1>7, CountsAreNat DEF Buy
  <2>2. /\ EditionsCount'[b] = EditionsCount[b] + q
        /\ \A a \in Classes \ {b} : EditionsCount'[a] = EditionsCount[a]
    BY <2>1, CountsGrow
  <2>3. CASE b = c
    <3>1. Sells(c)
      BY <1>7, <2>1, <2>2, <2>3, BuyFacts DEF Sells
    <3> QED
      BY <3>1
  <2>4. CASE b # c
    <3>1. Publishing'[c] = Publishing[c]
      BY <1>7, <2>1, <2>4, BuyFacts
    <3> QED
      BY <1>1, <2>2, <2>4, <3>1
  <2> QED
    BY <2>3, <2>4
<1> HIDE DEF Ok
<1>8. UNCHANGED <<Definitions, Publishing, EditionsCount>> => Ok
  BY <1>1
<1>9. Ok
  BY <1>3, <1>4, <1>5, <1>6, <1>7, <1>8, ClassCases
<1> QED
  BY <1>9 DEF Ok

(***************************************************************************)
(* What the editions and the units left of a scarce class come to: twice   *)
(* the supply at most, or the supply if no one mints beside a sale.        *)
(***************************************************************************)
Within(c, max) ==
    /\ EditionsCount[c] <= max
    /\ Publishing[c] # None =>
         /\ Publishing[c].units_left \in Nat
         /\ Publishing[c].units_left <= Supply(c)
         /\ EditionsCount[c] + Publishing[c].units_left <= max

NothingYet(c) ==
    Definitions[c] = None => EditionsCount[c] = 0 /\ Publishing[c] = None

SupplyBounded ==
    \A c \in Classes : NothingYet(c) /\ (Scarce(c) => Within(c, 2 * Supply(c)))

SupplyKept ==
    \A c \in Classes : NothingYet(c) /\ (Scarce(c) => Within(c, Supply(c)))

(* A class that is scarce after a step is new or was scarce before it. *)
LEMMA ScarceCases ==
    ASSUME TypeOK, NEW c \in Classes, NothingYet(c), [Next]_vars
    PROVE  /\ NothingYet(c)'
           /\ Scarce(c)' =>
                /\ Supply(c)' \in Nat
                /\ \/ EditionsCount'[c] = 0 /\ Publishing'[c] = None
                   \/ Scarce(c) /\ Supply(c)' = Supply(c)
<1>1. CASE Definitions[c] = None
  BY <1>1, DefinitionStays, UndefinedIsIdle DEF NothingYet
<1>2. CASE Definitions[c] # None
  BY <1>2, DefinitionStays DEF NothingYet, Scarce, Supply
<1> QED
  BY <1>1, <1>2

LEMMA SupplyBoundedStep ==
    ASSUME TypeOK, SupplyBounded, [Next]_vars
    PROVE  SupplyBounded'
<1> SUFFICES ASSUME NEW c \in Classes
             PROVE  NothingYet(c)' /\ (Scarce(c)' => Within(c, 2 * Supply(c))')
  BY DEF SupplyBounded
<1>1. NothingYet(c)
  BY DEF SupplyBounded
<1>2. CASE Scarce(c) /\ Supply(c)' = Supply(c)
  <2>1. Within(c, 2 * Supply(c)) /\ EditionsCount[c] \in Nat /\ Supply(c) \in Nat
    BY <1>2, CountIsNat DEF SupplyBounded, TypeOK, Scarce, Supply, FragmentDefinition
  <2>2. \/ Rests(c) \/ Closes(c) \/ Opens(c) \/ Sells(c)
        \/ Mints(c) /\ OwnerMints(c)
    BY <1>2, <2>1, ScarceMoves, NoneIsAbsent DEF Within
  <2>3. Rests(c) \/ Closes(c) => Within(c, 2 * Supply(c))'
    BY <1>2, <2>1 DEF Rests, Closes, Within
  <2>4. Opens(c) => Within(c, 2 * Supply(c))'
    BY <1>2, <2>1 DEF Opens, Within
  <2>5. Sells(c) => Within(c, 2 * Supply(c))'
    BY <1>2, <2>1 DEF Sells, Within
  <2>6. Mints(c) => Within(c, 2 * Supply(c))'
    BY <1>2, <2>1 DEF Mints, Within
  <2> QED
    BY <1>1, <2>2, <2>3, <2>4, <2>5, <2>6, ScarceCases
<1>3. EditionsCount'[c] = 0 /\ Publishing'[c] = None /\ Supply(c)' \in Nat
        => Within(c, 2 * Supply(c))'
  BY DEF Within
<1> QED
  BY <1>1, <1>2, <1>3, ScarceCases

(***************************************************************************)
(* However mint, publish, unpublish and buy interleave, a class never      *)
(* comes to more than twice its maximal supply, and the open sale is       *)
(* within it: what bounds the race of the owner's mint with the sale.      *)
(***************************************************************************)
THEOREM AtMostDoubled == Spec => []SupplyAtMostDoubled
<1>1. Init => SupplyBounded
  BY DEF Init, SupplyBounded, NothingYet, Scarce
<1>2. TypeOK /\ SupplyBounded /\ [Next]_vars => SupplyBounded'
  BY SupplyBoundedStep
<1>3. SupplyBounded => SupplyAtMostDoubled
  BY DEF SupplyBounded, SupplyAtMostDoubled, Scarce, Within, Supply
<1> QED
  BY <1>1, <1>2, <1>3, TypeCorrect, PTL DEF Spec

(* No owner of a scarce class mints while it is on sale. *)
NoMintBesideSale ==
    \A c \in Classes : Scarce(c) /\ Publishing[c] # None => ~ OwnerMints(c)

LEMMA SupplyKeptStep ==
    ASSUME TypeOK, SupplyKept, [Next]_vars, [NoMintBesideSale]_vars
    PROVE  SupplyKept'
<1> SUFFICES ASSUME NEW c \in Classes
             PROVE  NothingYet(c)' /\ (Scarce(c)' => Within(c, Supply(c))')
  BY DEF SupplyKept
<1>1. NothingYet(c)
  BY DEF SupplyKept
<1>2. CASE Scarce(c) /\ Supply(c)' = Supply(c)
  <2>1. Within(c, Supply(c)) /\ EditionsCount[c] \in Nat /\ Supply(c) \in Nat
    BY <1>2, CountIsNat DEF SupplyKept, TypeOK, Scarce, Supply, FragmentDefinition
  <2>2. \/ Rests(c) \/ Closes(c) \/ Opens(c) \/ Sells(c)
        \/ Mints(c) /\ OwnerMints(c)
    BY <1>2, <2>1, ScarceMoves, NoneIsAbsent DEF Within
  <2>3. Rests(c) \/ Closes(c) => Within(c, Supply(c))'
    BY <1>2, <2>1 DEF Rests, Closes, Within
  <2>4. Opens(c) => Within(c, Supply(c))'
    BY <1>2, <2>1 DEF Opens, Within
  <2>5. Sells(c) => Within(c, Supply(c))'
    BY <1>2, <2>1 DEF Sells, Within
  <2>6. Mints(c) /\ OwnerMints(c) => Within(c, Supply(c))'
    <3>1. CASE UNCHANGED vars
      <4>1. Rests(c)
        BY <3>1 DEF Rests, vars
      <4> QED
        BY <2>3, <4>1
    <3>2. CASE NoMintBesideSale
      <4>1. OwnerMints(c) => Publishing[c] = None
        BY <1>2, <3>2 DEF NoMintBesideSale
      <4> QED
        BY <1>2, <2>1, <4>1 DEF Mints, Within
    <3> QED
      BY <3>1, <3>2
  <2> QED
    BY <1>1, <2>2, <2>3, <2>4, <2>5, <2>6, ScarceCases
<1>3. EditionsCount'[c] = 0 /\ Publishing'[c] = None /\ Supply(c)' \in Nat
        => Within(c, Supply(c))'
  BY DEF Within
<1> QED
  BY <1>1, <1>2, <1>3, ScarceCases

(***************************************************************************)
(* The mint beside an open sale is all that is wrong: as long as no owner  *)
(* of a scarce class does that, its maximal supply is respected, however   *)
(* sales open, sell, expire and close.  (publish, mint, buy)               *)
(***************************************************************************)
THEOREM SupplyKeptBesides ==
    Spec /\ [][NoMintBesideSale]_vars => []SupplyRespected
<1>1. Init => SupplyKept
  BY DEF Init, SupplyKept, NothingYet, Scarce
<1>2. TypeOK /\ SupplyKept /\ [Next]_vars /\ [NoMintBesideSale]_vars => SupplyKept'
  BY SupplyKeptStep
<1>3. SupplyKept => SupplyRespected
  BY DEF SupplyKept, SupplyRespected, Scarce, Within, Supply
<1> QED
  BY <1>1, <1>2, <1>3, TypeCorrect, PTL DEF Spec

=============================================================================
