---------------------------- MODULE RegistryProofs ----------------------------
(***************************************************************************)
(* Proofs about what the registry of protos shows to others, for any       *)
(* protos, accounts, categories and tags: the pages of a query, what the   *)
(* other pallets rely on, and the ledger of links, locks and stakes.       *)
(***************************************************************************)
EXTENDS ProtosQuery, ProtosProofs

(* Place k of a list stands on one of its pages, page i from 0 on. *)
LEMMA OnSomePage ==
    ASSUME NEW k \in Nat \ {0}, NEW limit \in Nat \ {0}
    PROVE  \E i \in 0 .. k : i * limit + 1 <= k /\ k <= i * limit + limit
<1> DEFINE late == {j \in Nat : k <= j * limit + limit}
<1>1. k \in late
  <2>1. k * limit >= k
    OBVIOUS
  <2> QED
    BY <2>1
<1>2. PICK i \in late : \A j \in late : ~ (<<j, i>> \in OpToRel(<, Nat))
  <2>1. late \subseteq Nat /\ late # {}
    BY <1>1
  <2> HIDE DEF late
  <2> QED
    BY <2>1, NatLessThanWellFounded, WFMin
<1>3. \A j \in late : i <= j
  <2>1. \A j \in late : ~ (j < i)
    BY <1>2 DEF OpToRel
  <2> QED
    BY <2>1
<1>4. i \in 0 .. k
  BY <1>1, <1>3
<1>5. i * limit + 1 <= k
  <2>1. CASE i = 0
    BY <2>1
  <2>2. CASE i # 0
    <3>1. i - 1 \in Nat /\ i - 1 \notin late
      BY <1>3, <2>2
    <3>2. (i - 1) * limit + limit = i * limit
      BY <2>2
    <3> QED
      BY <3>1, <3>2
  <2> QED
    BY <2>1, <2>2
<1> QED
  BY <1>2, <1>4, <1>5

(* A list of a finite set in any order, without repetitions, is paged well. *)
LEMMA PagesOfAList ==
    ASSUME NEW scan, IsFiniteSet(scan), NEW limit \in Nat \ {0},
           NEW found \in Bijection(1 .. Cardinality(scan), scan)
    PROVE  PagesHold(found, limit, scan)
<1> DEFINE n == Cardinality(scan)
<1>1. n \in Nat
  BY FS_CardinalityType
<1>2. /\ found \in [1 .. n -> scan]
      /\ \A p \in scan : \E k \in 1 .. n : found[k] = p
      /\ \A j, k \in 1 .. n : found[j] = found[k] => j = k
  BY DEF Bijection, Injection, Surjection, IsInjective
<1> HIDE DEF n
<1> DEFINE on(i) == (i * limit + 1 .. i * limit + limit) \cap 1 .. n
<1>3. \A i \in Nat : Page(found, i * limit, limit) = {found[k] : k \in on(i)}
  BY <1>2 DEF Page
<1>4. UNION {Page(found, i * limit, limit) : i \in 0 .. n} = scan
  <2>1. \A i \in 0 .. n : Page(found, i * limit, limit) \subseteq scan
    BY <1>2, <1>3
  <2>2. ASSUME NEW p \in scan
        PROVE  \E i \in 0 .. n : p \in Page(found, i * limit, limit)
    <3>1. PICK k \in 1 .. n : found[k] = p
      BY <1>2
    <3>2. PICK i \in 0 .. k : i * limit + 1 <= k /\ k <= i * limit + limit
      <4>1. k \in Nat \ {0}
        BY <1>1
      <4> QED
        BY <4>1, OnSomePage
    <3>3. i \in 0 .. n /\ i \in Nat /\ i * limit \in Nat
      BY <1>1, <3>2
    <3>4. k \in on(i)
      BY <1>1, <3>2, <3>3
    <3> QED
      BY <1>3, <3>1, <3>3, <3>4
  <2> QED
    BY <2>1, <2>2
<1>5. ASSUME NEW i \in 0 .. n
      PROVE  Cardinality(Page(found, i * limit, limit)) = Cardinality(on(i))
  <2> DEFINE page == {found[k] : k \in on(i)}
             show == [k \in on(i) |-> found[k]]
  <2>1. IsFiniteSet(on(i))
    <3>1. IsFiniteSet(1 .. n)
      BY <1>1, FS_Interval
    <3> QED
      BY <3>1, FS_Intersection
  <2>2. show \in Bijection(on(i), page)
    BY <1>2 DEF Bijection, Injection, Surjection, IsInjective
  <2>3. Cardinality(page) = Cardinality(on(i))
    BY <2>1, <2>2, FS_Bijection DEF ExistsBijection
  <2>4. Page(found, i * limit, limit) = page
    <3>1. i \in Nat
      BY <1>1
    <3> QED
      BY <1>3, <3>1
  <2> QED
    BY <2>3, <2>4
<1> QED
  BY <1>4, <1>5 DEF PagesHold, n

-----------------------------------------------------------------------------
(* What the pages of a query rest on: the indexes, and that only so many   *)
(* calls were made.                                                        *)
QueryInv == TypeOK /\ ListedOnce /\ IndexesAreDense /\ IsFiniteSet(Uploaded)

LEMMA UploadsAreFinite == Spec => []IsFiniteSet(Uploaded)
<1>1. Init => IsFiniteSet(Uploaded)
  <2>1. Init => Uploaded = {}
    BY DEF Init, Uploaded
  <2> QED
    BY <2>1, FS_EmptySet
<1>2. TypeOK /\ IsFiniteSet(Uploaded) /\ [Next]_vars => IsFiniteSet(Uploaded)'
  <2> SUFFICES ASSUME TypeOK, IsFiniteSet(Uploaded), [Next]_vars
               PROVE  IsFiniteSet(Uploaded')
    OBVIOUS
  <2>1. \E p : Uploaded' \subseteq Uploaded \cup {p}
    <3> DEFINE goal == \E p : Uploaded' \subseteq Uploaded \cup {p}
    <3>1. ASSUME NEW p, \A r \in Hashes \ {p} : Protos'[r] = Protos[r]
          PROVE  goal
      BY <3>1 DEF Uploaded
    <3>2. Protos \in [Hashes -> Proto \cup {None}]
      BY DEF TypeOK, RegistryTypeOK
    <3> SUFFICES goal
      OBVIOUS
    <3> HIDE DEF goal
    <3>3. ASSUME NEW u \in Signers, NEW p \in Hashes, NEW refs \in SUBSET Hashes,
                 NEW c \in Categories, NEW ts \in TagLists, NEW cost \in Costs,
                 NEW asset \in Assets \cup {None},
                 Upload(u, p, refs, c, ts, asset, cost)
          PROVE  goal
      BY <3>1, <3>2, <3>3 DEF Upload
    <3>4. CASE Edits
      <4>1. ASSUME NEW u \in Signers, NEW p \in Hashes, NEW refs \in SUBSET Hashes,
                   NEW ts \in TagLists \cup {None}, NEW cost \in Costs,
                   NEW hasData \in BOOLEAN, Patch(u, p, cost, refs, ts, hasData)
            PROVE  goal
        BY <3>1, <3>2, <4>1 DEF Patch
      <4>2. ASSUME NEW u \in Signers, NEW p \in Hashes, NEW new \in Accounts,
                   Transfer(u, p, new)
            PROVE  goal
        BY <3>1, <3>2, <4>2 DEF Transfer
      <4>3. ASSUME NEW u \in Signers, NEW p \in Hashes, NEW m \in MetaKeyNames,
                   SetMetadata(u, p, m)
            PROVE  goal
        BY <3>1, <3>2, <4>3 DEF SetMetadata
      <4>4. ASSUME NEW u, NEW p, Detach(u, p) \/ FinalizeDetach(p)
            PROVE  goal
        BY <3>1, <4>4 DEF Detach, FinalizeDetach, registryVars
      <4> QED
        BY <3>4, <4>1, <4>2, <4>3, <4>4 DEF Edits
    <3>5. CASE Staking \/ AccountsStep \/ OnFinalize \/ UNCHANGED vars
      <4>1. UNCHANGED Protos
        BY <3>5 DEF Staking, Stake, Unstake, AccountsStep, OnFinalize,
                    registryVars, protosVars, vars
      <4> QED
        BY <3>1, <4>1
    <3> QED
      BY <3>3, <3>4, <3>5 DEF Next, Uploads
  <2> QED
    BY <2>1, FS_AddElement, FS_Subset
<1> QED
  BY <1>1, <1>2, TypeCorrect, PTL DEF Spec

LEMMA QueryInvariant == Spec => []QueryInv
BY TypeCorrect, ListsCorrect, IndexesDense, UploadsAreFinite, PTL DEF QueryInv

(* The tags of a query are known by their indexes. *)
LEMMA FilterIsScan ==
    ASSUME QueryInv, NEW q \in GetProtosParams, NEW p \in Hashes
    PROVE  FilterProto(q, p) <=>
             /\ p \in Uploaded
             /\ q.categories # {} => Protos[p].category \in q.categories
             /\ q.available # None => q.available = (Protos[p].include_cost # None)
             /\ {Tags[t] : t \in q.tags} \subseteq Protos[p].tags
<1>1. /\ q.available \in BOOLEAN \cup {None}
      /\ q.tags \subseteq TagNames
  BY DEF GetProtosParams
<1>2. p \in Uploaded => \A t \in q.tags : Tags[t] \in Protos[p].tags => Tags[t] # 0
  BY DEF QueryInv, IndexesAreDense
<1>3. (p \in Uploaded /\ \A t \in q.tags : Tags[t] # 0 /\ Tags[t] \in Protos[p].tags)
        <=> (p \in Uploaded /\ {Tags[t] : t \in q.tags} \subseteq Protos[p].tags)
  BY <1>2
<1>4. (q.available = None \/ (q.available <=> Protos[p].include_cost # None))
        <=> (q.available # None => q.available = (Protos[p].include_cost # None))
  BY <1>1
<1>5. p \in Uploaded <=> Protos[p] # None
  BY DEF Uploaded
<1> QED
  BY <1>3, <1>4, <1>5 DEF FilterProto

(* The list in which the query comes across p. *)
ListOf(q, p) == IF q.owner # None THEN q.owner ELSE Protos[p].category

(* A query comes across what a scan finds, and that once. *)
LEMMA PassingIsScan ==
    ASSUME QueryInv, NEW q \in GetProtosParams
    PROVE  Passing(q) = {<<ListOf(q, p), p, 1>> : p \in Scan(q)}
<1>1. /\ q.owner \in Accounts \cup {None}
      /\ q.categories \subseteq Categories
  BY DEF GetProtosParams
<1> DEFINE onOwners(x) == \E l \in {q.owner} \X Hashes : \E i \in 1 .. ProtosByOwner[l] :
                             x = <<l[1], l[2], i>>
           asked == IF q.categories = {} THEN Categories ELSE q.categories
           onCategories(x) == \E l \in asked \X Hashes : \E i \in 1 .. ProtosByCategory[l] :
                             x = <<l[1], l[2], i>>
<1>2. CASE q.owner # None
  <2>1. \A p \in Hashes : ProtosByOwner[<<q.owner, p>>] =
           IF p \in Uploaded /\ Protos[p].owner = q.owner THEN 1 ELSE 0
    BY <1>1, <1>2 DEF QueryInv, ListedOnce, Uploaded
  <2>2. \A x : x \in Places(q) <=> onOwners(x)
    BY <1>2 DEF Places
  <2>3. \A x : onOwners(x) <=> \E p \in Uploaded : Protos[p].owner = q.owner /\ x = <<q.owner, p, 1>>
    <3>1. ASSUME NEW x, onOwners(x)
          PROVE  \E p \in Uploaded : Protos[p].owner = q.owner /\ x = <<q.owner, p, 1>>
      <4>1. PICK p \in Hashes : \E i \in 1 .. ProtosByOwner[<<q.owner, p>>] : x = <<q.owner, p, i>>
        BY <3>1
      <4> QED
        BY <2>1, <4>1
    <3>2. ASSUME NEW x, NEW p \in Uploaded, Protos[p].owner = q.owner, x = <<q.owner, p, 1>>
          PROVE  onOwners(x)
      <4>1. p \in Hashes /\ 1 \in 1 .. ProtosByOwner[<<q.owner, p>>]
        BY <2>1, <3>2 DEF Uploaded
      <4> QED
        BY <3>2, <4>1
    <3> QED
      BY <3>1, <3>2
  <2> QED
    BY <1>2, <2>2, <2>3, FilterIsScan DEF Passing, Scan, ListOf, Uploaded
<1>3. CASE q.owner = None
  <2>1. \A c \in Categories, p \in Hashes : ProtosByCategory[<<c, p>>] =
           IF p \in Uploaded /\ Protos[p].category = c THEN 1 ELSE 0
    BY DEF QueryInv, ListedOnce, Uploaded
  <2>2. \A x : x \in Places(q) <=> onCategories(x)
    BY <1>3 DEF Places
  <2>3. \A p \in Uploaded : Protos[p].category \in Categories
    BY DEF QueryInv, TypeOK, RegistryTypeOK, Proto, Uploaded
  <2>4. \A x : onCategories(x) <=>
          \E p \in Uploaded : Protos[p].category \in asked /\ x = <<Protos[p].category, p, 1>>
    <3>1. ASSUME NEW x, onCategories(x)
          PROVE  \E p \in Uploaded : Protos[p].category \in asked /\ x = <<Protos[p].category, p, 1>>
      <4>1. PICK c \in asked, p \in Hashes : \E i \in 1 .. ProtosByCategory[<<c, p>>] : x = <<c, p, i>>
        BY <3>1
      <4> QED
        BY <1>1, <2>1, <4>1
    <3>2. ASSUME NEW x, NEW p \in Uploaded, Protos[p].category \in asked,
                 x = <<Protos[p].category, p, 1>>
          PROVE  onCategories(x)
      <4>1. p \in Hashes /\ 1 \in 1 .. ProtosByCategory[<<Protos[p].category, p>>]
        BY <2>1, <2>3, <3>2 DEF Uploaded
      <4> QED
        BY <3>2, <4>1
    <3> QED
      BY <3>1, <3>2
  <2>5. \A p \in Uploaded : Protos[p].category \in asked <=>
                               (q.categories # {} => Protos[p].category \in q.categories)
    BY <2>3
  <2> QED
    BY <1>3, <2>2, <2>4, <2>5, FilterIsScan DEF Passing, Scan, ListOf, Uploaded
<1> QED
  BY <1>2, <1>3

(* Whatever the order, the query finds each proto of the scan once. *)
LEMMA FoundIsScan ==
    ASSUME QueryInv, NEW q \in GetProtosParams, NEW found \in Found(q)
    PROVE  /\ IsFiniteSet(Scan(q))
           /\ found \in Bijection(1 .. Cardinality(Scan(q)), Scan(q))
<1> DEFINE place == [p \in Scan(q) |-> <<ListOf(q, p), p, 1>>]
<1>1. IsFiniteSet(Scan(q))
  <2>1. Scan(q) \in SUBSET Uploaded
    BY DEF Scan
  <2> QED
    BY <2>1, FS_Subset DEF QueryInv
<1>2. place \in Bijection(Scan(q), Passing(q))
  <2>1. /\ place \in [Scan(q) -> Passing(q)]
        /\ \A x \in Passing(q) : \E p \in Scan(q) : place[p] = x
    BY PassingIsScan
  <2>2. \A p, r \in Scan(q) : place[p] = place[r] => p = r
    OBVIOUS
  <2> HIDE DEF place
  <2> QED
    BY <2>1, <2>2 DEF Bijection, Injection, Surjection, IsInjective
<1>3. Cardinality(Passing(q)) = Cardinality(Scan(q))
  BY <1>1, <1>2, FS_Bijection DEF ExistsBijection
<1> DEFINE n == Cardinality(Scan(q))
<1>4. PICK order \in Bijection(1 .. n, Passing(q)) :
         found = [i \in DOMAIN order |-> order[i][2]]
  BY <1>3 DEF Found
<1> HIDE DEF n
<1>5. /\ order \in [1 .. n -> Passing(q)]
      /\ \A x \in Passing(q) : \E i \in 1 .. n : order[i] = x
      /\ \A i, j \in 1 .. n : order[i] = order[j] => i = j
  BY <1>4 DEF Bijection, Injection, Surjection, IsInjective
<1>6. \A x \in Passing(q) : x[2] \in Scan(q) /\ x = <<ListOf(q, x[2]), x[2], 1>>
  BY PassingIsScan
<1>7. \A p \in Scan(q) : place[p] \in Passing(q) /\ place[p][2] = p
  BY PassingIsScan
<1>8. found \in [1 .. n -> Scan(q)]
  BY <1>4, <1>5, <1>6
<1>9. \A i, j \in 1 .. n : found[i] = found[j] => i = j
  BY <1>4, <1>5, <1>6
<1>10. \A p \in Scan(q) : \E i \in 1 .. n : found[i] = p
  <2> SUFFICES ASSUME NEW p \in Scan(q)
               PROVE  \E i \in 1 .. n : found[i] = p
    OBVIOUS
  <2>1. PICK i \in 1 .. n : order[i] = place[p]
    BY <1>5, <1>7
  <2> QED
    BY <1>4, <1>5, <1>7, <2>1
<1> QED
  BY <1>1, <1>8, <1>9, <1>10 DEF n, Bijection, Injection, Surjection, IsInjective

(***************************************************************************)
(* The pages of a query, of any length, hold together what a scan of the   *)
(* registry finds, each proto on one page and each page as full as it can  *)
(* be.  (get_protos, filter_proto)                                         *)
(***************************************************************************)
PagesOfAnyLength ==
    \A q \in GetProtosParams : \A found \in Found(q), limit \in Nat \ {0} :
        PagesHold(found, limit, Scan(q))

THEOREM EveryPageHolds == Spec => []PagesOfAnyLength
<1>1. QueryInv => PagesOfAnyLength
  BY FoundIsScan, PagesOfAList DEF PagesOfAnyLength
<1> QED
  BY <1>1, QueryInvariant, PTL

(***************************************************************************)
(* A query finds what a scan of the registry finds, page by page, in every *)
(* order its indexes may have, as the run checks it.  (get_protos)         *)
(***************************************************************************)
THEOREM PagesComplete == Spec => []PagesFindAll
<1>1. QueryInv => PagesFindAll
  <2> SUFFICES ASSUME QueryInv, NEW q \in GetProtosParams, NEW found \in Found(q),
                      NEW limit \in 1 .. Cardinality(Scan(q)) + 1
               PROVE  PagesHold(found, limit, Scan(q))
    BY DEF PagesFindAll
  <2>1. IsFiniteSet(Scan(q)) /\ found \in Bijection(1 .. Cardinality(Scan(q)), Scan(q))
    BY FoundIsScan
  <2>2. limit \in Nat \ {0}
    BY <2>1, FS_CardinalityType
  <2> QED
    BY <2>1, <2>2, PagesOfAList
<1> QED
  BY <1>1, QueryInvariant, PTL

-----------------------------------------------------------------------------
(***************************************************************************)
(* What the other pallets rely on.  A request is of a proto that an        *)
(* account owns, and no account ever loses a proto to an asset: so a proto *)
(* that is detached, at any later time, has an owner.                      *)
(***************************************************************************)
RequestedAreOwned == \A p \in Requested : OwnerOf(p) # None

(* What the contract asks of a step. *)
ShownStep == Shown!RegistryNext \/ UNCHANGED Shown!registryVars

LEMMA OwnersStay ==
    ASSUME OwnTypeOK, SamePlaces \/ UNCHANGED Protos, NEW p \in Hashes
    PROVE  OwnerOf(p)' = OwnerOf(p)
BY DEF OwnerOf, SamePlaces

(* Nothing is shown of a step that leaves owners and detachments alone. *)
LEMMA UnseenStep ==
    ASSUME OwnTypeOK, RequestedAreOwned,
           \A p \in Hashes : OwnerOf(p)' = OwnerOf(p),
           UNCHANGED DetachedHashes,
           \A p \in Requested' \ Requested : OwnerOf(p) # None,
           Requested' \subseteq Hashes
    PROVE  RequestedAreOwned' /\ ShownStep
<1>1. UNCHANGED Shown!registryVars
  BY DEF Shown!registryVars
<1>2. \A p \in Requested' : OwnerOf(p)' # None
  BY DEF RequestedAreOwned
<1> QED
  BY <1>1, <1>2 DEF RequestedAreOwned, ShownStep

(* One proto gets an owner, or another one. *)
LEMMA OwnerStep ==
    ASSUME OwnTypeOK, RequestedAreOwned, NEW p \in Hashes, NEW u \in Accounts,
           OwnerOf(p)' = u,
           \A r \in Hashes \ {p} : OwnerOf(r)' = OwnerOf(r),
           OwnerOf(p) # None => p \notin DetachedHashes,
           UNCHANGED <<Requested, DetachedHashes>>
    PROVE  RequestedAreOwned' /\ ShownStep
<1> DEFINE owner == [r \in Hashes |-> OwnerOf(r)]
<1>1. owner' = [owner EXCEPT ![p] = u]
  OBVIOUS
<1>2. Shown!Claim(p, u) \/ Shown!PassOn(p, u)
  BY <1>1 DEF Shown!Claim, Shown!PassOn
<1>3. ShownStep
  BY <1>2 DEF ShownStep, Shown!RegistryNext
<1>4. \A r \in Requested : OwnerOf(r)' # None
  BY NoneIsNothing DEF RequestedAreOwned, OwnTypeOK, RegistryTypeOK
<1> QED
  BY <1>3, <1>4 DEF RequestedAreOwned

LEMMA UploadShown ==
    ASSUME OwnTypeOK, RequestedAreOwned,
           NEW u \in Signers, NEW p \in Hashes, NEW refs \in SUBSET Hashes,
           NEW c \in Categories, NEW ts \in TagLists, NEW cost \in Costs,
           NEW asset \in Assets \cup {None},
           Upload(u, p, refs, c, ts, asset, cost)
    PROVE  RequestedAreOwned' /\ ShownStep
<1>1. /\ Protos'[p] # None
      /\ Protos'[p].owner = IF asset # None THEN asset ELSE u
      /\ \A q \in Hashes \ {p} : Protos'[q] = Protos[q]
  <2>1. Protos'[p] \in Proto /\ \A q \in Hashes \ {p} : Protos'[q] = Protos[q]
    BY UploadType
  <2>2. Protos'[p].owner = IF asset # None THEN asset ELSE u
    BY UploadType
  <2> QED
    BY <2>1, <2>2, NoneIsNoRecord
<1>2. Protos[p] = None /\ UNCHANGED <<Requested, DetachedHashes>>
  BY DEF Upload, detachVars
<1>3. OwnerOf(p) = None /\ \A q \in Hashes \ {p} : OwnerOf(q)' = OwnerOf(q)
  BY <1>1, <1>2 DEF OwnerOf
<1>4. CASE asset = None
  <2>1. u \in Accounts /\ OwnerOf(p)' = u
    BY <1>1, <1>4, SignersAreAccounts DEF OwnerOf
  <2> QED
    BY <1>2, <1>3, <2>1, OwnerStep
<1>5. CASE asset # None
  <2>1. OwnerOf(p)' = None
    BY <1>1, <1>5, OwnersAreDistinct DEF OwnerOf
  <2>2. Requested' \subseteq Hashes
    BY <1>2 DEF OwnTypeOK, RegistryTypeOK
  <2> QED
    BY <1>2, <1>3, <2>1, <2>2, UnseenStep
<1> QED
  BY <1>4, <1>5

LEMMA TransferShown ==
    ASSUME OwnTypeOK, RequestedAreOwned,
           NEW u \in Signers, NEW p \in Hashes, NEW new \in Accounts,
           Transfer(u, p, new)
    PROVE  RequestedAreOwned' /\ ShownStep
<1>1. Protos[p] \in Proto
  BY DEF OwnTypeOK, RegistryTypeOK, Transfer, Editable
<1>2. Protos' = [Protos EXCEPT ![p] = [Protos[p] EXCEPT !.owner = new]]
  BY DEF OwnTypeOK, RegistryTypeOK, Transfer
<1>3. Protos'[p].owner = new /\ Protos'[p] # None
  BY <1>1, <1>2, TransferType DEF Proto, OwnTypeOK, RegistryTypeOK
<1>4. OwnerOf(p)' = new
  BY <1>3 DEF OwnerOf
<1>5. \A q \in Hashes \ {p} : OwnerOf(q)' = OwnerOf(q)
  BY <1>2 DEF OwnerOf, OwnTypeOK, RegistryTypeOK
<1>6. p \notin DetachedHashes /\ UNCHANGED <<Requested, DetachedHashes>>
  BY DEF Transfer, Editable, detachVars
<1> QED
  BY <1>4, <1>5, <1>6, OwnerStep

LEMMA FinalizeShown ==
    ASSUME OwnTypeOK, RequestedAreOwned, NEW p \in Hashes, FinalizeDetach(p)
    PROVE  RequestedAreOwned' /\ ShownStep
<1>1. UNCHANGED <<Protos, Requested>>
  BY DEF FinalizeDetach, registryVars
<1>2. \A q \in Hashes : OwnerOf(q)' = OwnerOf(q)
  BY <1>1 DEF OwnerOf
<1>3. OwnerOf(p) # None
  BY DEF FinalizeDetach, RequestedAreOwned
<1>4. Shown!Seal(p)
  BY <1>2, <1>3 DEF FinalizeDetach, Shown!Seal
<1>5. ShownStep
  BY <1>4 DEF ShownStep, Shown!RegistryNext
<1>6. Requested \subseteq Hashes
  BY DEF OwnTypeOK, RegistryTypeOK
<1> QED
  BY <1>1, <1>2, <1>5, <1>6 DEF RequestedAreOwned

(***************************************************************************)
(* The registry keeps its contract with the other pallets: a proto gets    *)
(* its first account once, changes hands only until it is detached, and is *)
(* detached for good; what an asset owns never has such an owner.          *)
(***************************************************************************)
THEOREM ImplementsRegistry == Spec => IsRegistry
<1>1. Init => RequestedAreOwned /\ Shown!RegistryInit
  BY DEF Init, RequestedAreOwned, Shown!RegistryInit, OwnerOf
<1>2. OwnTypeOK /\ RequestedAreOwned /\ [Next]_vars
        => RequestedAreOwned' /\ [Shown!RegistryNext]_(Shown!registryVars)
  <2> SUFFICES ASSUME OwnTypeOK, RequestedAreOwned, [Next]_vars
               PROVE  RequestedAreOwned' /\ ShownStep
    BY DEF ShownStep
  <2>1. CASE /\ SamePlaces \/ UNCHANGED Protos
             /\ UNCHANGED <<Requested, DetachedHashes>>
    <3>1. \A p \in Hashes : OwnerOf(p)' = OwnerOf(p)
      BY <2>1, OwnersStay
    <3>2. Requested \subseteq Hashes
      BY DEF OwnTypeOK, RegistryTypeOK
    <3> QED
      BY <2>1, <3>1, <3>2, UnseenStep
  <2>2. CASE Uploads
    BY <2>2, UploadShown DEF Uploads
  <2>3. CASE Edits
    <3>1. ASSUME NEW u \in Signers, NEW p \in Hashes, Detach(u, p)
          PROVE  RequestedAreOwned' /\ ShownStep
      <4>1. \A q \in Hashes : OwnerOf(q)' = OwnerOf(q)
        BY <3>1 DEF Detach, registryVars, OwnerOf
      <4>2. OwnerOf(p) # None
        BY <3>1, SignersAreAccounts, NoneIsNothing
        DEF Detach, Editable, OwnerOf
      <4>3. Requested' = Requested \cup {p} /\ UNCHANGED DetachedHashes
        BY <3>1 DEF Detach
      <4>4. Requested' \subseteq Hashes
        BY <4>3 DEF OwnTypeOK, RegistryTypeOK
      <4> QED
        BY <4>1, <4>2, <4>3, <4>4, UnseenStep
    <3>2. ASSUME NEW u \in Signers, NEW p \in Hashes, NEW cost \in Costs,
                 NEW refs \in SUBSET Hashes, NEW ts \in TagLists \cup {None},
                 NEW hasData \in BOOLEAN,
                 Patch(u, p, cost, refs, ts, hasData)
          PROVE  RequestedAreOwned' /\ ShownStep
      BY <2>1, <3>2, PatchType DEF Patch, detachVars
    <3>3. ASSUME NEW u \in Signers, NEW p \in Hashes, NEW m \in MetaKeyNames,
                 SetMetadata(u, p, m)
          PROVE  RequestedAreOwned' /\ ShownStep
      BY <2>1, <3>3, SetMetadataType DEF SetMetadata, detachVars
    <3> QED
      BY <2>3, <3>1, <3>2, <3>3, TransferShown, FinalizeShown DEF Edits
  <2>4. CASE Staking \/ AccountsStep \/ OnFinalize \/ UNCHANGED vars
    BY <2>1, <2>4 DEF Staking, Stake, Unstake, AccountsStep, OnFinalize,
                      registryVars, detachVars, protosVars, vars
  <2> QED
    BY <2>2, <2>3, <2>4 DEF Next
<1>3. TypeOK => OwnTypeOK
  BY DEF TypeOK, OwnTypeOK
<1> QED
  BY <1>1, <1>2, <1>3, TypeCorrect, PTL DEF Spec, IsRegistry, Shown!RegistrySpec

-----------------------------------------------------------------------------
(***************************************************************************)
(* The ledger of links, locks and stakes.  Its holders are the reverse map;*)
(* the forward map, by which a stake finds its key, is the inverse of it,  *)
(* and the usage counters, which might have cleared stakes, are 0.         *)
(***************************************************************************)
LedgerStep == [Books!LedgerNext]_(Books!ledgerVars)

LEMMA RangeOfAppend ==
    ASSUME NEW q \in Seq(Accounts), NEW u \in Accounts
    PROVE  Range(Append(q, u)) = Range(q) \cup {u}
<1>1. /\ Len(q) \in Nat
      /\ DOMAIN q = 1 .. Len(q)
      /\ DOMAIN Append(q, u) = 1 .. (Len(q) + 1)
      /\ \A i \in 1 .. Len(q) : Append(q, u)[i] = q[i]
      /\ Append(q, u)[Len(q) + 1] = u
  BY AppendProperties, LenProperties
<1> HIDE DEF Range
<1>2. \A i \in 1 .. (Len(q) + 1) : i \in 1 .. Len(q) \/ i = Len(q) + 1
  BY <1>1
<1>3. \A x : x \in Range(Append(q, u)) <=> x \in Range(q) \/ x = u
  BY <1>1, <1>2 DEF Range
<1> QED
  BY <1>3

(* unlink_account, as the ledger sees it. *)
LEMMA UnlinkShown ==
    ASSUME AccountsTypeOK, NEW u \in Accounts, NEW k \in EthKeys,
           UnlinkAccount(u, k)
    PROVE  Books!Part(u, k)
BY RangeOfAppend DEF UnlinkAccount, Books!Part, AccountsTypeOK

(* A log that reaches its quorum is counted, and no counter is slashed. *)
LEMMA CarryShown ==
    ASSUME TypeOK, UsageIsZero, NEW e \in Events, Open(e), Verified(e),
           Carry(e), UNCHANGED ProtoStakes
    PROVE  Books!Count(e)
<1> DEFINE u == EVMLinksReverse[e.sender]
<1>1. e.sender \in EthKeys /\ e.amount \in Nat
  BY LogFields
<1>2. AccountsTypeOK /\ u \in Accounts \cup {None}
  BY <1>1 DEF TypeOK, AccountsTypeOK
<1>3. CASE e.lock \/ u = None
  <2>1. UNCHANGED linkVars
    <3>1. u # None => FragUsage[u] \in {0, None}
      BY <1>2 DEF UsageIsZero
    <3>2. ~ (0 > e.amount)
      BY <1>1
    <3>3. ~ (u # None /\ FragUsage[u] # None /\ FragUsage[u] > e.amount)
      BY <3>1, <3>2
    <3> QED
      BY <1>3, <3>3 DEF Carry, ApplyLock, ApplyUnlock
  <2> QED
    BY <1>3, <2>1 DEF Carry, Open, Verified, Books!Count, linkVars, AmountOf
<1>4. CASE ~ e.lock /\ u # None
  <2>1. UnlinkAccount(u, e.sender)
    BY <1>4 DEF Carry, ApplyUnlock
  <2>2. Books!Part(u, e.sender)
    BY <1>1, <1>2, <1>4, <2>1, UnlinkShown
  <2> QED
    BY <1>4, <2>2 DEF Carry, Open, Verified, Books!Count, AmountOf
<1> QED
  BY <1>3, <1>4

LEMMA AccountsShown ==
    ASSUME TypeOK, LinksInverse, UsageIsZero, AccountsStep
    PROVE  LedgerStep
<1>1. UNCHANGED ProtoStakes
  BY DEF AccountsStep, protosVars
<1>2. ASSUME UNCHANGED <<linkVars, EthLockedFrag, EVMLinkVotingClosed>>
      PROVE  LedgerStep
  BY <1>1, <1>2 DEF LedgerStep, Books!ledgerVars, linkVars, AmountOf
<1>3. ASSUME NEW u \in Signers, NEW k \in EthKeys, Link(u, k)
      PROVE  LedgerStep
  <2>1. u \in Accounts /\ EVMLinks[u] = None /\ EVMLinksReverse[k] = None
    BY <1>3, SignersAreAccounts DEF Link, Linkable
  <2>2. \A l \in EthKeys : EVMLinksReverse[l] # u
    BY <2>1, NoneIsNothing DEF LinksInverse
  <2>3. Books!Tie(u, k)
    BY <1>1, <1>3, <2>1, <2>2 DEF Link, Books!Tie, voteVars, AmountOf
  <2> QED
    BY <2>1, <2>3 DEF LedgerStep, Books!LedgerNext
<1>4. ASSUME NEW u \in Signers, NEW k \in EthKeys, Unlink(u, k)
      PROVE  LedgerStep
  <2>1. u \in Accounts /\ UnlinkAccount(u, k) /\ AccountsTypeOK
    BY <1>4, SignersAreAccounts DEF Unlink, TypeOK
  <2>2. Books!Part(u, k)
    BY <2>1, UnlinkShown
  <2>3. Books!Untie(u, k)
    BY <1>1, <1>4, <2>2 DEF Unlink, Books!Untie, voteVars, AmountOf
  <2> QED
    BY <2>1, <2>3 DEF LedgerStep, Books!LedgerNext
<1>5. ASSUME NEW v \in Validators, NEW e \in Events, InternalLockUpdate(v, e)
      PROVE  LedgerStep
  <2>1. Open(e) /\ Verified(e) /\ (CountVote(e) \/ Carry(e))
    BY <1>5 DEF InternalLockUpdate
  <2>2. CASE CountVote(e)
    BY <1>2, <2>2 DEF CountVote
  <2>3. CASE Carry(e)
    BY <1>1, <2>1, <2>3, CarryShown DEF LedgerStep, Books!LedgerNext
  <2> QED
    BY <2>1, <2>2, <2>3
<1>6. ASSUME NEW v, AddKey(v) \/ DelKey(v)
      PROVE  LedgerStep
  BY <1>2, <1>6 DEF AddKey, DelKey, voteVars
<1>7. ASSUME NEW u, NEW x, SponsorAccount(u, x)
      PROVE  LedgerStep
  BY <1>2, <1>7 DEF SponsorAccount, voteVars
<1> QED
  BY <1>3, <1>4, <1>5, <1>6, <1>7 DEF AccountsStep, AccountsCall

LEMMA StakeShown ==
    ASSUME TypeOK, LinksInverse, UsageIsZero,
           NEW u \in Signers, NEW p \in Hashes, NEW n \in StakeAmounts,
           Stake(u, p, n)
    PROVE  LedgerStep
<1> DEFINE w == LockedFragAccount[u]
           k == EVMLinks[w]
<1>1. w \in Accounts
  BY LockedAccounts
<1>2. /\ k \in EthKeys /\ EthLockedFrag[k] \in Nat
      /\ FragUsage[w] = 0 /\ EthLockedFrag[k] >= FragUsage[w] + n
  BY <1>1 DEF Stake, StakeAllowed, TypeOK, AccountsTypeOK, UsageIsZero
<1>3. EVMLinksReverse[k] = w /\ EthLockedFrag[k] # None
      /\ n <= EthLockedFrag[k]
  <2>1. EVMLinksReverse[k] = w
    BY <1>1, <1>2 DEF LinksInverse
  <2>2. n \in Nat
    BY StakesAreNat
  <2> QED
    BY <1>2, <2>1, <2>2, NoneIsNothing
<1>4. /\ UNCHANGED accountsVars
      /\ ProtoStakes' = [ProtoStakes EXCEPT
                           ![<<p, w>>] = [amount |-> n, block |-> now]]
  BY DEF Stake
<1>5. [s \in Hashes \X Accounts |-> AmountOf(s)]'
        = [[s \in Hashes \X Accounts |-> AmountOf(s)] EXCEPT ![<<p, w>>] = n]
  <2> DEFINE x == [amount |-> n, block |-> now]
  <2>1. x # None /\ x.amount = n
    <3>1. x \in StakeData
      BY StakesAreNat DEF StakeData, TypeOK, StakesTypeOK
    <3> QED
      BY <3>1, NoneIsNoRecord
  <2>2. \A s \in Hashes \X Accounts :
          ProtoStakes'[s] = IF s = <<p, w>> THEN x ELSE ProtoStakes[s]
    BY <1>1, <1>4 DEF TypeOK, StakesTypeOK
  <2> HIDE DEF x, w
  <2>3. \A s \in Hashes \X Accounts :
          AmountOf(s)' = IF s = <<p, w>> THEN n ELSE AmountOf(s)
    BY <2>1, <2>2 DEF AmountOf
  <2> QED
    BY <2>3
<1> HIDE DEF w, k
<1>6. Books!Place(p, w, n)
  BY <1>2, <1>3, <1>4, <1>5 DEF Books!Place, accountsVars
<1> QED
  BY <1>1, <1>6 DEF LedgerStep, Books!LedgerNext

LEMMA UnstakeShown ==
    ASSUME TypeOK, LinksInverse, UsageOnlyIfLinked,
           NEW u \in Signers, NEW p \in Hashes, Unstake(u, p)
    PROVE  LedgerStep
<1>1. u \in Accounts
  BY SignersAreAccounts
<1>2. /\ UNCHANGED accountsVars
      /\ ProtoStakes[<<p, u>>] # None /\ FragUsage[u] # None
      /\ ProtoStakes' = [ProtoStakes EXCEPT ![<<p, u>>] = None]
  BY DEF Unstake
<1>3. EVMLinks[u] \in EthKeys /\ EVMLinksReverse[EVMLinks[u]] = u
  BY <1>1, <1>2
  DEF TypeOK, AccountsTypeOK, UsageOnlyIfLinked, LinksInverse
<1>4. AmountOf(<<p, u>>) # None
  <2>1. ProtoStakes[<<p, u>>] \in StakeData
    BY <1>1, <1>2 DEF TypeOK, StakesTypeOK
  <2>2. ProtoStakes[<<p, u>>].amount \in Nat
    BY <2>1 DEF StakeData
  <2> QED
    BY <1>2, <2>2, NoneIsNothing DEF AmountOf
<1>5. \A s \in Hashes \X Accounts :
        AmountOf(s)' = IF s = <<p, u>> THEN None ELSE AmountOf(s)
  BY <1>1, <1>2 DEF TypeOK, StakesTypeOK, AmountOf
<1>6. Books!Withdraw(p, u)
  <2>1. [s \in Hashes \X Accounts |-> AmountOf(s)]'
          = [[s \in Hashes \X Accounts |-> AmountOf(s)]
               EXCEPT ![<<p, u>>] = None]
    BY <1>5
  <2>2. [s \in Hashes \X Accounts |-> AmountOf(s)][<<p, u>>] # None
    BY <1>1, <1>4
  <2> QED
    BY <1>2, <1>3, <2>1, <2>2 DEF Books!Withdraw, accountsVars
<1> QED
  BY <1>1, <1>6 DEF LedgerStep, Books!LedgerNext

LEMMA BlockEndShown ==
    ASSUME TypeOK, StakesAreListed, OnFinalize
    PROVE  LedgerStep
<1> DEFINE gone == Range(PendingUnlinks)
<1>1. ASSUME NEW s \in Hashes \X Accounts
      PROVE  ProtoStakes'[s] = IF s[2] \in gone THEN None ELSE ProtoStakes[s]
  <2>1. ProtoStakes'[s] = IF s[2] \in gone /\ s[1] \in AccountStakes[s[2]]
                          THEN None ELSE ProtoStakes[s]
    BY DEF OnFinalize, Drained
  <2>2. s[1] \notin AccountStakes[s[2]] => ProtoStakes[s] = None
    <3>1. s[1] \in Hashes /\ s[2] \in Accounts /\ s = <<s[1], s[2]>>
      OBVIOUS
    <3> QED
      BY <3>1 DEF StakesAreListed
  <2> QED
    BY <2>1, <2>2
<1> HIDE DEF gone
<1>2. \A s \in Hashes \X Accounts :
        AmountOf(s)' = IF s[2] \in gone THEN None ELSE AmountOf(s)
  BY <1>1 DEF AmountOf
<1>3. [s \in Hashes \X Accounts |-> AmountOf(s)]'
        = [s \in Hashes \X Accounts |->
             IF s[2] \in gone THEN None
             ELSE [r \in Hashes \X Accounts |-> AmountOf(r)][s]]
  BY <1>2
<1>4. Range(PendingUnlinks)' = {}
  BY DEF OnFinalize, Range
<1>5. Books!Close
  BY <1>3, <1>4 DEF OnFinalize, Books!Close, voteVars, gone
<1> QED
  BY <1>5 DEF LedgerStep, Books!LedgerNext

(***************************************************************************)
(* Both pallets keep one ledger: what an account staked, its key had       *)
(* locked, and stakes go only by the holder of a key or at the end of a    *)
(* block in which their account lost one.                                  *)
(***************************************************************************)
THEOREM ImplementsLedger == Spec => IsLedger
<1>1. Init => Books!LedgerInit
  <2>1. Range(<<>>) = {}
    BY DEF Range
  <2> QED
    BY <2>1 DEF Init, AccountsInit, Books!LedgerInit, AmountOf
<1>2. TypeOK /\ LinksOK /\ UsageIsZero /\ StakesAreListed /\ [Next]_vars
        => [Books!LedgerNext]_(Books!ledgerVars)
  <2> SUFFICES ASSUME TypeOK, LinksInverse, UsageOnlyIfLinked, UsageIsZero,
                      StakesAreListed, [Next]_vars
               PROVE  LedgerStep
    BY DEF LedgerStep, LinksOK
  <2>1. CASE Uploads \/ Edits \/ UNCHANGED vars
    <3>1. UNCHANGED <<accountsVars, ProtoStakes>>
      BY <2>1, RegistryKeepsStakes DEF vars, protosVars
    <3> QED
      BY <3>1 DEF LedgerStep, Books!ledgerVars, accountsVars, AmountOf
  <2>2. CASE Staking
    BY <2>2, StakeShown, UnstakeShown DEF Staking
  <2>3. CASE AccountsStep
    BY <2>3, AccountsShown
  <2>4. CASE OnFinalize
    BY <2>4, BlockEndShown
  <2> QED
    BY <2>1, <2>2, <2>3, <2>4 DEF Next
<1>3. Spec => [](LinksOK /\ UsageIsZero)
  BY ImplementsAccounts, LinksInvariant, UsageStaysZero, PTL
<1> QED
  BY <1>1, <1>2, <1>3, TypeCorrect, StakesListed, PTL
  DEF Spec, IsLedger, Books!LedgerSpec

=============================================================================
