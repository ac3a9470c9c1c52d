--------------------------- MODULE AccountsProofs ---------------------------
(***************************************************************************)
(* The safety invariants of the accounts pallet, proved for any set of     *)
(* accounts, keys, logs and validators and for any threshold.              *)
(***************************************************************************)
EXTENDS Accounts, FiniteSetTheorems, TLAPS

(* What the fields of a log are. *)
LEMMA LogFields ==
    ASSUME NEW e \in Events
    PROVE  /\ e.sender \in EthKeys
           /\ e.amount \in Nat
           /\ e.lock \in BOOLEAN
BY EventsAreLogs DEF EthLockUpdate

(* The updates of the links and of the queue, one lemma for the calls and *)
(* the votes that make them.                                              *)
LinksTypeOK ==
    /\ EVMLinks \in [Accounts -> EthKeys \cup {None}]
    /\ EVMLinksReverse \in [EthKeys -> Accounts \cup {None}]
    /\ FragUsage \in [Accounts -> Nat \cup {None}]
    /\ PendingUnlinks \in Seq(Accounts)

LEMMA UnlinkAccountType ==
    ASSUME LinksTypeOK, NEW u \in Accounts, NEW k \in EthKeys,
           UnlinkAccount(u, k)
    PROVE  LinksTypeOK'
BY DEF LinksTypeOK, UnlinkAccount

LEMMA ApplyType ==
    ASSUME LinksTypeOK, NEW e \in Events,
           IF e.lock THEN ApplyLock(e) ELSE ApplyUnlock(e)
    PROVE  LinksTypeOK'
<1>1. e.sender \in EthKeys
  BY LogFields
<1>2. EVMLinksReverse[e.sender] \in Accounts \cup {None}
  BY <1>1 DEF LinksTypeOK
<1>3. CASE e.lock
  <2>1. ApplyLock(e)
    BY <1>3
  <2> DEFINE u == EVMLinksReverse[e.sender]
  <2>2. CASE u # None /\ FragUsage[u] # None /\ FragUsage[u] > e.amount
    <3>1. /\ FragUsage' = [FragUsage EXCEPT ![u] = None]
          /\ PendingUnlinks' = Append(PendingUnlinks, u)
          /\ UNCHANGED <<EVMLinks, EVMLinksReverse>>
      BY <2>1, <2>2 DEF ApplyLock
    <3> QED
      BY <1>2, <2>2, <3>1 DEF LinksTypeOK
  <2>3. CASE ~ (u # None /\ FragUsage[u] # None /\ FragUsage[u] > e.amount)
    <3>1. UNCHANGED linkVars
      BY <2>1, <2>3 DEF ApplyLock
    <3> QED
      BY <3>1 DEF LinksTypeOK, linkVars
  <2> QED
    BY <2>2, <2>3
<1>4. CASE ~ e.lock
  <2>1. ApplyUnlock(e)
    BY <1>4
  <2>2. CASE EVMLinksReverse[e.sender] = None
    BY <2>1, <2>2 DEF LinksTypeOK, ApplyUnlock, linkVars
  <2>3. CASE EVMLinksReverse[e.sender] # None
    BY <1>1, <1>2, <2>1, <2>3, UnlinkAccountType DEF ApplyUnlock
  <2> QED
    BY <2>2, <2>3
<1> QED
  BY <1>3, <1>4

-----------------------------------------------------------------------------
(* The storage maps of the accounts pallet hold values of their types,     *)
(* whatever calls, votes and ends of block there were.                     *)
THEOREM AccountsTypeCorrect == AccountsSpec => []AccountsTypeOK
<1>1. AccountsInit => AccountsTypeOK
  BY NoneIsNothing DEF AccountsInit, AccountsTypeOK
<1>2. AccountsTypeOK /\ [AccountsNext]_accountsVars => AccountsTypeOK'
  <2> SUFFICES ASSUME AccountsTypeOK, [AccountsNext]_accountsVars
               PROVE  AccountsTypeOK'
    OBVIOUS
  <2> USE SignersAreAccounts
  <2>0. LinksTypeOK
    BY DEF AccountsTypeOK, LinksTypeOK
  <2>1. ASSUME NEW v \in Validators, AddKey(v) \/ DelKey(v)
        PROVE  AccountsTypeOK'
    BY <2>1 DEF AccountsTypeOK, AddKey, DelKey, linkVars, voteVars,
                sponsorVars
  <2>2. ASSUME NEW u \in Signers, NEW k \in EthKeys, Link(u, k)
        PROVE  AccountsTypeOK'
    BY <2>2 DEF AccountsTypeOK, Link, voteVars, sponsorVars
  <2>3. ASSUME NEW u \in Signers, NEW k \in EthKeys, Unlink(u, k)
        PROVE  AccountsTypeOK'
    BY <2>3 DEF AccountsTypeOK, Unlink, UnlinkAccount, voteVars, sponsorVars
  <2>4. ASSUME NEW v \in Validators, NEW e \in Events,
               InternalLockUpdate(v, e)
        PROVE  AccountsTypeOK'
    <3>1. CASE CountVote(e)
      BY <2>4, <3>1 DEF AccountsTypeOK, InternalLockUpdate, CountVote,
                        linkVars, sponsorVars
    <3>2. CASE Carry(e)
      <4>1. LinksTypeOK'
        BY <2>0, <3>2, ApplyType DEF Carry
      <4>2. EthLockedFrag' \in [EthKeys -> Nat \cup {None}]
        BY <3>2, LogFields DEF AccountsTypeOK, Carry
      <4>3. /\ EVMLinkVoting' \in [Events -> Nat]
            /\ EVMLinkVotingClosed' \subseteq Events
            /\ ballots' \in [Events -> Nat]
            /\ applied' \in [Events -> Nat]
        BY <3>2 DEF AccountsTypeOK, Carry
      <4>4. UNCHANGED <<FragKeys, Proxies, Reserved, ExternalID2Account>>
        BY <2>4 DEF InternalLockUpdate, sponsorVars
      <4> QED
        BY <4>1, <4>2, <4>3, <4>4 DEF AccountsTypeOK, LinksTypeOK
    <3> QED
      BY <2>4, <3>1, <3>2 DEF InternalLockUpdate
  <2>5. ASSUME NEW u \in Signers, NEW x \in ExternalIDs,
               SponsorAccount(u, x)
        PROVE  AccountsTypeOK'
    BY <2>5 DEF AccountsTypeOK, SponsorAccount, linkVars, voteVars
  <2>6. CASE TakePendingUnlinks
    BY <2>6 DEF AccountsTypeOK, TakePendingUnlinks, voteVars, sponsorVars
  <2>7. CASE UNCHANGED accountsVars
    BY <2>7 DEF AccountsTypeOK, accountsVars
  <2> QED
    BY <2>1, <2>2, <2>3, <2>4, <2>5, <2>6, <2>7
    DEF AccountsNext, AccountsCall
<1> QED
  BY <1>1, <1>2, PTL DEF AccountsSpec

-----------------------------------------------------------------------------
(***************************************************************************)
(* The links.  Both invariants are inductive given the types; all the      *)
(* steps that change a link are Link and UnlinkAccount.                    *)
(***************************************************************************)

(***************************************************************************)
(* Only a linked account has a usage counter, whichever of link, unlink,   *)
(* a slash and a forced unlink came last.  (FragUsage)                     *)
(***************************************************************************)
UsageOnlyIfLinked ==
    \A u \in Accounts : FragUsage[u] # None => EVMLinks[u] # None

LinksOK == LinksInverse /\ UsageOnlyIfLinked

LEMMA UnlinkAccountLinks ==
    ASSUME LinksTypeOK, LinksOK,
           NEW u \in Accounts, NEW k \in EthKeys, UnlinkAccount(u, k)
    PROVE  LinksOK'
<1>1. LinksInverse'
  BY NoneIsNothing
  DEF LinksTypeOK, LinksOK, LinksInverse, UnlinkAccount
<1>2. UsageOnlyIfLinked'
  BY DEF LinksTypeOK, LinksOK, UsageOnlyIfLinked, UnlinkAccount
<1> QED
  BY <1>1, <1>2 DEF LinksOK

LEMMA ApplyLinks ==
    ASSUME LinksTypeOK, LinksOK, NEW e \in Events,
           IF e.lock THEN ApplyLock(e) ELSE ApplyUnlock(e)
    PROVE  LinksOK'
<1> DEFINE u == EVMLinksReverse[e.sender]
<1>1. e.sender \in EthKeys /\ u \in Accounts \cup {None}
  BY LogFields DEF LinksTypeOK
<1>2. CASE UNCHANGED linkVars
  BY <1>2 DEF LinksOK, LinksInverse, UsageOnlyIfLinked, linkVars
<1>3. CASE /\ u # None
           /\ FragUsage' = [FragUsage EXCEPT ![u] = None]
           /\ UNCHANGED <<EVMLinks, EVMLinksReverse>>
  BY <1>1, <1>3
  DEF LinksTypeOK, LinksOK, LinksInverse, UsageOnlyIfLinked
<1>4. CASE u # None /\ UnlinkAccount(u, e.sender)
  BY <1>1, <1>4, UnlinkAccountLinks
<1> QED
  BY <1>2, <1>3, <1>4 DEF ApplyLock, ApplyUnlock

(* Links and usage counters agree in every reachable state.                *)
LEMMA LinksInvariant == AccountsSpec => []LinksOK
<1>1. AccountsInit => LinksOK
  BY NoneIsNothing
  DEF AccountsInit, LinksOK, LinksInverse, UsageOnlyIfLinked
<1>2. AccountsTypeOK /\ LinksOK /\ [AccountsNext]_accountsVars => LinksOK'
  <2> SUFFICES ASSUME AccountsTypeOK, LinksOK, [AccountsNext]_accountsVars
               PROVE  LinksOK'
    OBVIOUS
  <2>0. LinksTypeOK
    BY DEF AccountsTypeOK, LinksTypeOK
  <2>1. CASE UNCHANGED <<EVMLinks, EVMLinksReverse, FragUsage>>
    BY <2>1 DEF LinksOK, LinksInverse, UsageOnlyIfLinked
  <2>2. ASSUME NEW u \in Signers, NEW k \in EthKeys, Link(u, k)
        PROVE  LinksOK'
    <3>1. u \in Accounts
      BY SignersAreAccounts
    <3>2. LinksInverse'
      BY <2>0, <2>2, <3>1, NoneIsNothing
      DEF LinksTypeOK, LinksOK, LinksInverse, Link, Linkable
    <3>3. UsageOnlyIfLinked'
      BY <2>0, <2>2, <3>1, NoneIsNothing
      DEF LinksTypeOK, LinksOK, UsageOnlyIfLinked, Link
    <3> QED
      BY <3>2, <3>3 DEF LinksOK
  <2>3. ASSUME NEW u \in Signers, NEW k \in EthKeys, Unlink(u, k)
        PROVE  LinksOK'
    BY <2>0, <2>3, SignersAreAccounts, UnlinkAccountLinks DEF Unlink
  <2>4. ASSUME NEW v \in Validators, NEW e \in Events,
               InternalLockUpdate(v, e)
        PROVE  LinksOK'
    <3>1. CASE CountVote(e)
      BY <2>1, <3>1 DEF CountVote, linkVars
    <3>2. CASE Carry(e)
      BY <2>0, <3>2, ApplyLinks DEF Carry
    <3> QED
      BY <2>4, <3>1, <3>2 DEF InternalLockUpdate
  <2> QED
    BY <2>1, <2>2, <2>3, <2>4
    DEF AccountsNext, AccountsCall, AddKey, DelKey, SponsorAccount,
        TakePendingUnlinks, linkVars, accountsVars
<1> QED
  BY <1>1, <1>2, AccountsTypeCorrect, PTL DEF AccountsSpec

(* Links are one to one, through links, unlinks and carried unlocks.       *)
THEOREM LinksCorrect == AccountsSpec => []LinksInverse
BY LinksInvariant, PTL DEF LinksOK

(* Only a linked account has a usage counter.                              *)
THEOREM UsageNeedsLink == AccountsSpec => []UsageOnlyIfLinked
BY LinksInvariant, PTL DEF LinksOK

-----------------------------------------------------------------------------
(***************************************************************************)
(* The votes.  EffectNeedsQuorum counts the accepted votes of an open log  *)
(* in EVMLinkVoting, which is what makes it inductive.                     *)
(***************************************************************************)

VotesOK == EffectNeedsQuorum /\ LockedComesFromLogs

(* The votes and the locked amounts agree in every reachable state.        *)
LEMMA VotesInvariant == AccountsSpec => []VotesOK
<1>1. AccountsInit => VotesOK
  BY DEF AccountsInit, VotesOK, EffectNeedsQuorum, LockedComesFromLogs
<1>2. AccountsTypeOK /\ VotesOK /\ [AccountsNext]_accountsVars => VotesOK'
  <2> SUFFICES ASSUME AccountsTypeOK, VotesOK, [AccountsNext]_accountsVars
               PROVE  VotesOK'
    OBVIOUS
  <2>1. CASE UNCHANGED voteVars
    BY <2>1 DEF VotesOK, EffectNeedsQuorum, LockedComesFromLogs, voteVars
  <2>2. ASSUME NEW v \in Validators, NEW e \in Events,
               InternalLockUpdate(v, e)
        PROVE  VotesOK'
    <3>1. e \notin EVMLinkVotingClosed
      BY <2>2 DEF InternalLockUpdate, Open
    <3>2. CASE CountVote(e)
      <4>1. EffectNeedsQuorum'
        BY <3>1, <3>2, ThresholdIsNat
        DEF AccountsTypeOK, VotesOK, EffectNeedsQuorum, CountVote
      <4>2. LockedComesFromLogs'
        BY <3>2 DEF VotesOK, LockedComesFromLogs, CountVote
      <4> QED
        BY <4>1, <4>2 DEF VotesOK
    <3>3. CASE Carry(e) /\ Quorum(e)
      <4>1. EffectNeedsQuorum'
        BY <3>1, <3>3, ThresholdIsNat
        DEF AccountsTypeOK, VotesOK, EffectNeedsQuorum, Carry, Quorum
      <4>2. LockedComesFromLogs'
        <5> SUFFICES ASSUME NEW k \in EthKeys
                     PROVE  LockedComesFromLogs!(k)'
          BY DEF LockedComesFromLogs
        <5> DEFINE Past(S) == {x \in S : x.sender = k}
        <5>0. /\ EVMLinkVotingClosed' = EVMLinkVotingClosed \cup {e}
              /\ EthLockedFrag'
                   = [EthLockedFrag EXCEPT ![e.sender] = e.amount]
          BY <3>3 DEF Carry
        <5>1. CASE k = e.sender
          <6>1. EthLockedFrag'[k] = e.amount
            BY <5>0, <5>1, LogFields DEF AccountsTypeOK
          <6>2. e \in Past(EVMLinkVotingClosed')
            BY <5>0, <5>1
          <6> QED
            BY <6>1, <6>2
        <5>2. CASE k # e.sender
          <6>1. EthLockedFrag'[k] = EthLockedFrag[k]
            BY <5>0, <5>2 DEF AccountsTypeOK
          <6>2. Past(EVMLinkVotingClosed') = Past(EVMLinkVotingClosed)
            BY <5>0, <5>2
          <6>3. IF Past(EVMLinkVotingClosed) = {}
                THEN EthLockedFrag[k] = None
                ELSE \E x \in Past(EVMLinkVotingClosed) :
                       EthLockedFrag[k] = x.amount
            BY DEF VotesOK, LockedComesFromLogs
          <6> QED
            BY <6>1, <6>2, <6>3
        <5> QED
          BY <5>1, <5>2
      <4> QED
        BY <4>1, <4>2 DEF VotesOK
    <3> QED
      BY <2>2, <3>2, <3>3 DEF InternalLockUpdate
  <2> QED
    BY <2>1, <2>2
    DEF AccountsNext, AccountsCall, AddKey, DelKey, Link, Unlink,
        SponsorAccount, TakePendingUnlinks, accountsVars, voteVars
<1> QED
  BY <1>1, <1>2, AccountsTypeCorrect, PTL DEF AccountsSpec

(* No log takes effect twice or short of its quorum.                       *)
THEOREM VotesCorrect == AccountsSpec => []EffectNeedsQuorum
BY VotesInvariant, PTL DEF VotesOK

(* What a key has locked is the amount of a log that took effect.          *)
THEOREM LockedIsLogged == AccountsSpec => []LockedComesFromLogs
BY VotesInvariant, PTL DEF VotesOK

-----------------------------------------------------------------------------
(***************************************************************************)
(* Sponsored accounts.  Proxies grows by one pair at a time, so it is      *)
(* finite, which the count of a sponsor's deposits needs.                  *)
(***************************************************************************)

DepositsOK == IsFiniteSet(Proxies) /\ DepositsMatchProxies

(* The accounts that u is the proxy of. *)
ProxiesOf(u) == {p \in Proxies : p[1] = u}

LEMMA SponsorDeposits ==
    ASSUME AccountsTypeOK, DepositsOK,
           NEW u \in Signers, NEW x \in ExternalIDs, SponsorAccount(u, x)
    PROVE  DepositsOK'
<1>1. <<u, x>> \notin Proxies /\ Proxies' = Proxies \cup {<<u, x>>}
  BY DEF SponsorAccount, NewProxy
<1>2. IsFiniteSet(Proxies')
  BY <1>1, FS_AddElement DEF DepositsOK
<1>3. ASSUME NEW w \in Accounts
      PROVE  Reserved'[w] = Cardinality(ProxiesOf(w)')
  <2>1. Reserved[w] = Cardinality(ProxiesOf(w)) /\ IsFiniteSet(ProxiesOf(w))
    BY FS_Subset DEF DepositsOK, DepositsMatchProxies, ProxiesOf
  <2>2. CASE w = u
    <3>1. ProxiesOf(w)' = ProxiesOf(w) \cup {<<u, x>>}
      BY <1>1, <2>2 DEF ProxiesOf
    <3>2. <<u, x>> \notin ProxiesOf(w)
      BY <1>1 DEF ProxiesOf
    <3>3. Cardinality(ProxiesOf(w)') = Cardinality(ProxiesOf(w)) + 1
      BY <2>1, <3>1, <3>2, FS_AddElement
    <3> QED
      BY <2>1, <2>2, <3>3 DEF AccountsTypeOK, SponsorAccount
  <2>3. CASE w # u
    <3>1. ProxiesOf(w)' = ProxiesOf(w)
      BY <1>1, <2>3 DEF ProxiesOf
    <3> QED
      BY <2>1, <2>3, <3>1 DEF AccountsTypeOK, SponsorAccount
  <2> QED
    BY <2>2, <2>3
<1>4. ASSUME NEW y \in ExternalIDs
      PROVE  \/ ExternalID2Account'[y] \in Proxies'
             \/ ExternalID2Account'[y] = None /\ \A p \in Proxies' : p[2] # y
  <2>1. CASE y = x
    BY <1>1, <2>1 DEF AccountsTypeOK, SponsorAccount
  <2>2. CASE y # x
    BY <1>1, <2>2
    DEF AccountsTypeOK, SponsorAccount, DepositsOK, DepositsMatchProxies
  <2> QED
    BY <2>1, <2>2
<1> QED
  BY <1>2, <1>3, <1>4 DEF DepositsOK, DepositsMatchProxies, ProxiesOf

(* Deposits and sponsored accounts match, however often an account is      *)
(* sponsored and by whomever.                                              *)
THEOREM DepositsCorrect == AccountsSpec => []DepositsMatchProxies
<1>1. AccountsInit => DepositsOK
  <2> SUFFICES ASSUME AccountsInit PROVE DepositsOK
    OBVIOUS
  <2>1. IsFiniteSet(Proxies)
    BY FS_EmptySet DEF AccountsInit
  <2>2. \A u \in Accounts : ProxiesOf(u) = {}
    BY DEF AccountsInit, ProxiesOf
  <2>3. \A u \in Accounts : Reserved[u] = Cardinality(ProxiesOf(u))
    BY <2>2, FS_EmptySet DEF AccountsInit
  <2> QED
    BY <2>1, <2>3
    DEF AccountsInit, DepositsOK, DepositsMatchProxies, ProxiesOf
<1>2. AccountsTypeOK /\ DepositsOK /\ [AccountsNext]_accountsVars
        => DepositsOK'
  <2> SUFFICES ASSUME AccountsTypeOK, DepositsOK,
                      [AccountsNext]_accountsVars
               PROVE  DepositsOK'
    OBVIOUS
  <2>1. CASE UNCHANGED sponsorVars
    BY <2>1 DEF DepositsOK, DepositsMatchProxies, sponsorVars
  <2> QED
    BY <2>1, SponsorDeposits
    DEF AccountsNext, AccountsCall, AddKey, DelKey, Link, Unlink,
        InternalLockUpdate, TakePendingUnlinks, accountsVars, sponsorVars
<1> QED
  BY <1>1, <1>2, AccountsTypeCorrect, PTL DEF AccountsSpec, DepositsOK

-----------------------------------------------------------------------------
(***************************************************************************)
(* The queue of unlinked accounts.                                         *)
(***************************************************************************)

(* What LossIsQueued asks of a step. *)
LossQueued ==
    /\ \A u \in Accounts :
         (FragUsage[u] # None /\ FragUsage'[u] = None)
           => PendingUnlinks' = Append(PendingUnlinks, u)
    /\ \A u \in Accounts :
         (EVMLinks[u] # None /\ EVMLinks'[u] # EVMLinks[u])
           => PendingUnlinks' = Append(PendingUnlinks, u)
    /\ Len(PendingUnlinks') < Len(PendingUnlinks) => PendingUnlinks' = <<>>

(* The queue is as it was, or one account longer. *)
QueueGrows ==
    \/ UNCHANGED PendingUnlinks
    \/ \E u \in Accounts : PendingUnlinks' = Append(PendingUnlinks, u)

LEMMA UnlinkAccountQueues ==
    ASSUME LinksTypeOK, NEW u \in Accounts, NEW k \in EthKeys,
           UnlinkAccount(u, k)
    PROVE  LossQueued /\ QueueGrows
BY DEF LinksTypeOK, UnlinkAccount, LossQueued, QueueGrows

LEMMA ApplyQueues ==
    ASSUME LinksTypeOK, NEW e \in Events,
           IF e.lock THEN ApplyLock(e) ELSE ApplyUnlock(e)
    PROVE  LossQueued /\ QueueGrows
<1> DEFINE u == EVMLinksReverse[e.sender]
<1>1. e.sender \in EthKeys /\ u \in Accounts \cup {None}
  BY LogFields DEF LinksTypeOK
<1>2. CASE UNCHANGED linkVars
  BY <1>2 DEF LinksTypeOK, LossQueued, QueueGrows, linkVars
<1>3. CASE /\ u # None
           /\ FragUsage' = [FragUsage EXCEPT ![u] = None]
           /\ PendingUnlinks' = Append(PendingUnlinks, u)
           /\ UNCHANGED <<EVMLinks, EVMLinksReverse>>
  BY <1>1, <1>3 DEF LinksTypeOK, LossQueued, QueueGrows
<1>4. CASE u # None /\ UnlinkAccount(u, e.sender)
  BY <1>1, <1>4, UnlinkAccountQueues
<1> QED
  BY <1>2, <1>3, <1>4 DEF ApplyLock, ApplyUnlock

LEMMA CallQueues ==
    ASSUME AccountsTypeOK, AccountsCall
    PROVE  LossQueued /\ QueueGrows
<1>0. LinksTypeOK
  BY DEF AccountsTypeOK, LinksTypeOK
<1>1. CASE UNCHANGED linkVars
  BY <1>0, <1>1 DEF LinksTypeOK, LossQueued, QueueGrows, linkVars
<1>2. ASSUME NEW u \in Signers, NEW k \in EthKeys, Link(u, k)
      PROVE  LossQueued /\ QueueGrows
  BY <1>0, <1>2, SignersAreAccounts, NoneIsNothing
  DEF LinksTypeOK, LossQueued, QueueGrows, Link, Linkable
<1>3. ASSUME NEW u \in Signers, NEW k \in EthKeys, Unlink(u, k)
      PROVE  LossQueued /\ QueueGrows
  BY <1>0, <1>3, SignersAreAccounts, UnlinkAccountQueues DEF Unlink
<1>4. ASSUME NEW v \in Validators, NEW e \in Events,
             InternalLockUpdate(v, e)
      PROVE  LossQueued /\ QueueGrows
  BY <1>0, <1>1, <1>4, ApplyQueues DEF InternalLockUpdate, CountVote, Carry
<1> QED
  BY <1>1, <1>2, <1>3, <1>4 DEF AccountsCall, AddKey, DelKey, SponsorAccount

(* No account loses its link or its counter without being queued.          *)
THEOREM LossesAreQueued == AccountsSpec => LossIsQueued
<1>1. AccountsTypeOK /\ [AccountsNext]_accountsVars
        => [LossQueued]_accountsVars
  <2> SUFFICES ASSUME AccountsTypeOK, AccountsNext
               PROVE  LossQueued
    OBVIOUS
  <2>1. CASE TakePendingUnlinks
    BY <2>1 DEF AccountsTypeOK, LossQueued, TakePendingUnlinks
  <2> QED
    BY <2>1, CallQueues DEF AccountsNext
<1> QED
  BY <1>1, AccountsTypeCorrect, PTL DEF AccountsSpec, LossIsQueued, LossQueued

-----------------------------------------------------------------------------
(***************************************************************************)
(* What becomes of the usage counters.  link sets one to 0, no call adds   *)
(* to it, and so the test of internal_lock_update that less is locked than *)
(* used never succeeds: an account's stakes are cleared with its link only.*)
(***************************************************************************)

UsageIsZero == \A u \in Accounts : FragUsage[u] \in {0, None}

(* sudo_as gives a derived account its signature, and link needs one. *)
LinkedAreSigners == \A u \in Accounts : EVMLinks[u] # None => u \in Signers

UsageOK == UsageIsZero /\ LinkedAreSigners

(* What a vote that carries may do to a link: nothing, or unlink. *)
LEMMA ZeroApply ==
    ASSUME LinksTypeOK, UsageIsZero, NEW e \in Events,
           IF e.lock THEN ApplyLock(e) ELSE ApplyUnlock(e)
    PROVE  \/ UNCHANGED linkVars
           \/ \E u \in Accounts, k \in EthKeys : UnlinkAccount(u, k)
<1> DEFINE u == EVMLinksReverse[e.sender]
<1>1. e.sender \in EthKeys /\ e.amount \in Nat /\ u \in Accounts \cup {None}
  BY LogFields DEF LinksTypeOK
<1>2. ~ (u # None /\ FragUsage[u] # None /\ FragUsage[u] > e.amount)
  <2>1. u # None => FragUsage[u] \in {0, None}
    BY <1>1 DEF UsageIsZero
  <2>2. ~ (0 > e.amount)
    BY <1>1
  <2> QED
    BY <2>1, <2>2
<1> QED
  BY <1>1, <1>2 DEF ApplyLock, ApplyUnlock

(* The steps that change a link or a counter: Link and UnlinkAccount. *)
LEMMA LinkSteps ==
    ASSUME AccountsTypeOK, UsageIsZero, [AccountsNext]_accountsVars
    PROVE  \/ UNCHANGED <<EVMLinks, FragUsage>>
           \/ \E u \in Signers, k \in EthKeys : Link(u, k)
           \/ \E u \in Accounts, k \in EthKeys : UnlinkAccount(u, k)
<1>1. LinksTypeOK
  BY DEF AccountsTypeOK, LinksTypeOK
<1>2. ASSUME NEW v \in Validators, NEW e \in Events,
             InternalLockUpdate(v, e)
      PROVE  \/ UNCHANGED <<EVMLinks, FragUsage>>
             \/ \E u \in Accounts, k \in EthKeys : UnlinkAccount(u, k)
  BY <1>1, <1>2, ZeroApply DEF InternalLockUpdate, CountVote, Carry, linkVars
<1>3. \A u \in Signers, k \in EthKeys :
        Unlink(u, k) => u \in Accounts /\ UnlinkAccount(u, k)
  BY SignersAreAccounts DEF Unlink
<1> QED
  BY <1>2, <1>3
  DEF AccountsNext, AccountsCall, AddKey, DelKey, SponsorAccount,
      TakePendingUnlinks, linkVars, accountsVars

LEMMA UsageInvariant == AccountsSpec => []UsageOK
<1>1. AccountsInit => UsageOK
  BY DEF AccountsInit, UsageOK, UsageIsZero, LinkedAreSigners
<1>2. AccountsTypeOK /\ UsageOK /\ [AccountsNext]_accountsVars => UsageOK'
  <2> SUFFICES ASSUME AccountsTypeOK, UsageOK, [AccountsNext]_accountsVars
               PROVE  UsageOK'
    OBVIOUS
  <2> USE DEF UsageOK, UsageIsZero, LinkedAreSigners
  <2>1. CASE UNCHANGED <<EVMLinks, FragUsage>>
    BY <2>1
  <2>2. ASSUME NEW u \in Signers, NEW k \in EthKeys, Link(u, k)
        PROVE  UsageOK'
    BY <2>2 DEF Link, AccountsTypeOK
  <2>3. ASSUME NEW u \in Accounts, NEW k \in EthKeys, UnlinkAccount(u, k)
        PROVE  UsageOK'
    BY <2>3 DEF UnlinkAccount, AccountsTypeOK
  <2> QED
    BY <2>1, <2>2, <2>3, LinkSteps
<1> QED
  BY <1>1, <1>2, AccountsTypeCorrect, PTL DEF AccountsSpec

(***************************************************************************)
(* The usage counter of a linked account is 0 for good, whatever it stakes:*)
(* the sums of stake and unstake are dropped.  (FragUsage)                 *)
(***************************************************************************)
THEOREM UsageStaysZero == AccountsSpec => []UsageIsZero
BY UsageInvariant, PTL DEF UsageOK

(***************************************************************************)
(* A lock of less than before never clears an account: it loses its usage  *)
(* counter, and is queued for the loss of its stakes, only together with   *)
(* its link.  (internal_lock_update, unlink_account)                       *)
(***************************************************************************)
LocksNeverSlash ==
    [][\A u \in Accounts :
         (FragUsage[u] # None /\ FragUsage'[u] = None)
           => EVMLinks[u] # None /\ EVMLinks'[u] = None]_accountsVars

THEOREM NoSlashing == AccountsSpec => LocksNeverSlash
<1> DEFINE Kept == \A u \in Accounts :
                     (FragUsage[u] # None /\ FragUsage'[u] = None)
                       => EVMLinks[u] # None /\ EVMLinks'[u] = None
<1>1. AccountsTypeOK /\ UsageOK /\ [AccountsNext]_accountsVars
        => [Kept]_accountsVars
  <2> SUFFICES ASSUME AccountsTypeOK, UsageOK, [AccountsNext]_accountsVars
               PROVE  Kept
    OBVIOUS
  <2>1. CASE UNCHANGED <<EVMLinks, FragUsage>>
    BY <2>1
  <2>2. ASSUME NEW v \in Signers, NEW k \in EthKeys, Link(v, k)
        PROVE  Kept
    BY <2>2, NoneIsNothing DEF Link, AccountsTypeOK
  <2>3. ASSUME NEW v \in Accounts, NEW k \in EthKeys, UnlinkAccount(v, k)
        PROVE  Kept
    BY <2>3, NoneIsNothing DEF UnlinkAccount, AccountsTypeOK
  <2> QED
    BY <2>1, <2>2, <2>3, LinkSteps DEF UsageOK
<1> QED
  BY <1>1, AccountsTypeCorrect, UsageInvariant, PTL
  DEF AccountsSpec, LocksNeverSlash

=============================================================================
