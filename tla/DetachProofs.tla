---------------------------- MODULE DetachProofs ----------------------------
(***************************************************************************)
(* Proofs about the detach pallet and its way through the nodes, for any   *)
(* protos, targets and nodes: every property that the run of Detach checks,*)
(* and what the other pallets and the other chains rely on.                *)
(***************************************************************************)
EXTENDS Detach, SequenceTheorems, TLAPS

LEMMA SeqMonotone ==
    ASSUME NEW S, NEW T, S \subseteq T, NEW s \in Seq(S)
    PROVE  s \in Seq(T)
BY ElementOfSeq, SeqDef

(* The requests on their way are requests that were made. *)
RequestsAsked ==
    /\ DetachRequests \in Seq(asked)
    /\ \A n \in Nodes : Index[n] \in Seq(asked)
    /\ \A n \in Nodes : Run[n] # None => Run[n].todo \in Seq(asked)

(* The transactions of a pool are messages for requests that were made. *)
Asked(m) == /\ [hash |-> m.hash, target |-> m.target] \in asked
            /\ m.target \in ValidTargets

PoolsAsked == \A n \in Nodes : \A m \in Pool[n] : Asked(m)

(* The nonces of target t up to k were all released. *)
Filled(t, k) ==
    \A j \in 1 .. k : \E m \in released : m.target = t /\ m.nonce = j

(* Whatever a worker read or put in a pool, however long ago, follows      *)
(* nonces that were all released.                                          *)
NoncesFilled ==
    /\ \A t \in Targets : Filled(t, DetachNonces[t])
    /\ \A n \in Nodes : Run[n] # None =>
         \A t \in Targets : Filled(t, Run[n].nonces[t])
    /\ \A n \in Nodes : \A m \in Pool[n] :
         m.nonce > 0 /\ Filled(m.target, m.nonce - 1)
    /\ \A m \in released : m.nonce > 0 /\ Filled(m.target, m.nonce)

-----------------------------------------------------------------------------
LEMMA InitType == Init => TypeOK
BY KeysAreOfNodes, NoneIsNoRecord, EmptySeq
DEF Init, TypeOK, DetachRequest, DetachInternalData

LEMMA StepType == TypeOK /\ [Next]_vars => TypeOK'
<1> SUFFICES ASSUME TypeOK, [Next]_vars PROVE TypeOK'
    OBVIOUS
<1> USE DEF TypeOK, keyVars, chainVars, nodeVars
<1>1. ASSUME NEW n \in Rotated,
             AddEthAuth(n) \/ DelEthAuth(n) \/ AddKey(n) \/ DelKey(n)
      PROVE  TypeOK'
  BY <1>1, KeysAreOfNodes DEF AddEthAuth, DelEthAuth, AddKey, DelKey
<1>2. ASSUME NEW p \in Hashes, NEW t \in Targets, Request(p, t)
      PROVE  TypeOK'
  <2> DEFINE r == [hash |-> p, target |-> t]
  <2>1. r \in DetachRequest
    BY DEF DetachRequest
  <2>2. Append(DetachRequests, r) \in Seq(DetachRequest)
    BY <2>1, AppendProperties
  <2> QED
    BY <1>2, <2>1, <2>2 DEF Request
<1>3. ASSUME OnFinalize PROVE TypeOK'
  BY <1>3, EmptySeq DEF OnFinalize
<1>4. ASSUME NEW n \in Nodes, NEW tx, InternalFinalizeDetach(n, tx)
      PROVE  TypeOK'
  <2>1. /\ tx \in DetachInternalData
        /\ tx.target \in Targets /\ tx.hash \in Hashes /\ tx.nonce \in Nat
    BY <1>4 DEF InternalFinalizeDetach, DetachInternalData
  <2>2. Export(tx) \in [target: Targets, nonce: Nat]
    BY <2>1 DEF Export
  <2>3. Pruned(tx) \in [Nodes -> SUBSET DetachInternalData]
    BY DEF Pruned
  <2> QED
    BY <1>4, <2>1, <2>2, <2>3 DEF InternalFinalizeDetach
<1>5. ASSUME NEW n \in Nodes, StartRun(n) PROVE TypeOK'
  <2>1. [seen |-> Index[n], todo |-> Index[n], nonces |-> DetachNonces,
         authority |-> n \in EthereumAuthorities] \in Reading
    BY DEF Reading
  <2> QED
    BY <1>5, <2>1 DEF StartRun
<1>6. ASSUME NEW n \in Nodes, ProcessRequest(n) PROVE TypeOK'
  <2>1. PICK r \in Reading : Run[n] = r /\ r.todo # <<>>
    BY <1>6 DEF ProcessRequest
  <2>2. Tail(r.todo) \in Seq(DetachRequest) /\ Head(r.todo) \in DetachRequest
    BY <2>1, HeadTailProperties DEF Reading
  <2>3. DoneWithHead(n) \in [Nodes -> Reading \cup {None}]
    <3>1. [r EXCEPT !.todo = Tail(@)] \in Reading
      BY <2>1, <2>2 DEF Reading
    <3> QED
      BY <2>1, <3>1 DEF DoneWithHead
  <2>4. Message(n) \in DetachInternalData
    <3>1. r.nonces \in [Targets -> Nat]
      BY <2>1 DEF Reading
    <3> QED
      BY <2>1, <2>2, <3>1
      DEF Message, NextNonce, DetachRequest, DetachInternalData
  <2>5. CASE PassOver(n)
    BY <1>6, <2>3, <2>5 DEF ProcessRequest, PassOver
  <2>6. CASE GiveUp(n)
    BY <1>6, <2>6 DEF ProcessRequest, GiveUp
  <2>7. CASE Send(n)
    BY <1>6, <2>3, <2>4, <2>7 DEF ProcessRequest, Send
  <2> QED
    BY <1>6, <2>5, <2>6, <2>7 DEF ProcessRequest
<1>7. ASSUME NEW n \in Nodes, EndRun(n) PROVE TypeOK'
  <2>1. Cleared(n) \in [Nodes -> Seq(DetachRequest)]
    BY EmptySeq DEF Cleared
  <2> QED
    BY <1>7, <2>1 DEF EndRun
<1>8. ASSUME NEW n \in Nodes, Restart(n) PROVE TypeOK'
  BY <1>8 DEF Restart
<1>9. CASE UNCHANGED vars
  BY <1>9 DEF vars
<1> QED
  BY <1>1, <1>2, <1>3, <1>4, <1>5, <1>6, <1>7, <1>8, <1>9
  DEF Next, Root, Chain, Worker

(* Storage and workers hold values of their types. *)
THEOREM TypeCorrect == Spec => []TypeOK
<1>1. Init => TypeOK
  BY InitType
<1>2. TypeOK /\ [Next]_vars => TypeOK'
  BY StepType
<1> QED
  BY <1>1, <1>2, PTL DEF Spec

-----------------------------------------------------------------------------
(***************************************************************************)
(* A signature that the chain shows is for a request that its owner made,  *)
(* to the target that the owner named, and to an account that exists,      *)
(* whichever nodes crashed, restarted or lagged behind on the way.         *)
(* (detach, on_finalize, process_detach_requests)                          *)
(***************************************************************************)
ReleasedWasAsked ==
    \A m \in released :
        /\ [hash |-> m.hash, target |-> m.target] \in asked
        /\ m.target \in ValidTargets

AskedInv == RequestsAsked /\ PoolsAsked /\ ReleasedWasAsked

LEMMA InitAsked == Init => AskedInv
BY EmptySeq
DEF Init, AskedInv, RequestsAsked, PoolsAsked, ReleasedWasAsked

LEMMA StepAsked == TypeOK /\ AskedInv /\ [Next]_vars => AskedInv'
<1> SUFFICES ASSUME TypeOK, AskedInv, [Next]_vars PROVE AskedInv'
    OBVIOUS
<1> USE DEF AskedInv, RequestsAsked, PoolsAsked, ReleasedWasAsked, Asked,
            keyVars, chainVars, nodeVars
<1>1. ASSUME NEW n \in Rotated,
             AddEthAuth(n) \/ DelEthAuth(n) \/ AddKey(n) \/ DelKey(n)
      PROVE  AskedInv'
  BY <1>1 DEF AddEthAuth, DelEthAuth, AddKey, DelKey
<1>2. ASSUME NEW p \in Hashes, NEW t \in Targets, Request(p, t)
      PROVE  AskedInv'
  <2> DEFINE r == [hash |-> p, target |-> t]
  <2>1. asked \subseteq asked' /\ r \in asked'
    BY <1>2 DEF Request
  <2>2. DetachRequests \in Seq(asked')
    BY <2>1, SeqMonotone
  <2>3. DetachRequests' \in Seq(asked')
    BY <1>2, <2>1, <2>2, AppendProperties DEF Request
  <2>4. \A n \in Nodes : Index'[n] \in Seq(asked')
    BY <1>2, <2>1, SeqMonotone DEF Request
  <2>5. \A n \in Nodes : Run'[n] # None => Run'[n].todo \in Seq(asked')
    BY <1>2, <2>1, SeqMonotone DEF Request
  <2>6. PoolsAsked' /\ ReleasedWasAsked'
    BY <1>2, <2>1 DEF Request
  <2> QED
    BY <2>3, <2>4, <2>5, <2>6
<1>3. ASSUME OnFinalize PROVE AskedInv'
  BY <1>3, EmptySeq DEF OnFinalize
<1>4. ASSUME NEW n \in Nodes, NEW tx, InternalFinalizeDetach(n, tx)
      PROVE  AskedInv'
  <2>1. Asked(tx)
    BY <1>4 DEF InternalFinalizeDetach
  <2>2. PoolsAsked'
    BY <1>4 DEF InternalFinalizeDetach, Pruned
  <2> QED
    BY <1>4, <2>1, <2>2 DEF InternalFinalizeDetach
<1>5. ASSUME NEW n \in Nodes, StartRun(n) PROVE AskedInv'
  BY <1>5 DEF StartRun, TypeOK
<1>6. ASSUME NEW n \in Nodes, ProcessRequest(n) PROVE AskedInv'
  <2>1. /\ Run[n] \in Reading /\ Run[n].todo # <<>>
        /\ Run[n].todo \in Seq(asked)
    BY <1>6 DEF ProcessRequest, TypeOK
  <2>2. Tail(Run[n].todo) \in Seq(asked) /\ Head(Run[n].todo) \in asked
    BY <2>1, HeadTailProperties
  <2>3. \A m \in Nodes : DoneWithHead(n)[m] # None =>
                             DoneWithHead(n)[m].todo \in Seq(asked)
    BY <2>1, <2>2 DEF DoneWithHead, TypeOK, Reading
  <2>4. [hash |-> Message(n).hash, target |-> Message(n).target] \in asked
    BY <2>2 DEF Message, DetachRequest, TypeOK
  <2>5. CASE PassOver(n)
    BY <1>6, <2>3, <2>5 DEF ProcessRequest, PassOver
  <2>6. CASE GiveUp(n)
    BY <1>6, <2>6 DEF ProcessRequest, GiveUp, TypeOK
  <2>7. CASE Send(n)
    <3>1. Message(n).target \in ValidTargets
      BY <2>7 DEF Send, WellFormed, Message
    <3>2. Asked(Message(n))
      BY <2>4, <3>1
    <3>3. PoolsAsked'
      BY <1>6, <2>7, <3>2 DEF ProcessRequest, Send, TypeOK
    <3> QED
      BY <1>6, <2>3, <2>7, <3>3 DEF ProcessRequest, Send
  <2> QED
    BY <1>6, <2>5, <2>6, <2>7 DEF ProcessRequest
<1>7. ASSUME NEW n \in Nodes, EndRun(n) PROVE AskedInv'
  <2>1. \A m \in Nodes : Cleared(n)[m] \in Seq(asked)
    BY EmptySeq DEF Cleared, TypeOK
  <2> QED
    BY <1>7, <2>1 DEF EndRun, TypeOK
<1>8. ASSUME NEW n \in Nodes, Restart(n) PROVE AskedInv'
  BY <1>8 DEF Restart, TypeOK
<1>9. CASE UNCHANGED vars
  BY <1>9 DEF vars
<1> QED
  BY <1>1, <1>2, <1>3, <1>4, <1>5, <1>6, <1>7, <1>8, <1>9
  DEF Next, Root, Chain, Worker

(* A signature that the chain shows is for a request of the proto's owner, *)
(* to the target that was named: the list, the run and the pools on the    *)
(* way hold nothing but requests that were made and messages for them.     *)
THEOREM ReleasesAsked == Spec => []ReleasedWasAsked
<1>1. Init => TypeOK /\ AskedInv
  BY InitType, InitAsked
<1>2. TypeOK /\ AskedInv /\ [Next]_vars => (TypeOK /\ AskedInv)'
  BY StepType, StepAsked
<1>3. AskedInv => ReleasedWasAsked
  BY DEF AskedInv
<1> QED
  BY <1>1, <1>2, <1>3, PTL DEF Spec

-----------------------------------------------------------------------------
(***************************************************************************)
(* What the chain keeps of a detached proto is one of the messages it      *)
(* released for it, and a proto of which a message was released is         *)
(* detached.  (internal_finalize_detach, DetachedHashes)                   *)
(***************************************************************************)
DetachedIsReleased ==
    \A p \in Hashes :
        IF DetachedHashes[p] = None THEN \A m \in released : m.hash # p
        ELSE [hash |-> p, target |-> DetachedHashes[p].target,
              nonce |-> DetachedHashes[p].nonce] \in released

LEMMA InitReleased == Init => DetachedIsReleased
BY DEF Init, DetachedIsReleased

LEMMA StepReleased ==
    TypeOK /\ DetachedIsReleased /\ [Next]_vars => DetachedIsReleased'
<1> SUFFICES ASSUME TypeOK, DetachedIsReleased, [Next]_vars
             PROVE  DetachedIsReleased'
    OBVIOUS
<1>1. ASSUME UNCHANGED <<DetachedHashes, released>>
      PROVE  DetachedIsReleased'
  BY <1>1 DEF DetachedIsReleased
<1>2. ASSUME NEW n \in Nodes, NEW tx, InternalFinalizeDetach(n, tx)
      PROVE  DetachedIsReleased'
  <2>1. /\ tx \in DetachInternalData
        /\ tx = [hash |-> tx.hash, target |-> tx.target, nonce |-> tx.nonce]
        /\ tx.target \in Targets /\ tx.hash \in Hashes /\ tx.nonce \in Nat
    BY <1>2 DEF InternalFinalizeDetach, DetachInternalData, TypeOK
  <2>2. Export(tx) # None
    BY <2>1, NoneIsNoRecord DEF Export
  <2>3. ASSUME NEW p \in Hashes, p = tx.hash
        PROVE  /\ DetachedHashes'[p] = Export(tx)
               /\ [hash |-> p, target |-> Export(tx).target,
                   nonce |-> Export(tx).nonce] \in released'
    BY <1>2, <2>1, <2>3 DEF InternalFinalizeDetach, TypeOK, Export
  <2>4. ASSUME NEW p \in Hashes, p # tx.hash
        PROVE  /\ DetachedHashes'[p] = DetachedHashes[p]
               /\ released \subseteq released'
               /\ \A m \in released' : m.hash = p => m \in released
    BY <1>2, <2>4 DEF InternalFinalizeDetach, TypeOK
  <2> QED
    BY <2>2, <2>3, <2>4 DEF DetachedIsReleased
<1> QED
  BY <1>1, <1>2
  DEF Next, Root, Chain, Worker, vars, keyVars, chainVars, nodeVars,
      AddEthAuth, DelEthAuth, AddKey, DelKey, Request, OnFinalize,
      StartRun, ProcessRequest, EndRun, Restart

(* What the chain keeps of a detached proto is a message it released.      *)
THEOREM DetachedReleased == Spec => []DetachedIsReleased
<1>1. TypeOK /\ DetachedIsReleased /\ [Next]_vars
        => (TypeOK /\ DetachedIsReleased)'
  BY StepType, StepReleased
<1> QED
  BY InitType, InitReleased, <1>1, PTL DEF Spec

-----------------------------------------------------------------------------
LEMMA InitFilled == Init => NoncesFilled
BY DEF Init, NoncesFilled, Filled

LEMMA StepFilled == TypeOK /\ NoncesFilled /\ [Next]_vars => NoncesFilled'
<1> SUFFICES ASSUME TypeOK, NoncesFilled, [Next]_vars PROVE NoncesFilled'
    OBVIOUS
<1>1. ASSUME UNCHANGED <<DetachNonces, Run, Pool, released>>
      PROVE  NoncesFilled'
  BY <1>1 DEF NoncesFilled, Filled
<1>2. ASSUME NEW n \in Nodes, NEW tx, InternalFinalizeDetach(n, tx)
      PROVE  NoncesFilled'
  <2>1. /\ tx \in DetachInternalData
        /\ tx.target \in Targets /\ tx.nonce \in Nat
        /\ tx.nonce > 0
        /\ Filled(tx.target, tx.nonce - 1)
    BY <1>2
    DEF InternalFinalizeDetach, DetachInternalData, TypeOK, NoncesFilled
  <2>2. \A t, k : Filled(t, k) => Filled(t, k)'
    BY <1>2 DEF InternalFinalizeDetach, Filled
  <2>3. Filled(tx.target, tx.nonce)'
    <3>1. \A j \in 1 .. tx.nonce : j = tx.nonce \/ j \in 1 .. (tx.nonce - 1)
      BY <2>1
    <3>2. tx \in released' /\ released \subseteq released'
      BY <1>2 DEF InternalFinalizeDetach
    <3> QED
      BY <2>1, <3>1, <3>2 DEF Filled
  <2>4. \A t \in Targets : Filled(t, DetachNonces[t])'
    BY <1>2, <2>1, <2>2, <2>3
    DEF InternalFinalizeDetach, NoncesFilled, TypeOK
  <2>5. \A m \in Nodes : Run'[m] # None =>
          \A t \in Targets : Filled(t, Run[m].nonces[t])'
    BY <1>2, <2>2 DEF InternalFinalizeDetach, NoncesFilled, nodeVars
  <2>6. \A m \in Nodes : \A x \in Pool'[m] :
          x.nonce > 0 /\ Filled(x.target, x.nonce - 1)'
    BY <1>2, <2>2 DEF InternalFinalizeDetach, Pruned, NoncesFilled
  <2>7. \A m \in released' : m.nonce > 0 /\ Filled(m.target, m.nonce)'
    BY <1>2, <2>1, <2>2, <2>3 DEF InternalFinalizeDetach, NoncesFilled
  <2> QED
    BY <2>4, <2>5, <2>6, <2>7 DEF NoncesFilled
<1>3. ASSUME NEW n \in Nodes, StartRun(n) PROVE NoncesFilled'
  <2>1. UNCHANGED <<DetachNonces, Pool, released>>
    BY <1>3 DEF StartRun, chainVars
  <2>2. \A t, k : Filled(t, k) => Filled(t, k)'
    BY <2>1 DEF Filled
  <2>3. \A m \in Nodes : Run'[m] # None =>
          \/ Run'[m].nonces = DetachNonces
          \/ Run[m] # None /\ Run'[m].nonces = Run[m].nonces
    BY <1>3 DEF StartRun, TypeOK
  <2> QED
    BY <2>1, <2>2, <2>3 DEF NoncesFilled
<1>4. ASSUME NEW n \in Nodes, ProcessRequest(n) PROVE NoncesFilled'
  <2>1. UNCHANGED <<DetachNonces, released>>
    BY <1>4 DEF ProcessRequest, chainVars
  <2>2. \A t, k : Filled(t, k) => Filled(t, k)'
    BY <2>1 DEF Filled
  <2>3. /\ Run[n] \in Reading /\ Run[n].todo # <<>>
        /\ Head(Run[n].todo) \in DetachRequest
    BY <1>4, HeadTailProperties DEF ProcessRequest, TypeOK, Reading
  <2>4. /\ Message(n).nonce > 0
        /\ Filled(Message(n).target, Message(n).nonce - 1)
    <3> DEFINE t == Head(Run[n].todo).target
    <3>1. t \in Targets /\ Run[n].nonces[t] \in Nat
      BY <2>3 DEF Reading, DetachRequest
    <3>2. Filled(t, Run[n].nonces[t])
      BY <1>4, <3>1 DEF ProcessRequest, NoncesFilled
    <3>3. Message(n).target = t /\ Message(n).nonce = Run[n].nonces[t] + 1
      BY DEF Message, NextNonce
    <3>4. Message(n).nonce > 0 /\ Message(n).nonce - 1 = Run[n].nonces[t]
      BY <3>1, <3>3
    <3> HIDE DEF t
    <3> QED
      BY <3>2, <3>3, <3>4
  <2>5. \A m \in Nodes : Run'[m] # None =>
          Run[m] # None /\ Run'[m].nonces = Run[m].nonces
    <3>1. \/ Run' = DoneWithHead(n)
          \/ Run' = [Run EXCEPT ![n] = None]
      BY <1>4 DEF ProcessRequest, PassOver, GiveUp, Send
    <3>2. \A m \in Nodes : DoneWithHead(n)[m].nonces = Run[m].nonces
      <4>1. DoneWithHead(n)[n] = [Run[n] EXCEPT !.todo = Tail(@)]
        BY DEF DoneWithHead, TypeOK
      <4>2. DoneWithHead(n)[n].nonces = Run[n].nonces
        BY <2>3, <4>1 DEF Reading
      <4> QED
        BY <4>2 DEF DoneWithHead, TypeOK
    <3>3. Run[n] # None
      BY <1>4 DEF ProcessRequest
    <3>4. CASE Run' = DoneWithHead(n)
      BY <3>2, <3>3, <3>4 DEF DoneWithHead, TypeOK
    <3>5. CASE Run' = [Run EXCEPT ![n] = None]
      BY <3>5 DEF TypeOK
    <3> QED
      BY <3>1, <3>4, <3>5
  <2>6. \A m \in Nodes : Pool'[m] \subseteq Pool[m] \cup {Message(n)}
    BY <1>4 DEF ProcessRequest, PassOver, GiveUp, Send, TypeOK
  <2> QED
    BY <2>1, <2>2, <2>4, <2>5, <2>6 DEF NoncesFilled
<1>5. ASSUME NEW n \in Nodes, EndRun(n) PROVE NoncesFilled'
  BY <1>5 DEF EndRun, NoncesFilled, Filled, TypeOK, chainVars
<1>6. ASSUME NEW n \in Nodes, Restart(n) PROVE NoncesFilled'
  BY <1>6 DEF Restart, NoncesFilled, Filled, TypeOK, chainVars
<1> QED
  BY <1>1, <1>2, <1>3, <1>4, <1>5, <1>6
  DEF Next, Root, Chain, Worker, vars, keyVars, chainVars, nodeVars,
      AddEthAuth, DelEthAuth, AddKey, DelKey, Request, OnFinalize

LEMMA FilledHasNoGap == TypeOK /\ NoncesFilled => NoncesHaveNoGap
<1> SUFFICES ASSUME TypeOK, NoncesFilled, NEW t \in Targets
             PROVE  /\ \A k \in NoncesOf(t) :
                         k > 0 /\ 1 .. k \subseteq NoncesOf(t)
                    /\ DetachNonces[t] \in NoncesOf(t) \cup {0}
    BY DEF NoncesHaveNoGap
<1>1. \A k : k \in NoncesOf(t) <=>
                \E m \in released : m.target = t /\ m.nonce = k
  BY DEF NoncesOf
<1>2. \A k : Filled(t, k) => 1 .. k \subseteq NoncesOf(t)
  BY <1>1 DEF Filled
<1>3. \A k \in NoncesOf(t) : k > 0 /\ Filled(t, k)
  BY <1>1 DEF NoncesFilled
<1>4. DetachNonces[t] \in Nat /\ 1 .. DetachNonces[t] \subseteq NoncesOf(t)
  BY <1>2 DEF NoncesFilled, TypeOK
<1> QED
  BY <1>2, <1>3, <1>4

(* The nonces that were released for a target have no gap, although each   *)
(* worker counts from the nonce it read, however old, and the chain takes  *)
(* back its own nonce when an older message arrives: a message in a pool   *)
(* always follows nonces that were all released.                           *)
THEOREM NoGaps == Spec => []NoncesHaveNoGap
<1>1. Init => TypeOK /\ NoncesFilled
  BY InitType, InitFilled
<1>2. TypeOK /\ NoncesFilled /\ [Next]_vars => (TypeOK /\ NoncesFilled)'
  BY StepType, StepFilled
<1> QED
  BY <1>1, <1>2, FilledHasNoGap, PTL DEF Spec

-----------------------------------------------------------------------------
LEMMA StepKeepsList ==
    TypeOK /\ [Next]_vars =>
        \A n \in Nodes : (Index[n] # <<>> /\ Index'[n] = <<>>) =>
            /\ Run[n] # None
            /\ Run[n].seen = Index[n]
            /\ Run[n].todo = <<>>
<1> SUFFICES ASSUME TypeOK, [Next]_vars, NEW n \in Nodes,
                    Index[n] # <<>>, Index'[n] = <<>>
             PROVE  /\ Run[n] # None
                    /\ Run[n].seen = Index[n]
                    /\ Run[n].todo = <<>>
    OBVIOUS
<1>1. ~ OnFinalize
  BY DEF OnFinalize
<1>2. \E m \in Nodes : EndRun(m)
  BY <1>1
  DEF Next, Root, Chain, Worker, vars, keyVars, chainVars, nodeVars,
      AddEthAuth, DelEthAuth, AddKey, DelKey, Request,
      InternalFinalizeDetach, StartRun, ProcessRequest, Restart
<1> QED
  BY <1>2 DEF EndRun, Cleared, TypeOK

(* A node's list is emptied only by a run that went through all of it.     *)
THEOREM ListsKept == Spec => ListKeptUntilDone
<1>1. TypeOK /\ [Next]_vars =>
        [\A n \in Nodes : (Index[n] # <<>> /\ Index'[n] = <<>>) =>
            /\ Run[n] # None
            /\ Run[n].seen = Index[n]
            /\ Run[n].todo = <<>>]_vars
  BY StepKeepsList
<1> QED
  BY <1>1, TypeCorrect, PTL DEF Spec, ListKeptUntilDone

-----------------------------------------------------------------------------
(* Including a transaction is the release of its message.                  *)
LEMMA FinalizeReleases ==
    ASSUME TypeOK, AskedInv, NoncesFilled,
           NEW n \in Nodes, NEW tx, InternalFinalizeDetach(n, tx)
    PROVE  Released!ReleasesNext
<1>1. tx \in DetachInternalData /\ tx.nonce <= MaxNonce /\ tx \in Pool[n]
  BY DEF InternalFinalizeDetach, TypeOK
<1>2. [hash |-> tx.hash, target |-> tx.target] \in asked
      /\ tx.target \in ValidTargets
  BY <1>1 DEF AskedInv, PoolsAsked, Asked
<1>3. tx.nonce > 0 /\ Filled(tx.target, tx.nonce - 1)
  BY <1>1 DEF NoncesFilled
<1>4. tx \in [hash: Hashes, target: ValidTargets, nonce: 1 .. MaxNonce]
  BY <1>1, <1>2, <1>3, BoundsAreNat DEF DetachInternalData
<1>5. Released!Taken(tx.target, tx.nonce)
  BY <1>3 DEF Filled, Released!Taken
<1>6. /\ released' = released \cup {tx}
      /\ DetachedHashes' = [DetachedHashes EXCEPT ![tx.hash] =
           [target |-> tx.target, nonce |-> tx.nonce]]
      /\ UNCHANGED asked
  BY DEF InternalFinalizeDetach, Export
<1>7. Released!Release(tx)
  BY <1>2, <1>5, <1>6 DEF Released!Release
<1> QED
  BY <1>4, <1>7 DEF Released!ReleasesNext

(***************************************************************************)
(* The pallet and its workers implement the abstract releases: only the    *)
(* request and the inclusion of a transaction are seen from outside, and   *)
(* all that happens between them, on every node, is not.                   *)
(***************************************************************************)
THEOREM ImplementsReleases == Spec => IsReleases
<1> DEFINE Inv == TypeOK /\ AskedInv /\ NoncesFilled
<1>1. Init => Inv /\ Released!ReleasesInit
  <2>1. Init => Released!ReleasesInit
    BY DEF Init, Released!ReleasesInit
  <2> QED
    BY <2>1, InitType, InitAsked, InitFilled
<1>2. Inv /\ [Next]_vars => Inv'
  BY StepType, StepAsked, StepFilled
<1>3. Inv /\ [Next]_vars => [Released!ReleasesNext]_(Released!releaseVars)
  <2> SUFFICES ASSUME Inv, [Next]_vars
               PROVE  \/ Released!ReleasesNext
                      \/ UNCHANGED Released!releaseVars
    OBVIOUS
  <2>1. CASE UNCHANGED <<asked, released, DetachedHashes>>
    BY <2>1 DEF Released!releaseVars
  <2>2. ASSUME NEW p \in Hashes, NEW t \in Targets, Request(p, t)
        PROVE  Released!ReleasesNext
    <3>1. Released!Ask(p, t)
      BY <2>2 DEF Request, chainVars, Released!Ask
    <3> QED
      BY <3>1 DEF Released!ReleasesNext
  <2>3. ASSUME NEW n \in Nodes, NEW tx, InternalFinalizeDetach(n, tx)
        PROVE  Released!ReleasesNext
    BY <2>3, FinalizeReleases
  <2> QED
    BY <2>1, <2>2, <2>3
    DEF Next, Root, Chain, Worker, vars, chainVars,
        AddEthAuth, DelEthAuth, AddKey, DelKey, OnFinalize,
        StartRun, ProcessRequest, EndRun, Restart
<1> QED
  BY <1>1, <1>2, <1>3, PTL DEF Spec, IsReleases, Released!ReleasesSpec

(***************************************************************************)
(* What the protos pallet and the pallets behind it take for granted of a  *)
(* detachment: it is of a proto whose owner once asked for it, and it is   *)
(* never undone.  (Protos!FinalizeDetach, Registry!Seal)                   *)
(***************************************************************************)
DetachesTheAsked ==
    [][\A p \in Hashes :
         /\ DetachedHashes[p] # None => DetachedHashes'[p] # None
         /\ DetachedHashes'[p] # DetachedHashes[p] =>
              \E t \in ValidTargets : [hash |-> p, target |-> t] \in asked]_vars

THEOREM FinalizesOnlyRequests == Spec => DetachesTheAsked
<1> DEFINE Asks == \A p \in Hashes :
              /\ DetachedHashes[p] # None => DetachedHashes'[p] # None
              /\ DetachedHashes'[p] # DetachedHashes[p] =>
                   \E t \in ValidTargets : [hash |-> p, target |-> t] \in asked
<1>1. Init => TypeOK /\ AskedInv
  BY InitType, InitAsked
<1>2. TypeOK /\ AskedInv /\ [Next]_vars => (TypeOK /\ AskedInv)'
  BY StepType, StepAsked
<1>3. TypeOK /\ AskedInv /\ [Next]_vars => [Asks]_vars
  <2> SUFFICES ASSUME TypeOK, AskedInv, [Next]_vars, NEW p \in Hashes
               PROVE  /\ DetachedHashes[p] # None => DetachedHashes'[p] # None
                      /\ DetachedHashes'[p] # DetachedHashes[p] =>
                           \E t \in ValidTargets :
                             [hash |-> p, target |-> t] \in asked
    OBVIOUS
  <2>1. CASE UNCHANGED DetachedHashes
    BY <2>1
  <2>2. ASSUME NEW n \in Nodes, NEW tx, InternalFinalizeDetach(n, tx)
        PROVE  /\ DetachedHashes'[p] # DetachedHashes[p] => p = tx.hash
               /\ DetachedHashes[p] # None => DetachedHashes'[p] # None
               /\ Asked(tx)
    <3>1. tx \in DetachInternalData /\ Asked(tx)
      BY <2>2 DEF InternalFinalizeDetach, TypeOK, AskedInv, PoolsAsked
    <3>2. Export(tx) # None
      BY <3>1, NoneIsNoRecord DEF Export, DetachInternalData
    <3> QED
      BY <2>2, <3>1, <3>2 DEF InternalFinalizeDetach, TypeOK
  <2> QED
    BY <2>1, <2>2
    DEF Asked, Next, Root, Chain, Worker, vars, chainVars,
        AddEthAuth, DelEthAuth, AddKey, DelKey, Request, OnFinalize,
        StartRun, ProcessRequest, EndRun, Restart
<1> QED
  BY <1>1, <1>2, <1>3, PTL DEF Spec, DetachesTheAsked

=============================================================================
