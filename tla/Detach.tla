------------------------------- MODULE Detach -------------------------------
(***************************************************************************)
(* The detach pallet (pallets/detach) and its way through the nodes: a     *)
(* request is queued on chain, copied at the end of the block into the     *)
(* off-chain database of every node, signed there by an off-chain worker   *)
(* and sent back as a transaction of that node's own pool, and finalised   *)
(* when that node includes it in a block.                                  *)
(*                                                                         *)
(* A node stands for its Ed25519 key and for the ECDSA key that is derived *)
(* from it.  A target is a chain with an account on it.                    *)
(***************************************************************************)
EXTENDS Naturals, Sequences, FiniteSets

CONSTANTS
    Hashes,        \* protos
    Targets,       \* target_chain and target_account of requests
    ValidTargets,  \* those whose account is 20 bytes long
    Nodes,
    Genesis,       \* nodes whose keys the chain starts with
    Rotated,       \* nodes whose keys root adds or removes later
    MaxBatch,      \* bound on the requests of one block
    MaxNonce,      \* bound on the nonces
    None

ASSUME ValidAreTargets == ValidTargets \subseteq Targets
ASSUME KeysAreOfNodes  == Genesis \subseteq Nodes /\ Rotated \subseteq Nodes
ASSUME BoundsAreNat    == MaxBatch \in Nat /\ MaxNonce \in Nat
ASSUME NoneIsNoRecord  == None \notin [target: Targets, nonce: Nat]

DetachRequest == [hash: Hashes, target: Targets]

(* What a transaction carries and its event shows: the signed message. *)
DetachInternalData == [hash: Hashes, target: Targets, nonce: Nat]

VARIABLES
    \* on chain
    DetachRequests,       \* requests of this block
    DetachNonces,         \* target -> last nonce, 0 for none
    DetachedHashes,       \* hash -> target and nonce of its detachment
    EthereumAuthorities,  \* nodes whose ECDSA key may sign
    FragKeys,             \* nodes whose transactions are accepted
    \* on each node
    Index,                \* "fragments-detach-requests", kept over a crash
    Run,                  \* the worker's run: what it read and has to do
    Pool,                 \* the node's transactions, lost in a crash
    \* history
    asked,                \* requests that protos accepted
    released              \* messages whose signature an event has shown

keyVars   == <<EthereumAuthorities, FragKeys>>
chainVars == <<DetachNonces, DetachedHashes, released>>
nodeVars  == <<Index, Run, Pool>>
vars == <<DetachRequests, DetachNonces, DetachedHashes, EthereumAuthorities,
          FragKeys, Index, Run, Pool, asked, released>>

Init ==
    /\ DetachRequests = <<>>
    /\ DetachNonces = [t \in Targets |-> 0]
    /\ DetachedHashes = [p \in Hashes |-> None]
    /\ EthereumAuthorities = Genesis
    /\ FragKeys = Genesis
    /\ Index = [n \in Nodes |-> <<>>]
    /\ Run = [n \in Nodes |-> None]
    /\ Pool = [n \in Nodes |-> {}]
    /\ asked = {}
    /\ released = {}

-----------------------------------------------------------------------------
(* Root changes the keys.                                                  *)

AddEthAuth(n) == /\ EthereumAuthorities' = EthereumAuthorities \cup {n}
                 /\ UNCHANGED <<DetachRequests, FragKeys, chainVars,
                                nodeVars, asked>>

DelEthAuth(n) == /\ EthereumAuthorities' = EthereumAuthorities \ {n}
                 /\ UNCHANGED <<DetachRequests, FragKeys, chainVars,
                                nodeVars, asked>>

AddKey(n) == /\ FragKeys' = FragKeys \cup {n}
             /\ UNCHANGED <<DetachRequests, EthereumAuthorities, chainVars,
                            nodeVars, asked>>

DelKey(n) == /\ FragKeys' = FragKeys \ {n}
             /\ UNCHANGED <<DetachRequests, EthereumAuthorities, chainVars,
                            nodeVars, asked>>

-----------------------------------------------------------------------------
(* The chain.                                                              *)

(* Protos::detach: whatever the target, and however often, as long as the  *)
(* proto is not detached.                                                  *)
Request(p, t) ==
    /\ DetachedHashes[p] = None
    /\ Len(DetachRequests) < MaxBatch
    /\ DetachRequests' = Append(DetachRequests, [hash |-> p, target |-> t])
    /\ asked' = asked \cup {[hash |-> p, target |-> t]}
    /\ UNCHANGED <<keyVars, chainVars, nodeVars>>

(* The end of a block that has requests: every node's list is replaced,    *)
(* processed or not.                                                       *)
OnFinalize ==
    /\ DetachRequests # <<>>
    /\ DetachRequests' = <<>>
    /\ Index' = [n \in Nodes |-> DetachRequests]
    /\ UNCHANGED <<keyVars, chainVars, Run, Pool, asked>>

(* Transactions that provide the tags of an included one leave the pools. *)
Pruned(tx) == [n \in Nodes |-> Pool[n] \ {tx}]

\* Mutated form: the nonce is taken from the map before it is updated.
ExportStale(tx) == [target |-> tx.target, nonce |-> DetachNonces[tx.target]]

\* Mutated form: the whole message is kept.
ExportWhole(tx) == tx

Export(tx) == [target |-> tx.target, nonce |-> tx.nonce]

(* Node n includes its transaction, which validate_unsigned checks again;  *)
(* nothing else is checked, not even that the proto is still attached.     *)
InternalFinalizeDetach(n, tx) ==
    /\ tx \in Pool[n]
    /\ n \in FragKeys
    /\ tx.nonce <= MaxNonce
    /\ DetachNonces' = [DetachNonces EXCEPT ![tx.target] = tx.nonce]
    /\ DetachedHashes' = [DetachedHashes EXCEPT ![tx.hash] = Export(tx)]
    /\ released' = released \cup {tx}
    /\ Pool' = Pruned(tx)
    /\ UNCHANGED <<DetachRequests, keyVars, Index, Run, asked>>

-----------------------------------------------------------------------------
(* process_detach_requests, the off-chain worker of node n.                *)

(* It reads its list, and the state of the block it runs at. *)
StartRun(n) ==
    /\ Run[n] = None
    /\ Index[n] # <<>>
    /\ Run' = [Run EXCEPT ![n] =
         [seen |-> Index[n], todo |-> Index[n], nonces |-> DetachNonces,
          authority |-> n \in EthereumAuthorities]]
    /\ UNCHANGED <<DetachRequests, keyVars, chainVars, Index, Pool, asked>>

\* Mutated form: the nonce of a target that has none is 0.
NonceFromZero(n, t) ==
    IF Run[n].nonces[t] = 0 THEN 2 ELSE Run[n].nonces[t] + 1

(* add_nonce_to_payload. *)
NextNonce(n, t) == Run[n].nonces[t] + 1

(* The account of the target is 20 bytes long. *)
WellFormed(t) == t \in ValidTargets

(* The message for the next request of the run. *)
Message(n) ==
    LET r == Head(Run[n].todo)
    IN  [hash |-> r.hash, target |-> r.target,
         nonce |-> NextNonce(n, r.target)]

DoneWithHead(n) == [Run EXCEPT ![n].todo = Tail(@)]

(* Without an authority's key the request is logged and passed over. *)
PassOver(n) ==
    /\ ~ Run[n].authority
    /\ Run' = DoneWithHead(n)
    /\ UNCHANGED Pool

(* A malformed target ends the run, and the whole list stays. *)
GiveUp(n) ==
    /\ Run[n].authority
    /\ ~ WellFormed(Head(Run[n].todo).target)
    /\ Run' = [Run EXCEPT ![n] = None]
    /\ UNCHANGED Pool

(* The pool refuses the transaction of an unknown key; that is not noticed.*)
Send(n) ==
    /\ Run[n].authority
    /\ WellFormed(Head(Run[n].todo).target)
    /\ Run' = DoneWithHead(n)
    /\ Pool' = IF n \in FragKeys
               THEN [Pool EXCEPT ![n] = @ \cup {Message(n)}] ELSE Pool

ProcessRequest(n) ==
    /\ Run[n] # None
    /\ Run[n].todo # <<>>
    /\ PassOver(n) \/ GiveUp(n) \/ Send(n)
    /\ UNCHANGED <<DetachRequests, keyVars, chainVars, Index, asked>>

\* Mutated form: the list is cleared whatever it has become.
ClearedAnyway(n) == [Index EXCEPT ![n] = <<>>]

(* The list is cleared if no block replaced it in the meantime. *)
Cleared(n) == IF Index[n] = Run[n].seen
              THEN [Index EXCEPT ![n] = <<>>] ELSE Index

EndRun(n) ==
    /\ Run[n] # None
    /\ Run[n].todo = <<>>
    /\ Index' = Cleared(n)
    /\ Run' = [Run EXCEPT ![n] = None]
    /\ UNCHANGED <<DetachRequests, keyVars, chainVars, Pool, asked>>

(* The node stops and comes back with its database only. *)
Restart(n) ==
    /\ Run' = [Run EXCEPT ![n] = None]
    /\ Pool' = [Pool EXCEPT ![n] = {}]
    /\ UNCHANGED <<DetachRequests, keyVars, chainVars, Index, asked>>

-----------------------------------------------------------------------------
Root == \E n \in Rotated :
            AddEthAuth(n) \/ DelEthAuth(n) \/ AddKey(n) \/ DelKey(n)

Chain == \/ \E p \in Hashes, t \in Targets : Request(p, t)
         \/ OnFinalize
         \/ \E n \in Nodes, tx \in UNION {Pool[m] : m \in Nodes} :
                InternalFinalizeDetach(n, tx)

Worker == \E n \in Nodes :
            StartRun(n) \/ ProcessRequest(n) \/ EndRun(n) \/ Restart(n)

Next == Root \/ Chain \/ Worker

Spec == Init /\ [][Next]_vars

-----------------------------------------------------------------------------
Reading == [seen: Seq(DetachRequest), todo: Seq(DetachRequest),
            nonces: [Targets -> Nat], authority: BOOLEAN]

(* Every variable holds values of its storage type. *)
TypeOK ==
    /\ DetachRequests \in Seq(DetachRequest)
    /\ DetachNonces \in [Targets -> Nat]
    /\ DetachedHashes \in [Hashes -> [target: Targets, nonce: Nat] \cup {None}]
    /\ EthereumAuthorities \subseteq Nodes
    /\ FragKeys \subseteq Nodes
    /\ Index \in [Nodes -> Seq(DetachRequest)]
    /\ Run \in [Nodes -> Reading \cup {None}]
    /\ Pool \in [Nodes -> SUBSET DetachInternalData]
    /\ asked \subseteq DetachRequest
    /\ released \subseteq DetachInternalData

(* The nonces of the messages released for a target. *)
NoncesOf(t) == {m.nonce : m \in {x \in released : x.target = t}}

(***************************************************************************)
(* The nonces released for a target are 1 to some number without a gap,    *)
(* so that the contract at the other end, which takes them in turn, never  *)
(* waits for one that nobody was given; and the nonce on chain is one of   *)
(* them.  (add_nonce_to_payload, internal_finalize_detach)                 *)
(***************************************************************************)
NoncesHaveNoGap ==
    \A t \in Targets :
        /\ \A k \in NoncesOf(t) : k > 0 /\ 1 .. k \subseteq NoncesOf(t)
        /\ DetachNonces[t] \in NoncesOf(t) \cup {0}

(***************************************************************************)
(* A node's list goes only after the node went through all of it, or by    *)
(* being replaced at the end of a block: neither a crash, nor a malformed  *)
(* request, nor a run that is still on an older list, empties it.          *)
(* (process_detach_requests)                                               *)
(***************************************************************************)
ListKeptUntilDone ==
    [][\A n \in Nodes :
         (Index[n] # <<>> /\ Index'[n] = <<>>) =>
             /\ Run[n] # None
             /\ Run[n].seen = Index[n]
             /\ Run[n].todo = <<>>]_vars

Released == INSTANCE Releases WITH
    Nonces <- 1 .. MaxNonce,
    kept   <- DetachedHashes

(***************************************************************************)
(* The whole way of a request, over blocks, lists, workers, pools and      *)
(* crashes, looks from outside like one step: the message of a request     *)
(* that was made becomes public, with a nonce that follows released ones,  *)
(* as its proto is detached and keeps that very target and nonce.          *)
(* (Releases; detach, on_finalize, process_detach_requests,                *)
(* internal_finalize_detach)                                               *)
(***************************************************************************)
IsReleases == Released!ReleasesSpec

(***************************************************************************)
(* A nonce of a target stands for one message, as ExportData says.         *)
(* (nonce; the code breaks it)                                             *)
(***************************************************************************)
NonceIdentifiesMessage ==
    \A a, b \in released :
        (a.target = b.target /\ a.nonce = b.nonce) => a = b

=============================================================================
