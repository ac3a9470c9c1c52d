------------------------------- MODULE Releases -------------------------------
(***************************************************************************)
(* What the detach pallet promises to the owners of protos and to the      *)
(* contracts on other chains, without blocks, nodes, keys or pools: who    *)
(* asked for what, which signed messages the chain has shown, and what it  *)
(* keeps of each proto.  The detach pallet is shown to implement it.       *)
(***************************************************************************)
EXTENDS Naturals

CONSTANTS
    Hashes,        \* protos
    Targets,
    ValidTargets,  \* those that a message may be for
    Nonces,        \* numbers from 1 on
    None

VARIABLES
    asked,     \* requests: a proto and a target
    released,  \* messages: a request with a nonce
    kept       \* proto -> target and nonce of its last release, or None

releaseVars == <<asked, released, kept>>

ReleasesInit ==
    /\ asked = {}
    /\ released = {}
    /\ kept = [p \in Hashes |-> None]

(* An owner asks, any number of times and for any targets, until a release.*)
Ask(p, t) ==
    /\ kept[p] = None
    /\ asked' = asked \cup {[hash |-> p, target |-> t]}
    /\ UNCHANGED <<released, kept>>

(* Each nonce of the target below k was released. *)
Taken(t, k) == \A j \in 1 .. k - 1 :
                   \E x \in released : x.target = t /\ x.nonce = j

(* The one message becomes public and the proto is detached, at once.      *)
Release(m) ==
    /\ [hash |-> m.hash, target |-> m.target] \in asked
    /\ Taken(m.target, m.nonce)
    /\ released' = released \cup {m}
    /\ kept' = [kept EXCEPT ![m.hash] =
                  [target |-> m.target, nonce |-> m.nonce]]
    /\ UNCHANGED asked

ReleasesNext ==
    \/ \E p \in Hashes, t \in Targets : Ask(p, t)
    \/ \E m \in [hash: Hashes, target: ValidTargets, nonce: Nonces] :
         Release(m)

ReleasesSpec == ReleasesInit /\ [][ReleasesNext]_releaseVars

=============================================================================
