------------------------------- MODULE Registry -------------------------------
(***************************************************************************)
(* What the registry of protos promises to the pallets that read it: who   *)
(* owns a proto, and whether it was detached.  Nothing is said of its      *)
(* data, tags, stakes, lists or requests.  The fragments pallet is modelled*)
(* over this module, and the protos pallet is shown to implement it.       *)
(***************************************************************************)
CONSTANTS
    Accounts,
    Hashes,  \* protos
    None

VARIABLES
    owner,    \* proto -> the account that owns it, None if none does
    detached  \* protos that were detached

registryVars == <<owner, detached>>

RegistryInit ==
    /\ owner = [p \in Hashes |-> None]
    /\ detached = {}

(* A proto gets its first owner; what an asset owns stays without one. *)
Claim(p, u) ==
    /\ owner[p] = None
    /\ owner' = [owner EXCEPT ![p] = u]
    /\ UNCHANGED detached

(* It changes hands, until it is detached. *)
PassOn(p, u) ==
    /\ owner[p] # None
    /\ p \notin detached
    /\ owner' = [owner EXCEPT ![p] = u]
    /\ UNCHANGED detached

(* It is detached, for good: at any time, and perhaps again. *)
Seal(p) ==
    /\ owner[p] # None
    /\ detached' = detached \cup {p}
    /\ UNCHANGED owner

RegistryNext ==
    \/ \E p \in Hashes, u \in Accounts : Claim(p, u) \/ PassOn(p, u)
    \/ \E p \in Hashes : Seal(p)

RegistrySpec == RegistryInit /\ [][RegistryNext]_registryVars

=============================================================================
