-------------------------------- MODULE Ledger --------------------------------
(***************************************************************************)
(* What the accounts and the protos pallets promise together about FRAG:   *)
(* who holds which Ethereum key, what each key has locked, and what is     *)
(* staked against it.  Nothing is said of votes, quorums, usage counters,  *)
(* the second map of links, the lists of stakes or lock-up periods.  The   *)
(* protos pallet, with the accounts pallet below it, is shown to implement *)
(* it.                                                                     *)
(***************************************************************************)
EXTENDS Naturals

CONSTANTS
    Accounts,
    EthKeys,
    Events,        \* logs of the Ethereum contract
    Hashes,        \* protos
    StakeAmounts,
    None

VARIABLES
    holder,   \* Ethereum key -> the account that is linked to it
    counted,  \* logs that took effect
    locked,   \* Ethereum key -> FRAG it has locked
    stake,    \* (proto, account) -> FRAG
    leaving   \* accounts that lost a key since the last block ended

ledgerVars == <<holder, counted, locked, stake, leaving>>

LedgerInit ==
    /\ holder = [k \in EthKeys |-> None]
    /\ counted = {}
    /\ locked = [k \in EthKeys |-> None]
    /\ stake = [s \in Hashes \X Accounts |-> None]
    /\ leaving = {}

(* A key is held by one account, which holds no other. *)
Tie(u, k) ==
    /\ holder[k] = None
    /\ \A l \in EthKeys : holder[l] # u
    /\ holder' = [holder EXCEPT ![k] = u]
    /\ UNCHANGED <<counted, locked, stake, leaving>>

(* An account loses its key; its stakes stay until the block ends. *)
Part(u, k) ==
    /\ holder[k] = u
    /\ holder' = [holder EXCEPT ![k] = None]
    /\ leaving' = leaving \cup {u}

Untie(u, k) == Part(u, k) /\ UNCHANGED <<counted, locked, stake>>

(***************************************************************************)
(* A log takes effect, once.  An unlock takes the key from its holder; a   *)
(* lock, even of less than is staked, leaves holders and stakes alone.     *)
(***************************************************************************)
Count(e) ==
    /\ e \notin counted
    /\ e.signer = e.sender
    /\ counted' = counted \cup {e}
    /\ locked' = [locked EXCEPT ![e.sender] = e.amount]
    /\ IF e.lock \/ holder[e.sender] = None
       THEN UNCHANGED <<holder, leaving>>
       ELSE Part(holder[e.sender], e.sender)
    /\ UNCHANGED stake

(* What an account stakes on one proto, its key has locked. *)
Place(p, u, n) ==
    /\ \E k \in EthKeys :
         holder[k] = u /\ locked[k] # None /\ n <= locked[k]
    /\ stake' = [stake EXCEPT ![<<p, u>>] = n]
    /\ UNCHANGED <<holder, counted, locked, leaving>>

(* Only an account that holds a key takes a stake back. *)
Withdraw(p, u) ==
    /\ stake[<<p, u>>] # None
    /\ \E k \in EthKeys : holder[k] = u
    /\ stake' = [stake EXCEPT ![<<p, u>>] = None]
    /\ UNCHANGED <<holder, counted, locked, leaving>>

(* The block ends: those that lost a key lose every stake, even if they    *)
(* hold a key again and whenever they staked.                              *)
Close ==
    /\ stake' = [s \in Hashes \X Accounts |->
                   IF s[2] \in leaving THEN None ELSE stake[s]]
    /\ leaving' = {}
    /\ UNCHANGED <<holder, counted, locked>>

LedgerNext ==
    \/ \E u \in Accounts, k \in EthKeys : Tie(u, k) \/ Untie(u, k)
    \/ \E e \in Events : Count(e)
    \/ \E p \in Hashes, u \in Accounts :
         Withdraw(p, u) \/ \E n \in StakeAmounts : Place(p, u, n)
    \/ Close

LedgerSpec == LedgerInit /\ [][LedgerNext]_ledgerVars

=============================================================================
