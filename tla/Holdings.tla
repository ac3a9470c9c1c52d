------------------------------ MODULE Holdings ------------------------------
(***************************************************************************)
(* What the fragments pallet promises about instances: who holds each and  *)
(* what may be done with it.  Nothing is said of definitions, sales,       *)
(* numbers, lists of holders or blocks.                                    *)
(***************************************************************************)
CONSTANTS
    Accounts,
    Instances,
    Perms,
    EditionOf,  \* instance -> the edition it belongs to
    None

VARIABLES
    born,    \* instances that were ever given out
    holder,  \* instance -> its holder, None for one that does not exist
    rights   \* instance -> what may be done with it

holdingVars == <<born, holder, rights>>

HoldingsInit ==
    /\ born = {}
    /\ holder = [i \in Instances |-> None]
    /\ rights = [i \in Instances |-> {}]

Alive == {i \in Instances : holder[i] # None}

(* u and r become holder and rights of each of new, not born before.       *)
Born(new, u, r) ==
    /\ born' = born \cup new
    /\ holder' = [i \in Instances |-> IF i \in new THEN u ELSE holder[i]]
    /\ rights' = [i \in Instances |-> IF i \in new THEN r ELSE rights[i]]

(* Instances of new editions, one of each. *)
MintNew(new, u, r) ==
    /\ \A i \in new, j \in new \cup born : EditionOf[i] = EditionOf[j] => i = j
    /\ Born(new, u, r)

(* A holder with the right to copy gives away a copy. *)
CopyTo(i, j, to, r) ==
    /\ {"COPY", "TRANSFER"} \subseteq rights[i]
    /\ EditionOf[j] = EditionOf[i]
    /\ Born({j}, to, r)

(* A holder without it gives away the instance itself. *)
HandOver(i, to, r) ==
    /\ "TRANSFER" \in rights[i]
    /\ "COPY" \notin rights[i]
    /\ holder' = [holder EXCEPT ![i] = to]
    /\ rights' = [rights EXCEPT ![i] = r]
    /\ UNCHANGED born

(* Instances go, for good. *)
Expire(gone) ==
    /\ holder' = [i \in Instances |-> IF i \in gone THEN None ELSE holder[i]]
    /\ rights' = [i \in Instances |-> IF i \in gone THEN {} ELSE rights[i]]
    /\ UNCHANGED born

(* What is passed on is never more than what is held. *)
HoldingsNext ==
    \/ \E i \in Alive : \E r \in SUBSET rights[i], to \in Accounts :
          \/ HandOver(i, to, r)
          \/ \E j \in Instances \ born : CopyTo(i, j, to, r)
    \/ \E gone \in SUBSET Alive : Expire(gone)
    \/ \E new \in SUBSET (Instances \ born), u \in Accounts,
          r \in SUBSET Perms : MintNew(new, u, r)

HoldingsSpec == HoldingsInit /\ [][HoldingsNext]_holdingVars

=============================================================================
