----------------------------- MODULE MCAccounts -----------------------------
(* Instances of Accounts for TLC. *)
EXTENDS Accounts

CONSTANTS k1, k2

(* A key locks, tops up and unlocks; another one locks with the signature *)
(* of the first.                                                          *)
Log(k, s, isLock, n, b) ==
    [sender |-> k, signer |-> s, lock |-> isLock, amount |-> n,
     block_number |-> b]

MCEvents == {Log(k1, k1, TRUE, 2, 1),  Log(k1, k1, TRUE, 1, 2),
             Log(k1, k1, FALSE, 0, 3), Log(k2, k2, FALSE, 0, 1),
             Log(k2, k1, TRUE, 1, 2)}
=============================================================================
