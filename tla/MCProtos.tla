------------------------------ MODULE MCProtos ------------------------------
(* Instances of Protos for TLC. *)
EXTENDS ProtosQuery, TLC

CONSTANTS alice, aliceLocked, bob, k1, t1, t2

(* One key locks; a second log says that it unlocked. *)
Log(k, isLock, n, b) ==
    [sender |-> k, signer |-> k, lock |-> isLock, amount |-> n,
     block_number |-> b]

LockAndUnlock == {Log(k1, TRUE, 2, 1), Log(k1, FALSE, 0, 2)}

(* alice's locked account acts through sudo_as; nobody acts for its own. *)
SudoLockedAccount == (alice :> aliceLocked) @@ (aliceLocked :> bob)

(* Two users whose locked accounts nobody acts for. *)
NoLockedSigner == (alice :> aliceLocked) @@ (bob :> aliceLocked)

(* For runs without stakes, which alone look at locked accounts. *)
EachOther == (alice :> bob) @@ (bob :> alice)

(* Both users and both protos play the same part in EachOther. *)
UsersAndProtos == Permutations(Signers) \cup Permutations(Hashes)

NoTags      == {<<>>}
PairsOfTags == {<<t1, t2>>, <<t2, t2>>}
=============================================================================
