---------------------------- MODULE MCFragments ----------------------------
(* Instances of Fragments for TLC. *)
EXTENDS Fragments

CONSTANTS p1, c1

OneClass == [c \in {c1} |-> p1]

(* What the giver may keep, withdraw or pass on. *)
SaleOnly == {{}}
Gifting  == {{"TRANSFER", "COPY"}, {"TRANSFER"}}
=============================================================================
