---------------------------- MODULE MCQuorumSystem ----------------------------
(***************************************************************************)
(* A small instance of the two contracts together.                         *)
(***************************************************************************)
EXTENDS QuorumSystem, TLC

CONSTANTS a1, a2

MCAccounts == {a1, a2, Self}
Alone == {<< >>}

(* An approval that lapses midway, and its revocation.                     *)
MCApprovals == {[amount |-> 2, expiration |-> 2], [amount |-> 0, expiration |-> 0]}
==============================================================================
