---------------------------- MODULE MCQuorumToken ----------------------------
(***************************************************************************)
(* Small instances of the token contract.  Each .cfg opens the calls its   *)
(* question is about and closes the others by giving them no callers.      *)
(***************************************************************************)
EXTENDS QuorumToken, TLC

CONSTANTS a1, a2, a3

MCAccounts == {a1, a2, a3}
MCTwoAccounts == {a1, a2}

(* The accounts are interchangeable: no call singles one out.              *)
MCSymmetry == Permutations({a1, a2, a3})
MCTwoSymmetry == Permutations({a1, a2})
==============================================================================
