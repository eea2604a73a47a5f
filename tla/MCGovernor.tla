------------------------------ MODULE MCGovernor ------------------------------
(***************************************************************************)
(* Small instances of the governance contract.  Each .cfg opens the calls  *)
(* its question is about; the other input sets are empty or singletons.    *)
(***************************************************************************)
EXTENDS Governor, TLC

CONSTANTS a1, a2, registry

Two == {a1, a2}

Alone == {<< >>}
Sponsored == {<< >>, <<a2>>, <<a1>>, <<a2, a2>>}

Standard == {"standard"}
BothKinds == {"standard", "conviction"}
Conviction == {"conviction"}

(* Holdings and weights.                                                   *)
Everyone(n) == [a \in Account |-> n]
EvenHoldings == {Everyone(2)}
UnevenHoldings == {[a \in Account |-> IF a = a1 THEN 2 ELSE 1]}

OnlyFirst == {[a \in Account |-> IF a = a1 THEN 3 ELSE 0]}
OneEach == {Everyone(1)}
Varied == {[a \in Account |-> IF a = a1 THEN 3 ELSE 2], Everyone(1), [a \in Account |-> IF a = a1 THEN 0 ELSE 2]}

Registry == {registry}
TokenToo == {registry, Token}
==============================================================================
