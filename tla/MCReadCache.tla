----------------------------- MODULE MCReadCache -----------------------------
(***************************************************************************)
(* Two keys with different TTLs competing for one entry or two.            *)
(***************************************************************************)
EXTENDS ReadCache

CONSTANTS first, second

MCKey == {first, second}
MCScopes == {{first}, MCKey}
MCTtl == [k \in MCKey |-> IF k = first THEN 2 ELSE 1]
==============================================================================
