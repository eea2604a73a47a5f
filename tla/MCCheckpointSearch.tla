-------------------------- MODULE MCCheckpointSearch --------------------------
(***************************************************************************)
(* Every history of up to MaxEntries entries on ledgers 0 .. MaxLedger,    *)
(* searched for every ledger, both strictly and not.  Balances play no     *)
(* part in the search and are left out of the entries.                     *)
(***************************************************************************)
EXTENDS CheckpointSearch, FiniteSets

CONSTANTS MaxLedger, MaxEntries

MCLedger == 0 .. MaxLedger

MCEntry == [ledger : MCLedger]

MCHistories ==
  {h \in UNION {[1 .. n -> MCEntry] : n \in 0 .. MaxEntries} :
     \A i \in 2 .. Len(h) : h[i - 1].ledger < h[i].ledger}
==============================================================================
