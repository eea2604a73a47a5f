--------------------------- MODULE CheckpointSearch ---------------------------
(***************************************************************************)
(* The binary search of the token contract, one probe per step: value_at   *)
(* (strict = FALSE: entries at or before the target) and lock_before       *)
(* (strict = TRUE: entries before the target) run the same loop over       *)
(* indexes 0 .. len(history) of a 0-based vector, held here as a 1-based   *)
(* sequence (index i of the vector is entry i + 1).                        *)
(*                                                                         *)
(* A search may be run on any history the contract can hold: the ledgers   *)
(* of its entries strictly increase.                                       *)
(***************************************************************************)
EXTENDS Checkpoints

CONSTANTS
  Ledger,    \* the ledger numbers an entry or a target may carry
  Entry,     \* checkpoints or locks: records with a ledger field
  Histories  \* the histories that may be searched

Increasing(history) ==
  \A i, j \in DOMAIN history : i < j => history[i].ledger < history[j].ledger

ASSUME LedgerAssumption == Ledger \subseteq Nat
ASSUME HistoriesAssumption ==
  /\ \A e \in Entry : e.ledger \in Ledger
  /\ Histories \subseteq Seq(Entry)
  /\ \A h \in Histories : Increasing(h)

VARIABLES history, target, strict, low, high

vars == <<history, target, strict, low, high>>
input == <<history, target, strict>>

Init ==
  /\ history \in Histories
  /\ target \in Ledger
  /\ strict \in BOOLEAN
  /\ low = 0
  /\ high = Len(history)

mid == low + (high - low) \div 2

(* Mutant: value_at compares strictly as well.                             *)
CountsBefore(entry) == entry.ledger < target

(* The match arm that moves low: the probed entry counts for the target.   *)
Counts(entry) == IF strict THEN entry.ledger < target ELSE entry.ledger <= target

(* Mutants: the probed entry stays in play; high moves one too far left;   *)
(* GoLeft on the wrong side of the probe.                                  *)
GoRightNotPast ==
  low < high /\ Counts(history[mid + 1]) /\ low' = mid /\ UNCHANGED <<high, input>>
GoLeftTooFar ==
  low < high /\ ~Counts(history[mid + 1]) /\ high' = mid - 1 /\ UNCHANGED <<low, input>>
GoLeftOfLow ==
  low < high /\ ~Counts(history[mid + 1]) /\ high' = low /\ UNCHANGED <<low, input>>

GoRight ==
  /\ low < high
  /\ Counts(history[mid + 1])
  /\ low' = mid + 1
  /\ UNCHANGED <<high, input>>

GoLeft ==
  /\ low < high
  /\ ~Counts(history[mid + 1])
  /\ high' = mid
  /\ UNCHANGED <<low, input>>

Next == GoRight \/ GoLeft

Spec == Init /\ [][Next]_vars
FairSpec == Spec /\ WF_vars(Next)

(* The loop has ended; entry low is the answer, or there is none.          *)
Finished == low >= high

------------------------------------------------------------------------------

(* The loop indexes stay inside the vector, so no probe reads past the end *)
(* and the unchecked low + (high - low) / 2 cannot leave 0 .. len.         *)
TypeOK ==
  /\ history \in Histories
  /\ target \in Ledger
  /\ strict \in BOOLEAN
  /\ low \in 0 .. Len(history)
  /\ high \in 0 .. Len(history)
  /\ low <= high

(* Everything left of low counts for the target, nothing from high on.     *)
Bracketed ==
  /\ \A i \in DOMAIN history : i <= low => Counts(history[i])
  /\ \A i \in DOMAIN history : i > high => ~Counts(history[i])

(* When the loop ends it has found the entry LastUpTo describes: the       *)
(* snapshot a proposal reads is the last change at or before it (for a     *)
(* lock, strictly before it), whatever order the probes took.              *)
SearchIsCorrect ==
  Finished => low = LastUpTo(history, target, strict)

(* Every search ends.                                                      *)
SearchTerminates == <>Finished
==============================================================================
