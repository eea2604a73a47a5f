------------------------ MODULE CheckpointSearch_proofs ------------------------
(***************************************************************************)
(* The binary search of the token contract is correct on every history the *)
(* contract can hold: of any length, on any set of ledgers.                *)
(***************************************************************************)
EXTENDS CheckpointSearch, TLAPS

(* The halving probe lies between the two ends.                            *)
LEMMA MidBetween ==
  ASSUME NEW lo \in Nat, NEW hi \in Nat, lo < hi
  PROVE  /\ lo + (hi - lo) \div 2 \in Nat
         /\ lo <= lo + (hi - lo) \div 2
         /\ lo + (hi - lo) \div 2 < hi
  OBVIOUS

(* A history is a sequence whose entries carry ledgers, in strictly        *)
(* increasing order.                                                       *)
LEMMA HistoryShape ==
  ASSUME NEW h \in Histories
  PROVE  /\ Len(h) \in Nat
         /\ DOMAIN h = 1 .. Len(h)
         /\ \A i \in 1 .. Len(h) : h[i].ledger \in Nat
         /\ \A i, j \in 1 .. Len(h) : i < j => h[i].ledger < h[j].ledger
<1>1. h \in Seq(Entry)
  BY HistoriesAssumption
<1>2. Len(h) \in Nat /\ DOMAIN h = 1 .. Len(h) /\ \A i \in 1 .. Len(h) : h[i] \in Entry
  BY <1>1
<1>3. \A i \in 1 .. Len(h) : h[i].ledger \in Nat
  BY <1>2, HistoriesAssumption, LedgerAssumption
<1>4. QED
  BY <1>2, <1>3, HistoriesAssumption DEF Increasing

(* The loop indexes never leave the vector and never cross, whatever the   *)
(* history: no probe of value_at or lock_before reads past its end.        *)
THEOREM SearchTypeOK == Spec => []TypeOK
<1>1. Init => TypeOK
  BY HistoryShape DEF Init, TypeOK
<1>2. TypeOK /\ [Next]_vars => TypeOK'
  <2> SUFFICES ASSUME TypeOK, [Next]_vars
               PROVE  TypeOK'
    OBVIOUS
  <2>1. Len(history) \in Nat
    BY HistoryShape DEF TypeOK
  <2>2. low < high => mid \in Nat /\ low <= mid /\ mid < high
    BY <2>1, MidBetween DEF TypeOK, mid
  <2>3. CASE GoRight
    BY <2>1, <2>2, <2>3 DEF GoRight, TypeOK, input
  <2>4. CASE GoLeft
    BY <2>1, <2>2, <2>4 DEF GoLeft, TypeOK, input
  <2>5. CASE UNCHANGED vars
    BY <2>5 DEF vars, TypeOK
  <2>6. QED
    BY <2>3, <2>4, <2>5 DEF Next
<1>3. QED
  BY <1>1, <1>2, PTL DEF Spec

(* The invariant of the loop: what is left of low counts for the target,   *)
(* what is from high on does not.  It rests on the ledgers increasing.     *)
LEMMA SearchBracketed == Spec => []Bracketed
<1>1. Init => Bracketed
  BY HistoryShape DEF Init, Bracketed
<1>2. TypeOK /\ Bracketed /\ [Next]_vars => Bracketed'
  <2> SUFFICES ASSUME TypeOK, Bracketed, [Next]_vars
               PROVE  Bracketed'
    OBVIOUS
  <2>1. /\ Len(history) \in Nat
        /\ DOMAIN history = 1 .. Len(history)
        /\ \A i \in 1 .. Len(history) : history[i].ledger \in Nat
        /\ \A i, j \in 1 .. Len(history) :
             i < j => history[i].ledger < history[j].ledger
    BY HistoryShape DEF TypeOK
  <2>2. target \in Nat
    BY LedgerAssumption DEF TypeOK
  <2>3. low < high => mid \in Nat /\ low <= mid /\ mid < high
    BY <2>1, MidBetween DEF TypeOK, mid
  <2>4. CASE GoRight
    <3>1. mid + 1 \in 1 .. Len(history) /\ Counts(history[mid + 1])
      BY <2>1, <2>3, <2>4 DEF GoRight, TypeOK
    <3>2. \A i \in 1 .. Len(history) : i <= mid + 1 => Counts(history[i])
      BY <2>1, <2>2, <3>1 DEF Counts, TypeOK
    <3>3. /\ low' = mid + 1 /\ high' = high
          /\ history' = history /\ target' = target /\ strict' = strict
      BY <2>4 DEF GoRight, input
    <3>4. QED
      BY <2>1, <3>2, <3>3 DEF Bracketed, Counts
  <2>5. CASE GoLeft
    <3>1. mid + 1 \in 1 .. Len(history) /\ ~Counts(history[mid + 1])
      BY <2>1, <2>3, <2>5 DEF GoLeft, TypeOK
    <3>2. \A i \in 1 .. Len(history) : i >= mid + 1 => ~Counts(history[i])
      BY <2>1, <2>2, <3>1 DEF Counts, TypeOK
    <3>3. /\ low' = low /\ high' = mid
          /\ history' = history /\ target' = target /\ strict' = strict
      BY <2>5 DEF GoLeft, input
    <3>4. QED
      BY <2>1, <2>3, <2>5, <3>2, <3>3 DEF Bracketed, Counts, GoLeft
  <2>6. CASE UNCHANGED vars
    BY <2>6 DEF vars, Bracketed, Counts
  <2>7. QED
    BY <2>4, <2>5, <2>6 DEF Next
<1>3. QED
  BY <1>1, <1>2, SearchTypeOK, PTL DEF Spec

(* When the loop ends, low is the entry LastUpTo names: value_at and       *)
(* lock_before read the last change at or before (strictly before) the     *)
(* ledger asked for, for every history and every ledger.                   *)
THEOREM SearchFindsLastEntry == Spec => []SearchIsCorrect
<1>1. TypeOK /\ Bracketed => SearchIsCorrect
  <2> SUFFICES ASSUME TypeOK, Bracketed, Finished
               PROVE  low = LastUpTo(history, target, strict)
    BY DEF SearchIsCorrect
  <2> DEFINE Splits(i) == \A j \in DOMAIN history :
                (j <= i) <=> (\/ history[j].ledger < target
                              \/ ~strict /\ history[j].ledger = target)
  <2>1. /\ Len(history) \in Nat
        /\ DOMAIN history = 1 .. Len(history)
        /\ \A i \in 1 .. Len(history) : history[i].ledger \in Nat
    BY HistoryShape DEF TypeOK
  <2>2. target \in Nat /\ strict \in BOOLEAN
    BY LedgerAssumption DEF TypeOK
  <2>3. low = high /\ low \in 0 .. Len(history)
    BY <2>1 DEF TypeOK, Finished
  <2>4. \A j \in 1 .. Len(history) :
           Counts(history[j]) <=> (\/ history[j].ledger < target
                                   \/ ~strict /\ history[j].ledger = target)
    BY <2>1, <2>2 DEF Counts
  <2>5. Splits(low)
    BY <2>1, <2>3, <2>4 DEF Bracketed
  <2>6. \A i \in 0 .. Len(history) : Splits(i) => i = low
    <3> SUFFICES ASSUME NEW i \in 0 .. Len(history), Splits(i), i # low
                 PROVE  FALSE
      OBVIOUS
    <3>1. CASE i < low
      BY <2>1, <2>3, <2>5, <3>1
    <3>2. CASE low < i
      BY <2>1, <2>3, <2>5, <3>2
    <3>3. QED
      BY <2>3, <3>1, <3>2
  <2>7. LastUpTo(history, target, strict) = CHOOSE i \in 0 .. Len(history) : Splits(i)
    BY DEF LastUpTo
  <2>8. QED
    BY <2>3, <2>5, <2>6, <2>7
<1>2. QED
  BY <1>1, SearchTypeOK, SearchBracketed, PTL
==============================================================================
