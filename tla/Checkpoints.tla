----------------------------- MODULE Checkpoints -----------------------------
(***************************************************************************)
(* The ledger-indexed histories of the token contract                      *)
(* (contracts/token/src/lib.rs): balances, votes and total supply are kept *)
(* as sequences of [ledger, balance] entries, stakes as sequences of       *)
(* [ledger, amount, unlock] entries, both in increasing ledger order with  *)
(* one entry per ledger.  The module has no state: it is the library the   *)
(* token module is written with.                                           *)
(*                                                                         *)
(* ValueAt and LockBefore say what the two binary searches of the contract *)
(* return; the searches themselves, probe by probe, are CheckpointSearch.  *)
(***************************************************************************)
EXTENDS Integers, Sequences

(* Mutant: every change adds an entry.                                     *)
RecordAppending(history, entry) == Append(history, entry)

(* One entry per ledger: a second change in the same ledger overwrites the *)
(* first.  Entries of any shape that carry a ledger field.                 *)
Record(history, entry) ==
  LET n == Len(history)
  IN  IF n > 0 /\ history[n].ledger = entry.ledger
      THEN [history EXCEPT ![n] = entry]
      ELSE Append(history, entry)

(* The entries before cutoff, which lead the history.                      *)
Stale(history, cutoff) ==
  {i \in DOMAIN history : \A j \in 1 .. i : history[j].ledger < cutoff}

(* Mutant: every stale entry is dropped.                                   *)
PruneAllStale(history, cutoff) == SelectSeq(history, LAMBDA e : e.ledger >= cutoff)

(* Drops the stale entries except the newest of them, which is the value   *)
(* in effect at the cutoff.                                                *)
Prune(history, cutoff) ==
  LET stale == Stale(history, cutoff)
      kept  == IF stale = {} THEN 1
               ELSE CHOOSE i \in stale : \A j \in stale : j <= i
  IN  SubSeq(history, kept, Len(history))

(* The ledger the retention window opens at (a saturating subtraction).    *)
Cutoff(ledger, retention) == IF ledger < retention THEN 0 ELSE ledger - retention

(* The place of the last entry a search for ledger settles on: the last    *)
(* one at or before it, or (strict) the last one before it.  0 if none.    *)
LastUpTo(history, ledger, strict) ==
  CHOOSE i \in 0 .. Len(history) :
    \A j \in DOMAIN history :
      (j <= i) <=> (history[j].ledger < ledger \/ (~strict /\ history[j].ledger = ledger))

(* The value in effect at the end of ledger: 0 before the first entry.     *)
ValueAt(history, ledger) ==
  LET i == LastUpTo(history, ledger, FALSE)
  IN  IF i = 0 THEN 0 ELSE history[i].balance

NoLock == [ledger |-> 0, amount |-> 0, unlock |-> 0]

(* Mutant: a lock of the ledger asked for counts.                          *)
LockUpTo(locks, ledger) ==
  LET i == LastUpTo(locks, ledger, FALSE) IN IF i = 0 THEN NoLock ELSE locks[i]

(* The newest lock recorded strictly before ledger.                        *)
LockBefore(locks, ledger) ==
  LET i == LastUpTo(locks, ledger, TRUE)
  IN  IF i = 0 THEN NoLock ELSE locks[i]

(* The lock in force now: the newest entry while it still holds an amount. *)
CurrentLock(locks) ==
  IF locks # << >> /\ locks[Len(locks)].amount > 0 THEN locks[Len(locks)] ELSE NoLock

(* The stake boost of a lock history at the close of ledger, with the      *)
(* division split as in the source so that the product cannot overflow.    *)
Boost(locks, ledger, maxLock) ==
  LET lock      == LockBefore(locks, ledger)
      remaining == lock.unlock - ledger
  IN  IF lock.amount <= 0 \/ ledger >= lock.unlock
      THEN 0
      ELSE (lock.amount \div maxLock) * remaining
             + ((lock.amount % maxLock) * remaining) \div maxLock
==============================================================================
