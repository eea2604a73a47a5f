------------------------------ MODULE QuorumToken ------------------------------
(***************************************************************************)
(* The token contract (contracts/token/src/lib.rs): balances, allowances,  *)
(* delegated votes, stake locks and the histories governance reads its     *)
(* snapshots from.                                                         *)
(*                                                                         *)
(* A contract call either returns Ok and keeps all of its writes or        *)
(* returns an error (or traps) and keeps none, so a call is one action and *)
(* its error paths are the negations of its guards.  Every call happens in *)
(* the current ledger; CloseLedger is the network moving to the next one.  *)
(*                                                                         *)
(* The three variables a balance change writes together (balance,          *)
(* checkpoints, voteCheckpoints) are handled as one record, the books, so  *)
(* that a call which writes them several times in a row is a composition   *)
(* of operators.                                                           *)
(***************************************************************************)
EXTENDS Checkpoints, FiniteSets, Functions

CONSTANTS
  Account,     \* every address: holders, spenders, contracts
  NoOne,       \* an absent address
  MaxAmount,   \* the largest amount (i128::MAX)
  MaxSequence, \* the largest ledger sequence number (u32::MAX)
  Retention,   \* CHECKPOINT_RETENTION
  MinLock,     \* MIN_LOCK_LEDGERS
  MaxLock,     \* MAX_LOCK_LEDGERS
  Amounts,     \* the amounts calls are made with
  Durations,   \* the stake durations calls are made with
  Delegators,  \* the addresses that call delegate
  Spenders,    \* the addresses approvals are made to
  Nominees,    \* the addresses admin rights are offered to
  MaxLedger    \* bound: the last ledger of a behaviour

ASSUME TokenAssumption ==
  /\ IsFiniteSet(Account)
  /\ NoOne \notin Account
  /\ MaxAmount \in Nat /\ MaxSequence \in Nat /\ Retention \in Nat
  /\ MinLock \in Nat /\ MaxLock \in Nat /\ 0 < MinLock /\ MinLock <= MaxLock
  /\ Amounts \subseteq 1 .. MaxAmount
  /\ Durations \subseteq Nat
  /\ Delegators \subseteq Account
  /\ Spenders \subseteq Account
  /\ Nominees \subseteq Account
  /\ MaxLedger \in Nat \ {0} /\ MaxLedger <= MaxSequence

VARIABLES
  ledger,            \* the current ledger sequence number
  admin,             \* DataKey::Admin, NoOne before initialize
  pendingAdmin,      \* DataKey::PendingAdmin
  totalSupply,       \* DataKey::TotalSupply
  supplyCheckpoints, \* DataKey::SupplyCheckpoints
  balance,           \* DataKey::Balance
  checkpoints,       \* DataKey::Checkpoints
  delegates,         \* DataKey::Delegate; an absent entry reads as the account itself
  voteCheckpoints,   \* DataKey::VoteCheckpoints, << >> while absent
  locks,             \* DataKey::Locks
  allowance,         \* DataKey::Allowance, by owner and spender
  granted,           \* history: the owner's last approve, by owner and spender
  drawn              \* history: what the spender has drawn since that approve

books     == <<balance, checkpoints, voteCheckpoints>>
supplyVars == <<totalSupply, supplyCheckpoints>>
approvals == <<allowance, granted, drawn>>
roles     == <<admin, pendingAdmin>>
vars == <<ledger, roles, supplyVars, books, delegates, locks, approvals>>

------------------------------------------------------------------------------
(* Reading and writing the books.                                          *)

Books == [balance |-> balance, checkpoints |-> checkpoints, votes |-> voteCheckpoints]

Keep(b) ==
  /\ balance' = b.balance
  /\ checkpoints' = b.checkpoints
  /\ voteCheckpoints' = b.votes

(* A holder without a vote history of their own reads as having voted with *)
(* their balance so far.                                                   *)
VoteHistory(b, account) ==
  IF b.votes[account] = << >> THEN b.checkpoints[account] ELSE b.votes[account]

CurrentVotes(b, account) == ValueAt(VoteHistory(b, account), ledger)

(* A history with value recorded for this ledger and old entries pruned.   *)
Written(history, value) ==
  Prune(Record(history, [ledger |-> ledger, balance |-> value]), Cutoff(ledger, Retention))

SetVotes(b, account, votes) ==
  [b EXCEPT !.votes[account] = Written(VoteHistory(b, account), votes)]

(* The delegatee's votes follow the owner's balance.                       *)
VotesAfter(b, owner, value) ==
  CurrentVotes(b, delegates[owner]) - b.balance[owner] + value

CanSetBalance(b, owner, value) ==
  /\ CurrentVotes(b, delegates[owner]) >= b.balance[owner]
  /\ VotesAfter(b, owner, value) <= MaxAmount

(* Mutant: the owner's votes move instead of the delegatee's.              *)
SetBalanceOwnVotes(b, owner, value) ==
  LET voted == SetVotes(b, owner, CurrentVotes(b, owner) - b.balance[owner] + value)
  IN  [voted EXCEPT !.balance[owner] = value, !.checkpoints[owner] = Written(@, value)]

SetBalance(b, owner, value) ==
  LET voted == SetVotes(b, delegates[owner], VotesAfter(b, owner, value))
  IN  [voted EXCEPT !.balance[owner] = value,
                    !.checkpoints[owner] = Written(@, value)]

Locked(owner) == CurrentLock(locks[owner]).amount

Spendable(owner) == balance[owner] - Locked(owner)

(* move_balance: to is credited on the books left by the debit, so a       *)
(* transfer to oneself nets to zero.                                       *)
Debited(b, from, amount) == SetBalance(b, from, b.balance[from] - amount)

(* Mutant: the receiver's balance is read before the debit.                *)
MovedFromStale(b, from, to, amount) ==
  SetBalance(Debited(b, from, amount), to, b.balance[to] + amount)

Moved(b, from, to, amount) ==
  LET d == Debited(b, from, amount) IN SetBalance(d, to, d.balance[to] + amount)

CanMove(from, to, amount) ==
  LET d == Debited(Books, from, amount)
  IN  /\ Spendable(from) >= amount
      /\ CanSetBalance(Books, from, balance[from] - amount)
      /\ d.balance[to] + amount <= MaxAmount
      /\ CanSetBalance(d, to, d.balance[to] + amount)

SetTotalSupply(supply) ==
  /\ totalSupply' = supply
  /\ supplyCheckpoints' =
       Record(supplyCheckpoints, [ledger |-> ledger, balance |-> supply])

(* An approval that has lapsed reads as nothing to draw on.                *)
LiveAllowance(owner, spender) ==
  IF allowance[owner][spender].expiration >= ledger
  THEN allowance[owner][spender].amount ELSE 0

(* Mutant: the allowance is not debited.                                   *)
DrawFreely(owner, spender, amount) ==
  drawn' = [drawn EXCEPT ![owner][spender] = @ + amount] /\ UNCHANGED <<allowance, granted>>

Draw(owner, spender, amount) ==
  /\ allowance' = [allowance EXCEPT ![owner][spender].amount = @ - amount]
  /\ drawn' = [drawn EXCEPT ![owner][spender] = @ + amount]
  /\ UNCHANGED granted

(* A lock change: recorded and pruned as a checkpoint is.                  *)
RecordLock(owner, amount, unlock) ==
  locks' = [locks EXCEPT ![owner] =
              Prune(Record(@, [ledger |-> ledger, amount |-> amount, unlock |-> unlock]),
                    Cutoff(ledger, Retention))]

------------------------------------------------------------------------------
(* What the views answer about the past.                                   *)

PastBalance(account, at) == ValueAt(checkpoints[account], at)
PastSupply(at) == ValueAt(supplyCheckpoints, at)
LockBoost(account, at) == Boost(locks[account], at, MaxLock)
PastDelegatedVotes(account, at) == ValueAt(VoteHistory(Books, account), at)

(* get_past_votes, with its saturating addition.                           *)
PastVotes(account, at) ==
  LET power == PastDelegatedVotes(account, at) + LockBoost(account, at)
  IN  IF power > MaxAmount THEN MaxAmount ELSE power

------------------------------------------------------------------------------
(* The calls.                                                              *)

NoAllowance == [amount |-> 0, expiration |-> 0]

Init ==
  /\ ledger = 1
  /\ admin = NoOne
  /\ pendingAdmin = NoOne
  /\ totalSupply = 0
  /\ supplyCheckpoints = << >>
  /\ balance = [a \in Account |-> 0]
  /\ checkpoints = [a \in Account |-> << >>]
  /\ delegates = [a \in Account |-> a]
  /\ voteCheckpoints = [a \in Account |-> << >>]
  /\ locks = [a \in Account |-> << >>]
  /\ allowance = [o \in Account |-> [s \in Spenders |-> NoAllowance]]
  /\ granted = allowance
  /\ drawn = [o \in Account |-> [s \in Spenders |-> 0]]

(* The genesis allocation goes to the admin.                               *)
Initialize(a, supply) ==
  /\ admin = NoOne
  /\ admin' = a
  /\ SetTotalSupply(supply)
  /\ CanSetBalance(Books, a, supply)
  /\ Keep(SetBalance(Books, a, supply))
  /\ UNCHANGED <<ledger, pendingAdmin, delegates, locks, approvals>>

Transfer(from, to, amount) ==
  /\ CanMove(from, to, amount)
  /\ Keep(Moved(Books, from, to, amount))
  /\ UNCHANGED <<ledger, roles, supplyVars, delegates, locks, approvals>>

TransferFrom(spender, from, to, amount) ==
  /\ LiveAllowance(from, spender) >= amount
  /\ CanMove(from, to, amount)
  /\ Keep(Moved(Books, from, to, amount))
  /\ Draw(from, spender, amount)
  /\ UNCHANGED <<ledger, roles, supplyVars, delegates, locks>>

(* What burn and burn_from share: the balance and the supply fall together.*)
Destroy(from, amount) ==
  /\ Spendable(from) >= amount
  /\ totalSupply >= amount
  /\ CanSetBalance(Books, from, balance[from] - amount)
  /\ Keep(Debited(Books, from, amount))
  /\ SetTotalSupply(totalSupply - amount)

Burn(from, amount) ==
  /\ Destroy(from, amount)
  /\ UNCHANGED <<ledger, roles, delegates, locks, approvals>>

BurnFrom(spender, from, amount) ==
  /\ LiveAllowance(from, spender) >= amount
  /\ Destroy(from, amount)
  /\ Draw(from, spender, amount)
  /\ UNCHANGED <<ledger, roles, delegates, locks>>

Mint(to, amount) ==
  /\ admin # NoOne
  /\ totalSupply + amount <= MaxAmount
  /\ balance[to] + amount <= MaxAmount
  /\ CanSetBalance(Books, to, balance[to] + amount)
  /\ SetTotalSupply(totalSupply + amount)
  /\ Keep(SetBalance(Books, to, balance[to] + amount))
  /\ UNCHANGED <<ledger, roles, delegates, locks, approvals>>

(* Replaces whatever was approved; a revocation takes any expiration.      *)
Approve(owner, spender, amount, expiration) ==
  /\ amount > 0 => expiration >= ledger
  /\ allowance' = [allowance EXCEPT ![owner][spender] =
                     [amount |-> amount, expiration |-> expiration]]
  /\ granted' = [granted EXCEPT ![owner][spender] =
                     [amount |-> amount, expiration |-> expiration]]
  /\ drawn' = [drawn EXCEPT ![owner][spender] = 0]
  /\ UNCHANGED <<ledger, roles, supplyVars, books, delegates, locks>>

(* Moves the delegator's own balance from one representative's votes to    *)
(* another's; votes delegated to the delegator stay where they are.        *)
(* Naming oneself (or the zero account) takes the votes back.              *)
Delegate(delegator, delegatee) ==
  LET previous == delegates[delegator]
      left     == SetVotes(Books, previous,
                           CurrentVotes(Books, previous) - balance[delegator])
  IN  /\ previous # delegatee
      /\ CurrentVotes(Books, previous) >= balance[delegator]
      /\ CurrentVotes(Books, delegatee) + balance[delegator] <= MaxAmount
      /\ Keep(SetVotes(left, delegatee,
                       CurrentVotes(Books, delegatee) + balance[delegator]))
      /\ delegates' = [delegates EXCEPT ![delegator] = delegatee]
      /\ UNCHANGED <<ledger, roles, supplyVars, locks, approvals>>

Stake(owner, amount, duration) ==
  /\ MinLock <= duration /\ duration <= MaxLock
  /\ CurrentLock(locks[owner]) = NoLock
  /\ amount <= balance[owner]
  /\ ledger + duration <= MaxSequence
  /\ RecordLock(owner, amount, ledger + duration)
  /\ UNCHANGED <<ledger, roles, supplyVars, books, delegates, approvals>>

(* Mutant: a stake can be released before its unlock ledger.               *)
UnstakeEarly(owner) ==
  LET lock == CurrentLock(locks[owner])
  IN  /\ lock # NoLock
      /\ RecordLock(owner, 0, lock.unlock)
      /\ UNCHANGED <<ledger, roles, supplyVars, books, delegates, approvals>>

Unstake(owner) ==
  LET lock == CurrentLock(locks[owner])
  IN  /\ lock # NoLock
      /\ ledger >= lock.unlock
      /\ RecordLock(owner, 0, lock.unlock)
      /\ UNCHANGED <<ledger, roles, supplyVars, books, delegates, approvals>>

TransferAdmin(a) ==
  /\ admin # NoOne
  /\ pendingAdmin' = a
  /\ UNCHANGED <<ledger, admin, supplyVars, books, delegates, locks, approvals>>

AcceptAdmin ==
  /\ pendingAdmin # NoOne
  /\ admin' = pendingAdmin
  /\ pendingAdmin' = NoOne
  /\ UNCHANGED <<ledger, supplyVars, books, delegates, locks, approvals>>

CancelAdminTransfer ==
  /\ admin # NoOne
  /\ pendingAdmin' = NoOne
  /\ UNCHANGED <<ledger, admin, supplyVars, books, delegates, locks, approvals>>

(* The network closes the current ledger and opens the next.               *)
CloseLedger ==
  /\ ledger < MaxLedger
  /\ ledger' = ledger + 1
  /\ UNCHANGED <<roles, supplyVars, books, delegates, locks, approvals>>

Administer ==
  \/ \E a \in Account, n \in Amounts \cup {0} : Initialize(a, n)
  \/ \E a \in Account, n \in Amounts : Mint(a, n)
  \/ \E a \in Nominees : TransferAdmin(a)
  \/ AcceptAdmin
  \/ CancelAdminTransfer

Hold ==
  \/ \E a, b \in Account, n \in Amounts : Transfer(a, b, n)
  \/ \E a \in Account, n \in Amounts : Burn(a, n)
  \/ \E a \in Delegators, b \in Account : Delegate(a, b)
  \/ \E a \in Account, n \in Amounts, d \in Durations : Stake(a, n, d)
  \/ \E a \in Account : Unstake(a)

SpendForOthers ==
  \/ \E o \in Account, s \in Spenders, n \in Amounts \cup {0}, e \in 0 .. MaxLedger :
       Approve(o, s, n, e)
  \/ \E s \in Spenders, a, b \in Account, n \in Amounts : TransferFrom(s, a, b, n)
  \/ \E s \in Spenders, a \in Account, n \in Amounts : BurnFrom(s, a, n)

Next == Administer \/ Hold \/ SpendForOthers \/ CloseLedger

Spec == Init /\ [][Next]_vars

------------------------------------------------------------------------------
(* Properties.                                                             *)

(* Entries are in ledger order, one per ledger, none from the future: what *)
(* the binary searches of value_at and lock_before rely on.                *)
Ordered(history) ==
  /\ \A i, j \in DOMAIN history : i < j => history[i].ledger < history[j].ledger
  /\ \A i \in DOMAIN history : history[i].ledger <= ledger

Amount   == 0 .. MaxAmount
Sequence == 0 .. MaxSequence
Checkpoint == [ledger : Sequence, balance : Amount]
LockEntry == [ledger : Sequence, amount : Amount, unlock : Sequence]

TypeOK ==
  /\ ledger \in Sequence
  /\ admin \in Account \cup {NoOne}
  /\ pendingAdmin \in Account \cup {NoOne}
  /\ totalSupply \in Amount
  /\ balance \in [Account -> Amount]
  /\ delegates \in [Account -> Account]
  /\ supplyCheckpoints \in Seq(Checkpoint)
  /\ checkpoints \in [Account -> Seq(Checkpoint)]
  /\ voteCheckpoints \in [Account -> Seq(Checkpoint)]
  /\ locks \in [Account -> Seq(LockEntry)]
  /\ allowance \in [Account -> [Spenders -> [amount : Amount, expiration : Sequence]]]

HistoriesOrdered ==
  /\ Ordered(supplyCheckpoints)
  /\ \A a \in Account :
       Ordered(checkpoints[a]) /\ Ordered(voteCheckpoints[a]) /\ Ordered(locks[a])

(* The ledgers whose history the contract promises to keep.                *)
Window == Cutoff(ledger, Retention) .. ledger

(* Whatever calls were made, in whatever order and however many in one     *)
(* ledger, the votes recorded for any ledger still in the window add up to *)
(* the supply of that ledger, and so do the balances: moving, minting,     *)
(* burning and (re-)delegating never counts a token twice or loses one.    *)
VotesAddUp ==
  \A at \in Window :
    /\ SumFunction([a \in Account |-> PastDelegatedVotes(a, at)]) = PastSupply(at)
    /\ SumFunction([a \in Account |-> PastBalance(a, at)]) = PastSupply(at)

(* An account's votes are exactly the balances of those who delegate to it,*)
(* its own included when it delegates to itself: delegation is not         *)
(* transitive and follows every later change of the delegator's balance.   *)
VotesFollowDelegation ==
  \A d \in Account :
    CurrentVotes(Books, d) =
      SumFunctionOnSet(balance, {a \in Account : delegates[a] = d})

(* The live values are the newest entries of their histories: no write     *)
(* path bypasses the checkpoint (the hazard set_balance's comment names).  *)
LiveIsRecorded ==
  /\ PastSupply(ledger) = totalSupply
  /\ \A a \in Account : PastBalance(a, ledger) = balance[a]

(* Once a ledger has closed, no call changes what the views answer about   *)
(* it while it is in the window: votes, balances and supply.  This is what *)
(* makes a proposal's snapshot safe from tokens bought, borrowed or        *)
(* re-delegated later, and from the pruning of old entries.                *)
PastIsSettled ==
  [][\A at \in Cutoff(ledger', Retention) .. ledger - 1, a \in Account :
       /\ PastVotes(a, at)' = PastVotes(a, at)
       /\ PastBalance(a, at)' = PastBalance(a, at)
       /\ PastSupply(at)' = PastSupply(at)]_vars

(* The boost of a stake is settled one ledger earlier: not even the open   *)
(* ledger's boost moves, so a stake or unstake made in the ledger of a     *)
(* proposal's snapshot cannot change that proposal's weights.              *)
BoostIsSettled ==
  [][\A at \in Cutoff(ledger', Retention) .. ledger, a \in Account :
       LockBoost(a, at)' = LockBoost(a, at)]_vars

(* No spending path (transfer, transfer_from, burn, burn_from) touches     *)
(* staked tokens.                                                          *)
LockedStaysInBalance == \A a \in Account : Locked(a) <= balance[a]

(* A boost never exceeds what its owner held at that ledger, after any     *)
(* sequence of stakes, releases and transfers ("the boost never exceeds    *)
(* amount", lock_boost).                                                   *)
BoostWithinBalance ==
  \A at \in Window, a \in Account : LockBoost(a, at) <= PastBalance(a, at)

(* A spender draws no more than the latest approval granted, and spending  *)
(* neither extends nor shortens the approval.                              *)
AllowanceAccounted ==
  \A o \in Account, s \in Spenders :
    /\ allowance[o][s].amount + drawn[o][s] = granted[o][s].amount
    /\ allowance[o][s].expiration = granted[o][s].expiration

(* Nothing is drawn from an approval after it has lapsed.                  *)
LapsedIsNotDrawn ==
  [][\A o \in Account, s \in Spenders :
       drawn'[o][s] > drawn[o][s] => ledger <= granted[o][s].expiration]_vars
==============================================================================
