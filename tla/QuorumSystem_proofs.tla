-------------------------- MODULE QuorumSystem_proofs --------------------------
(***************************************************************************)
(* Theorems about QuorumSystem: the two contracts deployed together do     *)
(* what each of them does on its own, for all values of the constants      *)
(* under which a voting period is shorter than the token's retention.      *)
(* Every theorem about one contract then holds of the two together.        *)
(***************************************************************************)
EXTENDS QuorumSystem, QuorumToken_proofs

(* The governance contract with its theorems.                              *)
Promised == INSTANCE Governor_proofs
  WITH Account <- Member, Holdings <- {[a \in Member |-> 0]},
       Weights <- [Member -> 0 .. MaxAmount], Payments <- Amounts, Nominees <- Officers,
       pendingAdmin <- nextAdmin, supply <- totalSupply

(***************************************************************************)
(* Gov and Promised are the same instance of Governor, and the sums and    *)
(* the finite sets they are written with are those of the library.         *)
(***************************************************************************)

LEMMA SameSums ==
  ASSUME NEW f, NEW S
  PROVE  /\ Gov!SumFunctionOnSet(f, S) = SumFunctionOnSet(f, S)
         /\ Promised!SumFunctionOnSet(f, S) = SumFunctionOnSet(f, S)
         /\ Gov!SumFunction(f) = SumFunction(f)
         /\ Promised!SumFunction(f) = SumFunction(f)
<1>1. \A g, T : /\ Gov!SumFunctionOnSet(g, T) = SumFunctionOnSet(g, T)
               /\ Promised!SumFunctionOnSet(g, T) = SumFunctionOnSet(g, T)
  BY DEF SumFunctionOnSet, FoldFunctionOnSet, MapThenFoldSet, Gov!SumFunctionOnSet,
     Gov!FoldFunctionOnSet, Gov!MapThenFoldSet, Promised!SumFunctionOnSet,
     Promised!FoldFunctionOnSet, Promised!MapThenFoldSet
<1>2. QED
  BY <1>1 DEF SumFunction, Gov!SumFunction, Promised!SumFunction

LEMMA SameAssumptions == Promised!GovernorAssumption /\ Promised!HalvingAssumption
<1>1. \A S : Gov!IsFiniteSet(S) <=> Promised!IsFiniteSet(S)
  BY DEF Gov!IsFiniteSet, Promised!IsFiniteSet
<1>2. \A held : Gov!Start(held) = Promised!Start(held)
  BY DEF Gov!Start, Promised!Start, Gov!Holder, Promised!Holder
<1>3. Promised!GovernorAssumption
  BY <1>1, <1>2, SameSums, SystemAssumption DEF Gov!GovernorAssumption, Promised!GovernorAssumption
<1>4. Promised!HalvingAssumption
  BY SystemAssumption DEF Gov!HalvingAssumption, Promised!HalvingAssumption
<1>5. QED
  BY <1>3, <1>4

LEMMA SameStart == (Gov!Init <=> Promised!Init) /\ Gov!vars = Promised!vars
<1>1. \A f : Gov!SumFunction(f) = Promised!SumFunction(f)
  BY SameSums
<1>2. QED
  BY <1>1
     DEF Gov!Init, Promised!Init, Gov!Counted, Promised!Counted, Gov!Start,
     Promised!Start, Gov!Status, Promised!Status, Gov!Holder, Promised!Holder,
     Gov!vars, Promised!vars, Gov!roleVars, Promised!roleVars, Gov!tokenVars,
     Promised!tokenVars

LEMMA SameProposing == Gov!Proposing <=> Promised!Proposing
<1>1. \A sponsors, proposer :
        Gov!CombinedStake(sponsors, proposer) = Promised!CombinedStake(sponsors, proposer)
  BY SameSums DEF Gov!CombinedStake, Promised!CombinedStake
<1>2. \A a, sponsors, kind :
        Gov!CreateProposal(a, sponsors, kind) <=> Promised!CreateProposal(a, sponsors, kind)
  BY <1>1
     DEF Gov!CreateProposal, Promised!CreateProposal, Gov!ValidCosponsors,
     Promised!ValidCosponsors, Gov!CooledDown, Promised!CooledDown,
     Gov!NewProposal, Promised!NewProposal, Gov!PayToken, Promised!PayToken,
     Gov!roleVars, Promised!roleVars, Gov!SaturatedSum, Promised!SaturatedSum,
     Gov!Support, Promised!Support, Gov!NoTally, Promised!NoTally, Gov!NoVote,
     Promised!NoVote, Gov!Paid, Promised!Paid, Gov!Least, Promised!Least
<1>3. Gov!Ids = Promised!Ids
  BY DEF Gov!Ids, Promised!Ids
<1>4. \A id, t : Gov!SetProposalAction(id, t) <=> Promised!SetProposalAction(id, t)
  BY DEF Gov!SetProposalAction, Promised!SetProposalAction, Gov!roleVars,
     Promised!roleVars, Gov!tokenVars, Promised!tokenVars
<1>5. \A a, id : Gov!Cancel(a, id) <=> Promised!Cancel(a, id)
  BY DEF Gov!Cancel, Promised!Cancel, Gov!Cancellable, Promised!Cancellable,
     Gov!TakeDeposit, Promised!TakeDeposit, Gov!ForfeitDeposit,
     Promised!ForfeitDeposit, Gov!roleVars, Promised!roleVars, Gov!BurnToken,
     Promised!BurnToken
<1>6. QED
  BY <1>2, <1>3, <1>4, <1>5 DEF Gov!Proposing, Promised!Proposing

LEMMA SameDeciding == Gov!Deciding <=> Promised!Deciding
  BY DEF Gov!Deciding, Promised!Deciding, Gov!Ids, Promised!Ids, Gov!Support,
     Promised!Support, Gov!Vote, Promised!Vote, Gov!Finalize, Promised!Finalize,
     Gov!VoteOn, Promised!VoteOn, Gov!FinalizeQueued, Promised!FinalizeQueued,
     Gov!FinalizeFailed, Promised!FinalizeFailed, Gov!TalliesAfter,
     Promised!TalliesAfter, Gov!ConvictionAfter, Promised!ConvictionAfter,
     Gov!NoVote, Promised!NoVote, Gov!SaturatedSum, Promised!SaturatedSum,
     Gov!roleVars, Promised!roleVars, Gov!tokenVars, Promised!tokenVars,
     Gov!Closable, Promised!Closable, Gov!Passes, Promised!Passes,
     Gov!TakeDeposit, Promised!TakeDeposit, Gov!StatusChanged,
     Promised!StatusChanged, Gov!RefundDeposit, Promised!RefundDeposit,
     Gov!ForfeitDeposit, Promised!ForfeitDeposit, Gov!DecayTo, Promised!DecayTo,
     Gov!Least, Promised!Least, Gov!TotalVotes, Promised!TotalVotes,
     Gov!QuorumMet, Promised!QuorumMet, Gov!MajorityFor, Promised!MajorityFor,
     Gov!PayToken, Promised!PayToken, Gov!BurnToken, Promised!BurnToken, Gov!Paid,
     Promised!Paid

LEMMA SameResolving == Gov!Resolving <=> Promised!Resolving
  BY DEF Gov!Resolving, Promised!Resolving, Gov!Ids, Promised!Ids, Gov!Veto,
     Promised!Veto, Gov!Execute, Promised!Execute, Gov!MarkExpired,
     Promised!MarkExpired, Gov!SetStatus, Promised!SetStatus, Gov!roleVars,
     Promised!roleVars, Gov!tokenVars, Promised!tokenVars, Gov!DeadlineExists,
     Promised!DeadlineExists, Gov!PastDeadline, Promised!PastDeadline,
     Gov!ActionsAllowed, Promised!ActionsAllowed, Gov!PayToken, Promised!PayToken,
     Gov!Expirable, Promised!Expirable, Gov!StatusChanged, Promised!StatusChanged,
     Gov!Paid, Promised!Paid, Gov!SaturatedSum, Promised!SaturatedSum, Gov!Least,
     Promised!Least

LEMMA SameAdministering == Gov!Administering <=> Promised!Administering
  BY DEF Gov!Administering, Promised!Administering, Gov!SetProposalDeposit,
     Promised!SetProposalDeposit, Gov!SetProposerCooldown,
     Promised!SetProposerCooldown, Gov!SetGuardian, Promised!SetGuardian,
     Gov!SetTargetAllowed, Promised!SetTargetAllowed, Gov!TransferAdmin,
     Promised!TransferAdmin, Gov!AcceptAdmin, Promised!AcceptAdmin,
     Gov!CancelAdminTransfer, Promised!CancelAdminTransfer, Gov!Pause,
     Promised!Pause, Gov!Unpause, Promised!Unpause, Gov!Configure,
     Promised!Configure, Gov!roleVars, Promised!roleVars, Gov!tokenVars,
     Promised!tokenVars

LEMMA SameTrading == Gov!Trading <=> Promised!Trading
  BY DEF Gov!Trading, Promised!Trading, Gov!Holder, Promised!Holder,
     Gov!TokenTransfer, Promised!TokenTransfer, Gov!TokenBurn, Promised!TokenBurn,
     Gov!TokenMint, Promised!TokenMint, Gov!PayToken, Promised!PayToken,
     Gov!roleVars, Promised!roleVars, Gov!BurnToken, Promised!BurnToken, Gov!Paid,
     Promised!Paid

LEMMA SameCloseLedger == Gov!CloseLedger <=> Promised!CloseLedger
  BY DEF Gov!CloseLedger, Promised!CloseLedger, Gov!Ids, Promised!Ids,
     Gov!roleVars, Promised!roleVars, Gov!tokenVars, Promised!tokenVars

LEMMA SameCalls == [Gov!Next]_Gov!vars <=> [Promised!Next]_Promised!vars
<1>1. Gov!Next <=> Promised!Next
  BY SameProposing, SameDeciding, SameResolving, SameAdministering, SameTrading,
     SameCloseLedger DEF Gov!Next, Promised!Next
<1>2. Gov!vars = Promised!vars /\ Gov!vars' = Promised!vars'
  BY DEF Gov!vars, Promised!vars, Gov!roleVars, Promised!roleVars, Gov!tokenVars,
     Promised!tokenVars
<1>3. QED
  BY <1>1, <1>2

(***************************************************************************)
(* The invariant.                                                          *)
(***************************************************************************)

(* What the token's theorems rest on, ...                                  *)
TokenOK ==
  /\ AccountsOK /\ LocksOK
  /\ SpansOK /\ HeldBack
  /\ Tallied(Books, delegates, totalSupply)

(* ... the types, windows and deposits of the proposals, ...               *)
GovernorOK == Promised!TypeOK /\ Promised!FramesOK

(* ... that the governance contract never stakes, and that the weights     *)
(* noted at the close of a snapshot are still the token's answers.         *)
SystemInv ==
  /\ TokenOK
  /\ GovernorOK
  /\ locks[Self] = << >>
  /\ WeightsAreOfTheSnapshot

LEMMA Actors ==
  /\ Self \in Account /\ Member \subseteq Account /\ Self \notin Member
  /\ Users \subseteq Member
  /\ Receivers \subseteq Account /\ Minted \subseteq Account
  /\ Deposits \cup {0} \subseteq Amounts \cup {0}
  /\ Amounts \subseteq Nat \ {0}
<1>1. 0 \notin Deposits => Deposits \subseteq Amounts
  BY SystemAssumption
<1>2. QED
  BY <1>1, SystemAssumption, TokenAssumption DEF Member

(* What is known of a recorded proposal.                                   *)
LEMMA Recorded ==
  ASSUME GovernorOK, NEW id \in Gov!Ids
  PROVE  /\ id \in Promised!Ids
         /\ proposals[id] \in Promised!Proposal
         /\ proposals[id].proposer \in Member
         /\ proposals[id].deposit \in Amounts \cup {0}
         /\ proposals[id].snapshot \in Nat /\ proposals[id].snapshot <= ledger
         /\ proposals[id].start = proposals[id].snapshot + 1
         /\ proposals[id].end = proposals[id].start + VotingPeriod
         /\ ledger \in Nat /\ VotingPeriod \in Nat
<1>1. id \in Promised!Ids
  BY DEF Gov!Ids, Promised!Ids
<1>2. /\ proposals[id] \in Promised!Proposal
      /\ proposals[id].proposer \in Member
      /\ ledger \in Nat
  BY <1>1, SameAssumptions, Promised!ProposalFields DEF GovernorOK
<1>3. Promised!FrameOK(proposals[id], ledger)
  BY <1>1 DEF GovernorOK, Promised!FramesOK
<1>4. proposals[id].snapshot \in Nat /\ VotingPeriod \in Nat
  BY <1>2, SameAssumptions DEF Promised!Proposal, Promised!Sequence, Promised!GovernorAssumption
<1>5. QED
  BY <1>1, <1>2, <1>3, <1>4, Actors DEF Promised!FrameOK

(***************************************************************************)
(* The token's part of every step is a step of the token.                  *)
(***************************************************************************)

LEMMA PaysByTransfer ==
  ASSUME NEW from \in Account, NEW to \in Account, NEW amount \in Amounts \cup {0},
         Pay(from, to, amount)
  PROVE  [Next]_vars
  BY Actors DEF Pay, Next, Hold

LEMMA ForfeitsByBurning ==
  ASSUME NEW amount \in Amounts \cup {0}, Forfeit(amount)
  PROVE  [Next]_vars
  BY Actors DEF Forfeit, Next, Hold

LEMMA GovernCallsToken ==
  ASSUME GovernorOK, Govern
  PROVE  [Next]_vars
<1>1. config.deposit \in Amounts \cup {0}
  BY Actors DEF GovernorOK, Promised!FramesOK
<1>2. ASSUME NEW a \in Member, NEW sponsors, NEW kind, Propose(a, sponsors, kind)
      PROVE  [Next]_vars
  BY <1>1, <1>2, PaysByTransfer, Actors DEF Propose
<1>3. ASSUME NEW a, NEW id, NEW s, CastVote(a, id, s) PROVE [Next]_vars
  BY <1>3 DEF CastVote
<1>4. ASSUME NEW id \in Gov!Ids, Decide(id) PROVE [Next]_vars
  BY <1>4, Recorded, PaysByTransfer, ForfeitsByBurning, Actors DEF Decide
<1>5. ASSUME NEW a, NEW id \in Gov!Ids, CancelProposal(a, id) PROVE [Next]_vars
  BY <1>5, Recorded, ForfeitsByBurning DEF CancelProposal
<1>6. ASSUME NEW id, NEW n \in Amounts \cup {0}, NEW a \in Member, ExecuteProposal(id, n, a)
      PROVE  [Next]_vars
  BY <1>6, PaysByTransfer, Actors DEF ExecuteProposal
<1>7. CASE Otherwise
  BY <1>7 DEF Otherwise
<1>8. QED
  BY <1>2, <1>3, <1>4, <1>5, <1>6, <1>7 DEF Govern

LEMMA UseCallsToken ==
  ASSUME Use
  PROVE  Next
<1>1. Users \subseteq Account /\ Receivers \subseteq Account /\ Minted \subseteq Account
  BY Actors
<1>2. \A v \in Allowances : v.amount \in Amounts \cup {0} /\ v.expiration \in 0 .. MaxLedger
  BY SystemAssumption
<1>3. CASE \/ \E a \in Users, n \in Amounts \cup {0} : Initialize(a, n)
           \/ \E a \in Minted, n \in Amounts : Mint(a, n)
           \/ \E a \in Nominees : TransferAdmin(a)
           \/ AcceptAdmin
           \/ CancelAdminTransfer
  BY <1>1, <1>3 DEF Next, Administer
<1>4. CASE \/ \E a \in Users, b \in Receivers, n \in Amounts : Transfer(a, b, n)
           \/ \E a \in Users, n \in Amounts : Burn(a, n)
           \/ \E a \in Users \cap Delegators, b \in Receivers : Delegate(a, b)
           \/ \E a \in Users, n \in Amounts, d \in Durations : Stake(a, n, d)
           \/ \E a \in Users : Unstake(a)
  BY <1>1, <1>4 DEF Next, Hold
<1>5. CASE \/ \E a \in Users, s \in Spenders, v \in Allowances :
                Approve(a, s, v.amount, v.expiration)
           \/ \E s \in Spenders, a \in Users, b \in Receivers, n \in Amounts :
                TransferFrom(s, a, b, n)
           \/ \E s \in Spenders, a \in Users, n \in Amounts : BurnFrom(s, a, n)
  BY <1>1, <1>2, <1>5 DEF Next, SpendForOthers
<1>6. QED
  BY <1>3, <1>4, <1>5 DEF Use

LEMMA TokenStep ==
  ASSUME GovernorOK, [SystemNext]_systemVars
  PROVE  [Next]_vars
<1>1. Close => Next
  BY DEF Close, Next
<1>2. QED
  BY <1>1, GovernCallsToken, UseCallsToken DEF SystemNext, systemVars

LEMMA TokenOKStep ==
  ASSUME TokenOK, [Next]_vars
  PROVE  TokenOK'
<1>1. AccountsOK' /\ LocksOK'
  BY StepSound DEF TokenOK, Sound
<1>2. SpansOK' /\ HeldBack'
  BY HoldsStep DEF TokenOK
<1>3. Tallied(Books, delegates, totalSupply)'
  BY TalliedStep DEF TokenOK
<1>4. QED
  BY <1>1, <1>2, <1>3 DEF TokenOK

(***************************************************************************)
(* The governor's part of every step is a step of Governor.                *)
(***************************************************************************)

(* The balances after the token's calls, as Governor sees them.            *)
LEMMA MovesAre ==
  ASSUME TokenOK, NEW from \in Account, NEW to \in Account, NEW amount \in Amounts,
         CanMove(from, to, amount), Keep(Moved(Books, from, to, amount))
  PROVE  /\ balance[from] >= amount
         /\ balance' = LET sent == [balance EXCEPT ![from] = @ - amount]
                       IN  [sent EXCEPT ![to] = @ + amount]
<1> DEFINE d == Debited(Books, from, amount)
<1>1. /\ BooksOK(Books) /\ Books.balance = balance /\ ledger \in Sequence
      /\ delegates \in [Account -> Account] /\ balance \in [Account -> Amount]
      /\ Locked(from) \in Amount
  BY Numbers DEF TokenOK
<1>2. amount \in Nat /\ MaxAmount \in Nat
  BY Actors, Widths
<1>3. balance[from] >= amount /\ balance[from] - amount \in Amount
  BY <1>1, <1>2 DEF CanMove, Spendable, Amount
<1>4. Kept(Books, d) /\ d.balance = [balance EXCEPT ![from] = @ - amount]
  <2> DEFINE left == balance[from] - amount
  <2>1. CanSetBalance(Books, from, left) /\ left \in Amount
    BY <1>3 DEF CanMove
  <2>2. d = SetBalance(Books, from, left)
    BY <1>1 DEF Debited
  <2> HIDE DEF d, left
  <2>3. Kept(Books, d) /\ d.balance = [balance EXCEPT ![from] = left]
    BY <1>1, <2>1, <2>2, SetBalanceOK
  <2>4. QED
    BY <2>3 DEF left
<1>5. d.balance[to] + amount \in Amount
  BY <1>1, <1>2, <1>3, <1>4 DEF CanMove, Amount
<1>6. BooksOK(d) /\ CanSetBalance(d, to, d.balance[to] + amount)
  BY <1>4 DEF CanMove, Kept
<1> HIDE DEF d
<1>7. SetBalance(d, to, d.balance[to] + amount).balance
        = [d.balance EXCEPT ![to] = d.balance[to] + amount]
  BY <1>1, <1>5, <1>6, SetBalanceOK
<1>8. balance' = SetBalance(d, to, d.balance[to] + amount).balance
  BY DEF Keep, Moved, d
<1>9. QED
  BY <1>1, <1>3, <1>4, <1>7, <1>8

LEMMA IssuesAre ==
  ASSUME TokenOK, NEW a \in Account, NEW value \in Amount,
         CanSetBalance(Books, a, value), Keep(SetBalance(Books, a, value))
  PROVE  balance' = [balance EXCEPT ![a] = value]
<1>1. /\ BooksOK(Books) /\ Books.balance = balance /\ ledger \in Sequence
      /\ delegates \in [Account -> Account]
  BY Numbers DEF TokenOK
<1>2. SetBalance(Books, a, value).balance = [balance EXCEPT ![a] = value]
  BY <1>1, SetBalanceOK
<1>3. QED
  BY <1>2 DEF Keep

LEMMA DestroysAre ==
  ASSUME TokenOK, NEW from \in Account, NEW amount \in Amounts, Destroy(from, amount)
  PROVE  /\ balance[from] >= amount /\ totalSupply >= amount
         /\ balance' = [balance EXCEPT ![from] = @ - amount]
         /\ totalSupply' = totalSupply - amount
<1>1. balance \in [Account -> Amount] /\ Locked(from) \in Amount /\ Books.balance = balance
  BY Numbers DEF TokenOK
<1>2. amount \in Nat /\ MaxAmount \in Nat
  BY Actors, Widths
<1>3. balance[from] >= amount /\ balance[from] - amount \in Amount
  BY <1>1, <1>2 DEF Destroy, Spendable, Amount
<1>4. balance' = [balance EXCEPT ![from] = balance[from] - amount]
  BY <1>1, <1>3, IssuesAre DEF Destroy, Debited
<1>5. QED
  BY <1>3, <1>4 DEF Destroy, SetTotalSupply

(* Who delegates moves votes, not tokens.                                  *)
LEMMA DelegatesKeep ==
  ASSUME NEW a, NEW b, Delegate(a, b)
  PROVE  balance' = balance
  BY DEF Delegate, Keep, SetVotes, Books

(* Nothing exists before initialize.                                       *)
LEMMA NothingYet ==
  ASSUME TokenOK, admin = NoOne
  PROVE  totalSupply = 0 /\ \A a \in Account : balance[a] = 0
<1>1. \A a \in Account : balance[a] = 0
  BY DEF TokenOK, AccountsOK
<1>2. Books.balance = balance
  BY Numbers DEF TokenOK
<1>3. QED
  BY <1>1, <1>2, SumOfZeros, TokenAssumption DEF TokenOK, Tallied

(* What others do with their tokens is trading, or nothing, to Governor.   *)
LEMMA UseIsTrading ==
  ASSUME TokenOK, Use, UNCHANGED governed
  PROVE  [Gov!Next]_Gov!vars
<1> USE DEF governed
<1>1. /\ MaxAmount \in Nat /\ totalSupply \in Amount /\ balance \in [Account -> Amount]
      /\ Amounts \subseteq Amount /\ 0 \in Amount
  BY Numbers, Widths, TokenAssumption DEF TokenOK, Amount
<1>2. Gov!Holder = Account
  BY Actors DEF Gov!Holder, Member
<1> DEFINE Rest == UNCHANGED <<ledger, governed>>
<1>3. ASSUME NEW a \in Account, NEW n \in Amounts, Rest,
             balance' = [balance EXCEPT ![a] = @ + n], totalSupply' = totalSupply + n,
             totalSupply' \in Amount
      PROVE  Gov!Next
  <2>1. Gov!TokenMint(a, n)
    BY <1>1, <1>3 DEF Gov!TokenMint, Gov!roleVars, Amount
  <2>2. QED
    BY <1>2, <2>1 DEF Gov!Next, Gov!Trading
<1>4. ASSUME NEW a \in Users, NEW b \in Receivers, NEW n \in Amounts, Rest,
             CanMove(a, b, n), Keep(Moved(Books, a, b, n)), UNCHANGED totalSupply
      PROVE  Gov!Next
  <2>1. Gov!TokenTransfer(a, b, n)
    BY <1>4, MovesAre, Actors DEF Gov!TokenTransfer, Gov!PayToken, Gov!Paid, Gov!roleVars
  <2>2. QED
    BY <1>2, <2>1, Actors DEF Gov!Next, Gov!Trading
<1>5. ASSUME NEW a \in Users, NEW n \in Amounts, Rest, Destroy(a, n)
      PROVE  Gov!Next
  <2>1. Gov!TokenBurn(a, n)
    BY <1>5, DestroysAre, Actors DEF Gov!TokenBurn, Gov!BurnToken, Gov!roleVars
  <2>2. QED
    BY <2>1, Actors DEF Gov!Next, Gov!Trading
<1>6. ASSUME Rest, balance' = balance, totalSupply' = totalSupply
      PROVE  UNCHANGED Gov!vars
  BY <1>6 DEF Gov!vars, Gov!tokenVars, Gov!roleVars
<1>7. ASSUME NEW a \in Users, NEW n \in Amounts \cup {0}, Initialize(a, n)
      PROVE  [Gov!Next]_Gov!vars
  <2>1. a \in Account /\ n \in Amount /\ Rest
    BY <1>1, <1>7, Actors DEF Initialize
  <2>2. totalSupply = 0 /\ balance[a] = 0
    BY <1>7, <2>1, NothingYet DEF Initialize
  <2>3. balance' = [balance EXCEPT ![a] = n] /\ totalSupply' = n
    BY <1>7, <2>1, IssuesAre DEF Initialize, SetTotalSupply
  <2>4. CASE n = 0
    BY <1>1, <1>6, <2>1, <2>2, <2>3, <2>4
  <2>5. CASE n \in Amounts
    <3>1. balance' = [balance EXCEPT ![a] = @ + n] /\ totalSupply' = totalSupply + n
      BY <1>1, <2>1, <2>2, <2>3 DEF Amount
    <3>2. QED
      BY <1>3, <2>1, <2>3, <2>5, <3>1
  <2>6. QED
    BY <2>4, <2>5
<1>8. ASSUME NEW a \in Minted, NEW n \in Amounts, Mint(a, n)
      PROVE  Gov!Next
  <2>1. a \in Account /\ Rest /\ totalSupply' = totalSupply + n
    BY <1>8, Actors DEF Mint, SetTotalSupply
  <2>2. balance[a] + n \in Amount /\ totalSupply + n \in Amount
    BY <1>1, <1>8, <2>1 DEF Mint, Amount
  <2>3. balance' = [balance EXCEPT ![a] = @ + n]
    BY <1>8, <2>1, <2>2, IssuesAre DEF Mint
  <2>4. QED
    BY <1>3, <2>1, <2>2, <2>3
<1>9. CASE \/ \E a \in Nominees : TransferAdmin(a)
           \/ AcceptAdmin
           \/ CancelAdminTransfer
           \/ \E a \in Users, n \in Amounts, d \in Durations : Stake(a, n, d)
           \/ \E a \in Users : Unstake(a)
           \/ \E a \in Users, s \in Spenders, v \in Allowances :
                Approve(a, s, v.amount, v.expiration)
  BY <1>6, <1>9 DEF TransferAdmin, AcceptAdmin, CancelAdminTransfer, Stake, Unstake, Approve,
     supplyVars, books
<1>10. CASE \E a \in Users \cap Delegators, b \in Receivers : Delegate(a, b)
  <2>1. balance' = balance
    BY <1>10, DelegatesKeep
  <2>2. Rest /\ totalSupply' = totalSupply
    BY <1>10 DEF Delegate, supplyVars
  <2>3. QED
    BY <1>6, <2>1, <2>2
<1>11. CASE \E a \in Users, b \in Receivers, n \in Amounts : Transfer(a, b, n)
  BY <1>4, <1>11 DEF Transfer, supplyVars
<1>12. CASE \E a \in Users, n \in Amounts : Burn(a, n)
  BY <1>5, <1>12 DEF Burn
<1>13. CASE \E s \in Spenders, a \in Users, b \in Receivers, n \in Amounts :
              TransferFrom(s, a, b, n)
  BY <1>4, <1>13 DEF TransferFrom, supplyVars
<1>14. CASE \E s \in Spenders, a \in Users, n \in Amounts : BurnFrom(s, a, n)
  BY <1>5, <1>14 DEF BurnFrom
<1>15. QED
  BY <1>7, <1>8, <1>9, <1>10, <1>11, <1>12, <1>13, <1>14 DEF Use

(* What the token answers is an amount.                                    *)
LEMMA AnswersAreAmounts ==
  ASSUME TokenOK, NEW a \in Account, NEW at \in Nat
  PROVE  /\ PastDelegatedVotes(a, at) \in Nat /\ LockBoost(a, at) \in Nat
         /\ PastVotes(a, at) \in 0 .. MaxAmount
         /\ PastVotes(a, at) <= PastDelegatedVotes(a, at) + LockBoost(a, at)
<1>1. /\ BooksOK(Books) /\ ledger \in Sequence /\ ledger \in Nat
      /\ MaxAmount \in Nat
  BY Numbers, Widths DEF TokenOK
<1>2. IsHistory(VoteHistory(Books, a))
  BY <1>1, VoteHistoryOK
<1>3. \A e \in Checkpoint : e.balance \in Nat
  BY <1>1 DEF Checkpoint, Amount
<1>4. PastDelegatedVotes(a, at) \in Nat
  BY <1>1, <1>2, <1>3, ValueAtType DEF IsHistory, PastDelegatedVotes
<1>5. LockBoost(a, at) \in Nat
  BY <1>1, LockNumbers DEF TokenOK
<1>6. QED
  BY <1>1, <1>4, <1>5 DEF PastVotes

(* Under the hypothesis of the theorems every open vote can be weighed ... *)
LEMMA OpenVotes ==
  ASSUME GovernorOK, VotingPeriod < Retention, NEW id \in Gov!Ids,
         ledger \in proposals[id].start .. proposals[id].end
  PROVE  Answerable(proposals[id])
<1> DEFINE at == proposals[id].snapshot
<1>1. /\ at \in Nat /\ ledger \in Nat /\ VotingPeriod \in Nat /\ Retention \in Nat
      /\ proposals[id].start = at + 1 /\ proposals[id].end = at + 1 + VotingPeriod
  BY Recorded, Widths
<1>2. at < ledger /\ ledger <= at + Retention
  BY <1>1
<1>3. Cutoff(ledger, Retention) <= at /\ Cutoff(ledger, Retention) \in Nat
  BY <1>1, <1>2, CutoffBelow
<1>4. QED
  BY <1>1, <1>2, <1>3 DEF Answerable, Window

(* ... and is weighed with the weights noted when its snapshot closed.     *)
LEMMA AnswersAreNoted ==
  ASSUME SystemInv, NEW id \in Gov!Ids, Answerable(proposals[id])
  PROVE  Answered(proposals[id]) = proposals[id]
<1> DEFINE p == proposals[id]
           w == [a \in Member |-> PastVotes(a, p.snapshot)]
<1>1. p \in Promised!Proposal
  BY Recorded DEF SystemInv
<1>2. p.weights = w
  BY <1>1 DEF SystemInv, WeightsAreOfTheSnapshot, Promised!Proposal
<1> HIDE DEF w
<1>3. [p EXCEPT !.weights = w] = p
  BY <1>1, <1>2 DEF Promised!Proposal
<1>4. QED
  BY <1>3 DEF Answered, w

LEMMA VotesAreWeighed ==
  ASSUME SystemInv, VotingPeriod < Retention, NEW a \in Member, NEW id \in Gov!Ids,
         NEW s \in Gov!Support, CastVote(a, id, s)
  PROVE  Gov!Next
<1> DEFINE p == proposals[id]
<1>1. /\ Answered(p).start = p.start /\ Answered(p).end = p.end
      /\ p.start \in Nat /\ p.end \in Nat /\ ledger \in Nat
  BY Recorded DEF SystemInv, Answered, Promised!Proposal
<1>2. ledger \in p.start .. p.end
  BY <1>1 DEF CastVote, Gov!VoteOn
<1>3. Answered(p) = p
  BY <1>2, OpenVotes, AnswersAreNoted DEF SystemInv
<1>4. Gov!Vote(a, id, s)
  BY <1>3 DEF CastVote, Gov!Vote
<1>5. QED
  BY <1>4 DEF Gov!Next, Gov!Deciding

LEMMA GovernIsGoverning ==
  ASSUME SystemInv, VotingPeriod < Retention, Govern
  PROVE  Gov!Next
<1>1. ASSUME NEW a \in Member, NEW sponsors \in Sponsorships, NEW kind \in Kinds,
             Propose(a, sponsors, kind)
      PROVE  Gov!Next
  BY <1>1 DEF Propose, Gov!Next, Gov!Proposing
<1>2. ASSUME NEW id \in Gov!Ids, Decide(id) PROVE Gov!Next
  BY <1>2 DEF Decide, Gov!Next, Gov!Deciding, Gov!Finalize
<1>3. ASSUME NEW a \in Member, NEW id \in Gov!Ids, CancelProposal(a, id) PROVE Gov!Next
  BY <1>3 DEF CancelProposal, Gov!Next, Gov!Proposing
<1>4. ASSUME NEW id \in Gov!Ids, NEW n \in Amounts \cup {0}, NEW a \in Member,
             ExecuteProposal(id, n, a)
      PROVE  Gov!Next
  <2>1. n \in Nat /\ balance[Self] \in Nat /\ balance[Self] >= n
    BY <1>4, Actors, NonNegative DEF ExecuteProposal, Gov!Execute, Gov!PayToken, SystemInv, TokenOK
  <2>2. n \in 0 .. balance[Self]
    BY <2>1
  <2>3. QED
    BY <1>4, <2>2 DEF ExecuteProposal, Gov!Next, Gov!Resolving
<1>5. CASE Otherwise
  BY <1>5 DEF Otherwise, Gov!Next, Gov!Proposing, Gov!Resolving
<1>6. QED
  BY <1>1, <1>2, <1>3, <1>4, <1>5, VotesAreWeighed DEF Govern

LEMMA CloseIsClosing ==
  ASSUME SystemInv, Close
  PROVE  Gov!CloseLedger
<1> DEFINE w == [a \in Member |-> PastVotes(a, ledger)]
<1>1. w \in [Member -> 0 .. MaxAmount]
  BY AnswersAreAmounts, Numbers, Actors DEF SystemInv, TokenOK
<1>2. \A id \in Gov!Ids :
        proposals[id].snapshot = ledger =>
          Answered(proposals[id]) = [proposals[id] EXCEPT !.weights = w]
  BY DEF Answered
<1>3. /\ ledger < MaxLedger /\ ledger' = ledger + 1
      /\ UNCHANGED <<balance, totalSupply>>
      /\ UNCHANGED <<config, nextAdmin, lastProposal, allowed, stats>>
      /\ proposals' = [id \in Gov!Ids |->
                         IF proposals[id].snapshot = ledger THEN Answered(proposals[id])
                         ELSE proposals[id]]
  BY DEF Close, CloseLedger, books, supplyVars
<1> HIDE DEF w
<1>4. CASE \E id \in Gov!Ids : proposals[id].snapshot = ledger
  <2>1. proposals' = [id \in Gov!Ids |->
                        IF proposals[id].snapshot = ledger
                        THEN [proposals[id] EXCEPT !.weights = w] ELSE proposals[id]]
    BY <1>2, <1>3
  <2>2. QED
    BY <1>1, <1>3, <1>4, <2>1 DEF Gov!CloseLedger, Gov!roleVars, Gov!tokenVars
<1>5. CASE \A id \in Gov!Ids : proposals[id].snapshot # ledger
  <2>1. proposals \in Seq(Promised!Proposal)
    BY DEF SystemInv, GovernorOK, Promised!TypeOK
  <2>2. proposals = [id \in DOMAIN proposals |-> proposals[id]]
    BY <2>1
  <2>3. proposals' = proposals
    BY <1>3, <1>5, <2>2 DEF Gov!Ids
  <2>4. QED
    BY <1>3, <1>5, <2>3 DEF Gov!CloseLedger, Gov!roleVars, Gov!tokenVars
<1>6. QED
  BY <1>4, <1>5

LEMMA GovernorStep ==
  ASSUME SystemInv, VotingPeriod < Retention, [SystemNext]_systemVars
  PROVE  [Gov!Next]_Gov!vars /\ [Promised!Next]_Promised!vars
<1>1. CASE Govern
  <2>1. Gov!Next
    BY <1>1, GovernIsGoverning
  <2>2. QED
    BY <2>1, SameCalls
<1>2. CASE Use /\ UNCHANGED governed
  <2>1. [Gov!Next]_Gov!vars
    BY <1>2, UseIsTrading DEF SystemInv
  <2>2. QED
    BY <2>1, SameCalls
<1>3. CASE Close
  <2>1. Gov!Next
    BY <1>3, CloseIsClosing DEF Gov!Next
  <2>2. QED
    BY <2>1, SameCalls
<1>4. CASE UNCHANGED systemVars
  <2>1. UNCHANGED Gov!vars
    BY <1>4 DEF systemVars, vars, governed, supplyVars, books, Gov!vars, Gov!tokenVars,
       Gov!roleVars
  <2>2. QED
    BY <2>1, SameCalls
<1>5. QED
  BY <1>1, <1>2, <1>3, <1>4 DEF SystemNext

(***************************************************************************)
(* The invariant holds.                                                    *)
(***************************************************************************)

(* Only their owners' calls touch locks, and the governor makes none.      *)
LEMMA SelfStaysUnstaked ==
  ASSUME GovernorOK, LocksOK, locks[Self] = << >>, [SystemNext]_systemVars
  PROVE  locks'[Self] = << >>
<1>1. ASSUME NEW a \in Users, NEW amount, NEW unlock, RecordLock(a, amount, unlock)
      PROVE  locks'[Self] = << >>
  BY <1>1, Actors DEF RecordLock, LocksOK
<1>2. CASE Govern
  <2>1. \A from, to, amount : Pay(from, to, amount) => locks' = locks
    BY DEF Pay, Transfer, vars
  <2>2. \A amount : Forfeit(amount) => locks' = locks
    BY DEF Forfeit, Burn, vars
  <2>3. QED
    BY <1>2, <2>1, <2>2 DEF Govern, Propose, CastVote, Decide, CancelProposal, ExecuteProposal,
       Otherwise, vars
<1>3. CASE Use
  BY <1>1, <1>3 DEF Use, Initialize, Mint, TransferAdmin, AcceptAdmin, CancelAdminTransfer,
     Transfer, Burn, Delegate, Stake, Unstake, Approve, TransferFrom, BurnFrom
<1>4. CASE Close \/ UNCHANGED systemVars
  BY <1>4 DEF Close, CloseLedger, systemVars, vars
<1>5. QED
  BY <1>2, <1>3, <1>4 DEF SystemNext

(* The noted weights stay the token's answers: nobody moves the snapshot   *)
(* or the notes of a proposal, nothing moves what the token answers about  *)
(* a closed ledger it keeps, and the closing ledger is noted as it is.     *)
LEMMA WeightsStep ==
  ASSUME SystemInv, VotingPeriod < Retention, [SystemNext]_systemVars
  PROVE  WeightsAreOfTheSnapshot'
<1>1. /\ AccountsOK /\ LocksOK /\ [Next]_vars
      /\ ledger \in Nat /\ ledger' \in Nat
      /\ Cutoff(ledger, Retention) \in Nat /\ Cutoff(ledger', Retention) \in Nat
      /\ Cutoff(ledger, Retention) <= Cutoff(ledger', Retention)
  BY TokenStep, WindowMoves DEF SystemInv, TokenOK
<1>2. SUFFICES ASSUME NEW id \in (Gov!Ids)', Answerable(proposals[id])', NEW a \in Member,
                      NEW at, at = proposals'[id].snapshot
               PROVE  PastVotes(a, at)' = proposals'[id].weights[a]
  BY DEF WeightsAreOfTheSnapshot, PastVotes, PastDelegatedVotes, LockBoost
<1>3. a \in Account
  BY Actors
<1>4. at < ledger' /\ at \in Cutoff(ledger', Retention) .. ledger'
  BY <1>2 DEF Answerable, Window
<1>5. ASSUME at < ledger, id \in Gov!Ids, proposals[id].snapshot = at,
             proposals[id].weights = proposals'[id].weights
      PROVE  PastVotes(a, at)' = proposals'[id].weights[a]
  <2>1. at \in Cutoff(ledger', Retention) .. ledger - 1
    BY <1>1, <1>4, <1>5
  <2>2. PastVotes(a, at)' = PastVotes(a, at)
    BY <1>1, <1>3, <2>1, SettledStep
  <2>3. Answerable(proposals[id])
    BY <1>1, <1>5, <2>1 DEF Answerable, Window
  <2>4. PastVotes(a, at) = proposals[id].weights[a]
    BY <1>5, <2>3 DEF SystemInv, WeightsAreOfTheSnapshot
  <2>5. QED
    BY <1>5, <2>2, <2>4
<1>6. CASE Close
  <2>1. /\ ledger' = ledger + 1
        /\ id \in Gov!Ids
        /\ proposals'[id] = IF proposals[id].snapshot = ledger THEN Answered(proposals[id])
                            ELSE proposals[id]
    BY <1>2, <1>6 DEF Close, CloseLedger, Gov!Ids
  <2>2. proposals[id] \in Promised!Proposal /\ proposals[id].snapshot \in Nat
    BY <2>1, Recorded DEF SystemInv
  <2>3. CASE proposals[id].snapshot = ledger
    <3>1. at = ledger /\ proposals'[id].weights[a] = PastVotes(a, ledger)
      BY <1>2, <2>1, <2>2, <2>3 DEF Answered, Promised!Proposal
    <3>2. UNCHANGED <<checkpoints, voteCheckpoints, locks>>
      BY <1>6 DEF Close, CloseLedger, books
    <3>3. PastVotes(a, at)' = PastVotes(a, at)
      BY <3>2 DEF PastVotes, PastDelegatedVotes, VoteHistory, Books, LockBoost
    <3>4. QED
      BY <3>1, <3>3
  <2>4. CASE proposals[id].snapshot # ledger
    <3>1. proposals'[id] = proposals[id]
      BY <2>1, <2>4
    <3>2. at < ledger
      BY <1>1, <1>2, <1>4, <2>1, <2>2, <2>4, <3>1
    <3>3. QED
      BY <1>2, <1>5, <2>1, <3>1, <3>2
  <2>5. QED
    BY <2>3, <2>4
<1>7. CASE ~Close
  <2>1. ledger' = ledger
    <3>1. Govern => ledger' = ledger
      <4>1. \A from, to, amount : Pay(from, to, amount) => ledger' = ledger
        BY DEF Pay, Transfer, vars
      <4>2. \A amount : Forfeit(amount) => ledger' = ledger
        BY DEF Forfeit, Burn, vars
      <4>3. QED
        BY <4>1, <4>2 DEF Govern, Propose, CastVote, Decide, CancelProposal, ExecuteProposal,
           Otherwise, vars
    <3>2. Use => ledger' = ledger
      BY DEF Use, Initialize, Mint, TransferAdmin, AcceptAdmin, CancelAdminTransfer,
         Transfer, Burn, Delegate, Stake, Unstake, Approve, TransferFrom, BurnFrom
    <3>3. QED
      BY <1>7, <3>1, <3>2 DEF SystemNext, systemVars, vars
  <2>2. at < ledger
    BY <1>4, <2>1
  <2>3. [Promised!Next]_Promised!vars
    BY GovernorStep
  <2>4. /\ id \in Promised!Ids /\ proposals[id].snapshot = at
        /\ proposals[id].weights = proposals'[id].weights
    BY <1>2, <2>1, <2>2, <2>3, SameAssumptions, Promised!FramesStay
       DEF SystemInv, GovernorOK, Gov!Ids
  <2>5. QED
    BY <1>5, <2>2, <2>4 DEF Gov!Ids, Promised!Ids
<1>8. QED
  BY <1>6, <1>7

LEMMA SystemInvInit ==
  ASSUME SystemInit
  PROVE  SystemInv
<1>1. TokenOK
  BY InitSound, HoldsInit, TalliedInit DEF SystemInit, TokenOK
<1>2. GovernorOK
  BY SameStart, SameAssumptions, Promised!TypeInit, Promised!FramesInit
     DEF SystemInit, GovernorOK
<1>3. locks[Self] = << >> /\ proposals = << >>
  BY Actors DEF SystemInit, Init, Gov!Init
<1>4. WeightsAreOfTheSnapshot
  BY <1>3 DEF WeightsAreOfTheSnapshot, Gov!Ids
<1>5. QED
  BY <1>1, <1>2, <1>3, <1>4 DEF SystemInv

LEMMA SystemInvStep ==
  ASSUME SystemInv, VotingPeriod < Retention, [SystemNext]_systemVars
  PROVE  SystemInv'
<1>1. TokenOK'
  BY TokenStep, TokenOKStep DEF SystemInv
<1>2. GovernorOK'
  BY GovernorStep, SameAssumptions, Promised!TypeStep, Promised!FramesStep
     DEF SystemInv, GovernorOK
<1>3. locks'[Self] = << >>
  BY SelfStaysUnstaked DEF SystemInv, TokenOK
<1>4. QED
  BY <1>1, <1>2, <1>3, WeightsStep DEF SystemInv

LEMMA SystemInvariant ==
  ASSUME VotingPeriod < Retention
  PROVE  SystemSpec => []SystemInv
<1>1. SystemInit => SystemInv
  BY SystemInvInit
<1>2. SystemInv /\ [SystemNext]_systemVars => SystemInv'
  BY SystemInvStep
<1>3. QED
  BY <1>1, <1>2, PTL DEF SystemSpec

(***************************************************************************)
(* Each contract keeps its promises in the presence of the other.          *)
(***************************************************************************)

(* The token does what it does for anybody: whatever the governance        *)
(* contract makes it do, it is a behaviour of QuorumToken, so all that is  *)
(* proved of the token holds.                                              *)
THEOREM TokenIsItself ==
  ASSUME VotingPeriod < Retention
  PROVE  SystemSpec => Spec
<1>1. SystemInit => Init
  BY DEF SystemInit
<1>2. SystemInv /\ [SystemNext]_systemVars => [Next]_vars
  BY TokenStep DEF SystemInv
<1>3. QED
  BY <1>1, <1>2, SystemInvariant, PTL DEF Spec, SystemSpec

(* With a retention longer than a voting period, the governance contract   *)
(* is a behaviour of Governor, although its weights are live answers read  *)
(* from pruned histories and its payments are moves of checkpointed, partly*)
(* staked balances: no interleaving with transfers, delegations and stakes *)
(* shows the difference.                                                   *)
THEOREM GovernorIsImplemented ==
  ASSUME VotingPeriod < Retention
  PROVE  SystemSpec => ImplementsGovernor
<1>1. SystemInit => Gov!Init
  BY DEF SystemInit
<1>2. SystemInv /\ [SystemNext]_systemVars => [Gov!Next]_Gov!vars
  BY GovernorStep
<1>3. SystemSpec => Gov!Spec
  BY <1>1, <1>2, SystemInvariant, PTL DEF SystemSpec, Gov!Spec
<1>4. QED
  BY <1>3 DEF ImplementsGovernor

LEMMA GovernorIsPromised ==
  ASSUME VotingPeriod < Retention
  PROVE  SystemSpec => Promised!Spec
<1>1. SystemInit => Promised!Init
  BY SameStart DEF SystemInit
<1>2. SystemInv /\ [SystemNext]_systemVars => [Promised!Next]_Promised!vars
  BY GovernorStep
<1>3. QED
  BY <1>1, <1>2, SystemInvariant, PTL DEF SystemSpec, Promised!Spec

(* The weights a vote is counted with, and taken back with when it is      *)
(* changed, are those of the close of the snapshot ledger.                 *)
THEOREM WeightsAreFixed ==
  ASSUME VotingPeriod < Retention
  PROVE  SystemSpec => []WeightsAreOfTheSnapshot
<1>1. SystemInv => WeightsAreOfTheSnapshot
  BY DEF SystemInv
<1>2. QED
  BY <1>1, SystemInvariant, PTL

(* While a proposal is voted on, its snapshot is closed and still kept.    *)
THEOREM OpenVotesCanBeWeighed ==
  ASSUME VotingPeriod < Retention
  PROVE  SystemSpec => []VotesCanBeWeighed
<1>1. SystemInv => VotesCanBeWeighed
  BY OpenVotes DEF SystemInv, VotesCanBeWeighed
<1>2. QED
  BY <1>1, SystemInvariant, PTL

LEMMA BallotIsBacked ==
  ASSUME SystemInv, VotesAddUp, Promised!TalliesMatchReceipts,
         NEW id \in Gov!Ids, Answerable(proposals[id])
  PROVE  Gov!TotalVotes(proposals[id])
           <= PastSupply(proposals[id].snapshot) + BoostsAt(proposals[id].snapshot)
<1> DEFINE p == proposals[id]
           at == p.snapshot
           w == [a \in Account |-> IF a = Self THEN 0 ELSE p.weights[a]]
           G(s) == {a \in Member : p.receipts[a] = s}
           c(s) == [a \in Account |-> IF a \in G(s) THEN w[a] ELSE 0]
           two == [a \in Account |-> c("for")[a] + c("against")[a]]
           all == [a \in Account |-> two[a] + c("abstain")[a]]
           votes == [a \in Account |-> PastDelegatedVotes(a, at)]
           boosts == [a \in Account |-> LockBoost(a, at)]
           power == [a \in Account |-> votes[a] + boosts[a]]
<1>1. /\ id \in Promised!Ids /\ p \in Promised!Proposal /\ at \in Nat /\ at \in Window
      /\ IsFiniteSet(Account) /\ Member \subseteq Account /\ Self \notin Member
      /\ Member = Account \ {Self}
  BY Recorded, Actors, TokenAssumption DEF SystemInv, Answerable, Member
<1>2. ASSUME NEW a \in Account
      PROVE  w[a] \in Nat /\ votes[a] \in Nat /\ boosts[a] \in Nat /\ w[a] <= votes[a] + boosts[a]
  <2>1. votes[a] \in Nat /\ boosts[a] \in Nat
    BY <1>1, AnswersAreAmounts DEF SystemInv
  <2>2. CASE a = Self
    BY <2>1, <2>2
  <2>3. CASE a # Self
    <3>1. w[a] = PastVotes(a, at)
      BY <1>1, <2>3 DEF SystemInv, WeightsAreOfTheSnapshot
    <3>2. PastVotes(a, at) \in 0 .. MaxAmount /\ PastVotes(a, at) <= votes[a] + boosts[a]
      BY <1>1, AnswersAreAmounts DEF SystemInv
    <3> HIDE DEF w, votes, boosts
    <3>3. QED
      BY <2>1, <3>1, <3>2, Widths
  <2>4. QED
    BY <2>2, <2>3
<1>3. ASSUME NEW s \in {"for", "against", "abstain"}
      PROVE  /\ p.votes[s] = SumFunctionOnSet(c(s), Account)
             /\ SumFunctionOnSet(c(s), Account) \in Int
  <2>1. s \in Promised!Support
    BY <1>3 DEF Promised!Support
  <2>2. p.votes[s] = Promised!SumFunctionOnSet(p.weights, G(s))
    BY <1>1, <2>1 DEF Promised!TalliesMatchReceipts, Promised!WeightFor
  <2>3. p.votes[s] = SumFunctionOnSet(p.weights, G(s))
    BY <2>2, SameSums
  <2>4. G(s) \in SUBSET Account /\ IsFiniteSet(G(s))
    BY <1>1, FS_Subset
  <2>5. \A a \in G(s) : p.weights[a] = w[a]
    BY <1>1
  <2> HIDE DEF G, w
  <2>6. SumFunctionOnSet(p.weights, G(s)) = SumFunctionOnSet(w, G(s))
    BY <2>4, <2>5, SumSame
  <2>7. SumFunctionOnSet(w, G(s)) = SumFunctionOnSet(c(s), Account)
    BY <1>1, <1>2, <2>4, SumOfPart
  <2>8. SumFunctionOnSet(c(s), Account) \in Int
    BY <1>1, <1>2, SumType
  <2>9. QED
    BY <2>3, <2>6, <2>7, <2>8
<1>4. \A a \in Account :
        /\ c("for")[a] \in Int /\ c("against")[a] \in Int /\ c("abstain")[a] \in Int
        /\ two[a] \in Int /\ all[a] \in Int /\ power[a] \in Int
        /\ all[a] <= power[a]
  <2>1. ASSUME NEW a \in Account
        PROVE  /\ c("for")[a] \in Int /\ c("against")[a] \in Int /\ c("abstain")[a] \in Int
               /\ c("for")[a] + c("against")[a] + c("abstain")[a] <= w[a]
    <3>1. w[a] \in Nat
      BY <1>2
    <3> HIDE DEF w
    <3>2. QED
      BY <3>1
  <2> HIDE DEF c, w, votes, boosts
  <2>2. QED
    BY <1>2, <2>1
<1>5. SumFunctionOnSet(all, Account) <= SumFunctionOnSet(power, Account)
  <2> HIDE DEF all, power
  <2>1. QED
    BY <1>1, <1>4, SumMonotone
<1>6. SumFunctionOnSet(two, Account)
        = SumFunctionOnSet(c("for"), Account) + SumFunctionOnSet(c("against"), Account)
  <2>1. \A a \in Account : two[a] = c("for")[a] + c("against")[a]
    OBVIOUS
  <2> HIDE DEF two, c
  <2>2. QED
    BY <1>1, <1>4, <2>1, SumPlus
<1>7. SumFunctionOnSet(all, Account)
        = SumFunctionOnSet(two, Account) + SumFunctionOnSet(c("abstain"), Account)
  <2>1. \A a \in Account : all[a] = two[a] + c("abstain")[a]
    OBVIOUS
  <2> HIDE DEF all, two, c
  <2>2. QED
    BY <1>1, <1>4, <2>1, SumPlus
<1>8. SumFunctionOnSet(power, Account)
        = SumFunctionOnSet(votes, Account) + SumFunctionOnSet(boosts, Account)
  <2>1. \A a \in Account : power[a] = votes[a] + boosts[a]
    OBVIOUS
  <2> HIDE DEF power, votes, boosts
  <2>2. QED
    BY <1>1, <1>2, <1>4, <2>1, SumPlus
<1>9. SumFunctionOnSet(votes, Account) = PastSupply(at) /\ SumFunctionOnSet(boosts, Account) = BoostsAt(at)
  BY <1>1 DEF VotesAddUp, BoostsAt, SumFunction
<1>10. Gov!TotalVotes(p) = SumFunctionOnSet(c("for"), Account)
                             + SumFunctionOnSet(c("against"), Account)
                             + SumFunctionOnSet(c("abstain"), Account)
  BY <1>3 DEF Gov!TotalVotes
<1> HIDE DEF c, two, all, votes, boosts, power
<1>11. QED
  BY <1>5, <1>6, <1>7, <1>8, <1>9, <1>10

(* No token votes twice: the choices on a proposal weigh, together, no     *)
(* more than the supply at the snapshot and the boosts of its stakes.      *)
THEOREM BallotsAreBacked ==
  ASSUME VotingPeriod < Retention
  PROVE  SystemSpec => []VotesAreBacked
<1>1. SystemInv /\ VotesAddUp /\ Promised!TalliesMatchReceipts => VotesAreBacked
  BY BallotIsBacked DEF VotesAreBacked
<1>2. SystemSpec => []VotesAddUp
  BY TokenIsItself, TokensAreCountedOnce, PTL
<1>3. Promised!Spec => []Promised!TalliesMatchReceipts
  BY SameAssumptions, Promised!BallotsAreTallied
<1>4. SystemSpec => []Promised!TalliesMatchReceipts
  BY <1>3, GovernorIsPromised, PTL
<1>5. QED
  BY <1>1, <1>2, <1>4, SystemInvariant, PTL

LEMMA HeldCanBeMoved ==
  ASSUME SystemInv, Promised!DepositsAreHeld, NEW id \in Gov!Ids, proposals[id].deposit > 0
  PROVE  LET p == proposals[id]
         IN  /\ CanMove(Self, p.proposer, p.deposit)
             /\ Spendable(Self) >= p.deposit /\ totalSupply >= p.deposit
             /\ CanSetBalance(Books, Self, balance[Self] - p.deposit)
<1> DEFINE p == proposals[id]
           held == [i \in Promised!Ids |-> proposals[i].deposit]
<1>1. TokenOK /\ GovernorOK /\ locks[Self] = << >>
  BY DEF SystemInv
<1>2. /\ id \in Promised!Ids /\ p.proposer \in Account /\ Self \in Account
      /\ p.deposit \in Amounts /\ p.deposit \in Nat
  <2>1. p.deposit \in Amounts \cup {0} /\ p.deposit # 0
    BY <1>1, Recorded
  <2>2. QED
    BY <1>1, <2>1, Recorded, Actors
<1>3. IsFiniteSet(Promised!Ids)
  <2>1. proposals \in Seq(Promised!Proposal)
    BY <1>1 DEF GovernorOK, Promised!TypeOK
  <2>2. DOMAIN proposals = 1 .. Len(proposals) /\ Len(proposals) \in Int
    BY <2>1
  <2>3. IsFiniteSet(1 .. Len(proposals))
    BY <2>2, FS_Interval
  <2>4. QED
    BY <2>2, <2>3 DEF Promised!Ids
<1>4. \A i \in Promised!Ids : held[i] \in Nat
  <2>1. ASSUME NEW i \in Promised!Ids PROVE proposals[i].deposit \in Amounts \cup {0}
    <3>1. i \in Gov!Ids
      BY DEF Gov!Ids, Promised!Ids
    <3>2. QED
      BY <1>1, <3>1, Recorded
  <2>2. Amounts \cup {0} \subseteq Nat
    BY Actors
  <2>3. \A i \in Promised!Ids : proposals[i].deposit \in Nat
    BY <2>1, <2>2
  <2>4. QED
    BY <2>3
<1>5. /\ p.deposit <= SumFunctionOnSet(held, Promised!Ids)
      /\ SumFunctionOnSet(held, Promised!Ids) \in Nat
  <2>1. held[id] = p.deposit
    BY <1>2
  <2> HIDE DEF held
  <2>2. QED
    BY <1>2, <1>3, <1>4, <2>1, SumOfNaturals
<1>6. balance[Self] >= SumFunctionOnSet(held, Promised!Ids)
  BY SameSums DEF Promised!DepositsAreHeld, Promised!HeldDeposits, SumFunction
<1>7. /\ balance[Self] \in Nat /\ totalSupply \in Nat /\ totalSupply <= MaxAmount
      /\ BooksOK(Books) /\ ledger \in Sequence /\ delegates \in [Account -> Account]
      /\ Books.balance = balance /\ MaxAmount \in Nat
  BY <1>1, <1>2, Numbers, NonNegative, Widths DEF TokenOK, Amount
<1>8. balance[Self] >= p.deposit
  BY <1>2, <1>5, <1>6, <1>7
<1>9. Spendable(Self) = balance[Self]
  BY <1>1, <1>7 DEF Spendable, Locked, CurrentLock, NoLock
<1>10. CanMove(Self, p.proposer, p.deposit) /\ totalSupply >= p.deposit
  BY <1>1, <1>2, <1>8, <1>9, MoveIsPossible DEF TokenOK
<1>11. CanSetBalance(Books, Self, balance[Self] - p.deposit)
  <2> DEFINE left == balance[Self] - p.deposit
  <2>1. left \in Nat /\ totalSupply - Books.balance[Self] + left <= MaxAmount
    BY <1>2, <1>7, <1>8
  <2> HIDE DEF left
  <2>2. CanSetBalance(Books, Self, left)
    BY <1>1, <1>2, <1>7, <2>1, CanSetWithin DEF TokenOK
  <2>3. QED
    BY <2>2 DEF left
<1>12. QED
  BY <1>8, <1>9, <1>10, <1>11

(* While no proposal action can call the token in the governor's name,     *)
(* every recorded deposit can be refunded and can be burned: the governor  *)
(* has the tokens, none of them staked, and no checked sum of the token    *)
(* refuses the move, whatever the others do with theirs.                   *)
THEOREM DepositsAreMovable ==
  ASSUME VotingPeriod < Retention, Token \notin Target
  PROVE  SystemSpec => []DepositsCanBeMoved
<1>1. SystemInv /\ Promised!DepositsAreHeld => DepositsCanBeMoved
  BY HeldCanBeMoved DEF DepositsCanBeMoved
<1>2. Promised!Spec => []Promised!DepositsAreHeld
  BY SameAssumptions, Promised!DepositsStayHeld
<1>3. SystemSpec => []Promised!DepositsAreHeld
  BY <1>2, GovernorIsPromised, PTL
<1>4. QED
  BY <1>1, <1>3, SystemInvariant, PTL
(***************************************************************************)
(* How far the sum of the tallies can go.                                  *)
(***************************************************************************)

(* The boosts of a ledger's stakes are no more than its supply.            *)
LEMMA BoostsWithinSupply ==
  ASSUME TokenOK, VotesAddUp, BoostWithinBalance, NEW at \in Window
  PROVE  /\ BoostsAt(at) <= PastSupply(at)
         /\ BoostsAt(at) \in Nat /\ PastSupply(at) \in Nat
<1> DEFINE boosts == [a \in Account |-> LockBoost(a, at)]
           held == [a \in Account |-> PastBalance(a, at)]
           votes == [a \in Account |-> PastDelegatedVotes(a, at)]
<1>1. at \in Nat /\ IsFiniteSet(Account)
  <2>1. ledger \in Nat /\ Cutoff(ledger, Retention) \in Nat
    BY Numbers, CutoffType DEF TokenOK
  <2>2. QED
    BY <2>1, TokenAssumption DEF Window
<1>2. \A a \in Account : boosts[a] \in Nat /\ votes[a] \in Nat
  BY <1>1, AnswersAreAmounts
<1>3. \A a \in Account : held[a] \in Nat
  <2> SUFFICES ASSUME NEW a \in Account PROVE PastBalance(a, at) \in Nat
    OBVIOUS
  <2>1. IsHistory(checkpoints[a]) /\ ledger \in Nat
    BY Numbers DEF TokenOK, BooksOK, Books
  <2>2. \A e \in Checkpoint : e.balance \in Nat
    BY Widths DEF Checkpoint, Amount
  <2>3. QED
    BY <1>1, <2>1, <2>2, ValueAtType DEF IsHistory, PastBalance
<1>4. \A a \in Account : boosts[a] <= held[a]
  BY DEF BoostWithinBalance
<1>5. SumFunctionOnSet(held, Account) = PastSupply(at) /\ SumFunctionOnSet(boosts, Account) = BoostsAt(at)
  BY DEF VotesAddUp, BoostsAt, SumFunction
<1> HIDE DEF boosts, held, votes
<1>6. /\ SumFunctionOnSet(boosts, Account) <= SumFunctionOnSet(held, Account)
      /\ SumFunctionOnSet(boosts, Account) \in Nat /\ SumFunctionOnSet(held, Account) \in Nat
  BY <1>1, <1>2, <1>3, <1>4, SumMonotone, SumOfNaturals
<1>7. QED
  BY <1>5, <1>6

LEMMA TotalIsNumber ==
  ASSUME GovernorOK, NEW id \in Gov!Ids
  PROVE  Gov!TotalVotes(proposals[id]) \in Nat
<1> DEFINE v == proposals[id].votes
<1>1. v \in [{"against", "for", "abstain"} -> Promised!Amount]
  BY Recorded DEF Promised!Proposal, Promised!Support
<1>2. Promised!Amount \subseteq Nat
  BY SameAssumptions DEF Promised!Amount, Promised!GovernorAssumption
<1> HIDE DEF v
<1>3. v["for"] \in Nat /\ v["against"] \in Nat /\ v["abstain"] \in Nat
  BY <1>1, <1>2
<1>4. v["for"] + v["against"] + v["abstain"] \in Nat
  BY <1>3
<1>5. QED
  BY <1>4 DEF Gov!TotalVotes, v

TurnoutWithinTwice ==
  \A id \in Gov!Ids : Answerable(proposals[id]) =>
    Gov!TotalVotes(proposals[id])
      <= PastSupply(proposals[id].snapshot) + PastSupply(proposals[id].snapshot)

(* The note at finalize's checked sum has it that "honest tallies cannot   *)
(* exceed the supply" (lib.rs:630-631).  With the boosts of stakes they    *)
(* can, but not twice the supply at the snapshot: every boost is backed by *)
(* a token its owner held there, and no token is counted twice.            *)
THEOREM TurnoutIsBounded ==
  ASSUME VotingPeriod < Retention
  PROVE  SystemSpec => []TurnoutWithinTwice
<1>1. SystemInv /\ VotesAddUp /\ BoostWithinBalance /\ VotesAreBacked => TurnoutWithinTwice
  <2> SUFFICES ASSUME SystemInv, VotesAddUp, BoostWithinBalance, VotesAreBacked,
                      NEW id \in Gov!Ids, Answerable(proposals[id])
               PROVE  Gov!TotalVotes(proposals[id])
                        <= PastSupply(proposals[id].snapshot) + PastSupply(proposals[id].snapshot)
    BY DEF TurnoutWithinTwice
  <2> DEFINE at == proposals[id].snapshot
  <2>1. at \in Window
    BY DEF Answerable
  <2>2. BoostsAt(at) <= PastSupply(at) /\ BoostsAt(at) \in Nat /\ PastSupply(at) \in Nat
    BY <2>1, BoostsWithinSupply DEF SystemInv
  <2>3. Gov!TotalVotes(proposals[id]) <= PastSupply(at) + BoostsAt(at)
    BY DEF VotesAreBacked
  <2>4. Gov!TotalVotes(proposals[id]) \in Nat
    BY TotalIsNumber DEF SystemInv
  <2> HIDE DEF at
  <2>5. QED
    BY <2>2, <2>3, <2>4 DEF at
<1>2. SystemSpec => [](VotesAddUp /\ BoostWithinBalance)
  BY TokenIsItself, TokensAreCountedOnce, BoostNeedsTokens, PTL
<1>3. QED
  BY <1>1, <1>2, BallotsAreBacked, SystemInvariant, PTL

(* Counted while the vote was open, the tallies still fit when finalize    *)
(* adds them up, long after the token has forgotten the snapshot.          *)
TalliesFit == \A id \in Gov!Ids : Gov!TotalVotes(proposals[id]) <= MaxAmount

OpenTalliesFit ==
  \A id \in Gov!Ids : Answerable(proposals[id]) => Gov!TotalVotes(proposals[id]) <= MaxAmount

LEMMA TalliesFitStep ==
  ASSUME SystemInv, VotingPeriod < Retention, TalliesFit, OpenTalliesFit',
         [SystemNext]_systemVars
  PROVE  TalliesFit'
<1> SUFFICES ASSUME NEW id \in DOMAIN proposals'
             PROVE  Gov!TotalVotes(proposals'[id]) <= MaxAmount
  BY DEF TalliesFit, Gov!Ids, Gov!TotalVotes
<1>1. [Promised!Next]_Promised!vars /\ Promised!TypeOK
  BY GovernorStep DEF SystemInv, GovernorOK
<1>2. \/ id \in Gov!Ids /\ proposals'[id].votes = proposals[id].votes
      \/ /\ id \in Gov!Ids /\ ledger' = ledger
         /\ ledger \in proposals[id].start .. proposals[id].end
         /\ proposals'[id].snapshot = proposals[id].snapshot
      \/ Gov!TotalVotes(proposals'[id]) = 0
  BY <1>1, SameAssumptions, Promised!TallyStep DEF Gov!Ids, Promised!Ids, Gov!TotalVotes, Promised!TotalVotes
<1>3. CASE id \in Gov!Ids /\ proposals'[id].votes = proposals[id].votes
  BY <1>3 DEF TalliesFit, Gov!TotalVotes
<1>4. CASE /\ id \in Gov!Ids /\ ledger' = ledger
           /\ ledger \in proposals[id].start .. proposals[id].end
           /\ proposals'[id].snapshot = proposals[id].snapshot
  <2>1. Answerable(proposals[id])
    BY <1>4, OpenVotes DEF SystemInv
  <2>2. Answerable(proposals[id])'
    BY <1>4, <2>1 DEF Answerable, Window
  <2>3. QED
    BY <2>2 DEF OpenTalliesFit, Gov!Ids, Gov!TotalVotes
<1>5. CASE Gov!TotalVotes(proposals'[id]) = 0
  BY <1>5, Widths
<1>6. QED
  BY <1>2, <1>3, <1>4, <1>5

(* While the supply stays within half of i128, the sum of the tallies that *)
(* finalize checks cannot leave i128, however votes, changes of votes,     *)
(* delegations and stakes interleave.                                      *)
THEOREM TalliesCanBeAdded ==
  ASSUME VotingPeriod < Retention, NEW half \in Nat, half + half <= MaxAmount
  PROVE  SystemSpec /\ [](totalSupply <= half) => []TalliesFit
<1> DEFINE Past == PastAtMost(half)
           Small == totalSupply <= half
<1>1. SystemInit => TalliesFit
  BY DEF SystemInit, Gov!Init, TalliesFit, Gov!Ids
<1>2. SystemInv /\ VotesAddUp /\ BoostWithinBalance /\ TurnoutWithinTwice /\ Past => OpenTalliesFit
  <2> SUFFICES ASSUME SystemInv, VotesAddUp, BoostWithinBalance, TurnoutWithinTwice, Past,
                      NEW id \in Gov!Ids, Answerable(proposals[id])
               PROVE  Gov!TotalVotes(proposals[id]) <= MaxAmount
    BY DEF OpenTalliesFit
  <2> DEFINE at == proposals[id].snapshot
  <2>1. at \in Window
    BY DEF Answerable
  <2>2. PastSupply(at) \in Nat /\ PastSupply(at) <= half
    BY <2>1, BoostsWithinSupply DEF SystemInv, PastAtMost
  <2>3. Gov!TotalVotes(proposals[id]) <= PastSupply(at) + PastSupply(at)
    BY DEF TurnoutWithinTwice
  <2>4. Gov!TotalVotes(proposals[id]) \in Nat /\ MaxAmount \in Nat
    BY TotalIsNumber, Widths DEF SystemInv
  <2> HIDE DEF at
  <2>5. QED
    BY <2>2, <2>3, <2>4
<1>3. SystemInv /\ TalliesFit /\ OpenTalliesFit' /\ [SystemNext]_systemVars => TalliesFit'
  BY TalliesFitStep
<1>4. SystemSpec => [](VotesAddUp /\ BoostWithinBalance)
  BY TokenIsItself, TokensAreCountedOnce, BoostNeedsTokens, PTL
<1>5. Spec /\ []Small => []Past
  <2>1. Init => PastWithin(half)
    BY PastWithinInit
  <2>2. AccountsOK /\ LocksOK /\ Small /\ PastWithin(half) /\ [Next]_vars => PastWithin(half)'
    BY PastWithinStep
  <2>3. AccountsOK /\ LocksOK /\ Small /\ PastWithin(half) => Past
    BY PastWithinAnswers
  <2> HIDE DEF Past, Small
  <2>4. QED
    BY <2>1, <2>2, <2>3, TokenSound, PTL DEF Spec
<1> HIDE DEF Past, Small
<1>6. SystemSpec /\ []Small => []TalliesFit
  BY <1>1, <1>2, <1>3, <1>4, <1>5, TokenIsItself, TurnoutIsBounded, SystemInvariant, PTL
     DEF SystemSpec
<1>7. QED
  BY <1>6 DEF Small

(* Once voting on a proposal has closed, nothing but a timelock that no    *)
(* longer fits into the ledger sequence numbers keeps anyone from          *)
(* finalizing it: the tallies can be added, and the deposit can be paid    *)
(* back and can be burned, whichever way the vote went.                    *)
THEOREM ClosedVotesCanBeDecided ==
  ASSUME VotingPeriod < Retention, Token \notin Target,
         NEW half \in Nat, half + half <= MaxAmount
  PROVE  SystemSpec /\ [](totalSupply <= half) =>
           [](\A id \in Gov!Ids :
                LET p == proposals[id]
                IN  p.status = "Active" /\ ledger > p.end =>
                      /\ Gov!Closable(p)
                      /\ p.deposit > 0 =>
                           CanMove(Self, p.proposer, p.deposit) /\ totalSupply >= p.deposit)
<1> DEFINE Decidable ==
      \A id \in Gov!Ids :
        LET p == proposals[id]
        IN  p.status = "Active" /\ ledger > p.end =>
              /\ Gov!Closable(p)
              /\ p.deposit > 0 =>
                   CanMove(Self, p.proposer, p.deposit) /\ totalSupply >= p.deposit
           Small == totalSupply <= half
<1>1. TalliesFit /\ DepositsCanBeMoved => Decidable
  BY DEF TalliesFit, DepositsCanBeMoved, Gov!Closable
<1> HIDE DEF Decidable, Small
<1>2. SystemSpec /\ []Small => []TalliesFit
  BY TalliesCanBeAdded DEF Small
<1>3. SystemSpec /\ []Small => []Decidable
  BY <1>1, <1>2, DepositsAreMovable, PTL
<1>4. QED
  BY <1>3 DEF Decidable, Small
==============================================================================
