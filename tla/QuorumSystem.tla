------------------------------ MODULE QuorumSystem ------------------------------
(***************************************************************************)
(* The two contracts deployed together.  The governance contract is one of *)
(* the token's accounts: it takes, pays back and burns deposits with calls *)
(* of the token, and weighs each vote by asking the token, at the moment   *)
(* of the vote, what the voter had at the proposal's snapshot.             *)
(*                                                                         *)
(* A governance call is the call of Governor together with the token call  *)
(* it makes, in one step.  Governor keeps a proposal's weights from the    *)
(* close of its snapshot on.  Here they are a history variable: no call    *)
(* reads them, and that they would do is what is to be shown               *)
(* (ImplementsGovernor).                                                   *)
(***************************************************************************)
EXTENDS QuorumToken

CONSTANTS
  Self,            \* the governance contract, one of the token's accounts
  Users,           \* the others, who call the token by themselves
  Receivers,       \* the accounts tokens are sent and votes delegated to
  Minted,          \* the accounts tokens are minted for
  Allowances,       \* the amounts approved, each with its last ledger
  Token, Target, Admin, Guardian, QuorumBps, BpsDenominator, VotingPeriod, TimelockPeriod,
  GracePeriod, Threshold, MaxActions, MaxCosponsors, HalfLife, MaxCount, Sponsorships, Kinds,
  Deposits, Cooldowns, Officers, Pausing, MaxProposals    \* see Governor

VARIABLES
  config, nextAdmin, proposals, lastProposal, allowed, stats    \* see Governor

Member == Account \ {Self}

Gov == INSTANCE Governor
  WITH Account <- Member, Holdings <- {[a \in Member |-> 0]},
       Weights <- [Member -> 0 .. MaxAmount], Payments <- Amounts, Nominees <- Officers,
       pendingAdmin <- nextAdmin, supply <- totalSupply

ASSUME SystemAssumption ==
  /\ Self \in Account
  /\ Users \subseteq Account \ {Self}
  /\ Receivers \subseteq Account /\ Minted \subseteq Account
  /\ Allowances \subseteq [amount : Amounts \cup {0}, expiration : 0 .. MaxLedger]
  /\ Gov!GovernorAssumption /\ Gov!HalvingAssumption
  /\ Deposits \subseteq Amounts \cup {0}

governed   == <<config, nextAdmin, proposals, lastProposal, allowed, stats>>
systemVars == <<vars, governed>>

------------------------------------------------------------------------------
(* The calls of the token that the governance contract makes.              *)

(* A deposit of nothing is not moved.                                      *)
Pay(from, to, amount) ==
  IF amount = 0 THEN UNCHANGED vars ELSE Transfer(from, to, amount)

Forfeit(amount) == IF amount = 0 THEN UNCHANGED vars ELSE Burn(Self, amount)

(* Mutants: a vote is weighed by what the voter has now; the boost is read *)
(* live while the votes are those of the snapshot.                         *)
AnsweredNow(p) == [p EXCEPT !.weights = [a \in Member |-> PastVotes(a, ledger)]]
AnsweredWithLiveBoost(p) ==
  [p EXCEPT !.weights = [a \in Member |-> PastDelegatedVotes(a, p.snapshot) + LockBoost(a, ledger)]]

(* The proposal with the weights the token answers for its snapshot.       *)
Answered(p) == [p EXCEPT !.weights = [a \in Member |-> PastVotes(a, p.snapshot)]]

------------------------------------------------------------------------------
(* The calls of the governance contract.                                   *)

Propose(a, sponsors, kind) ==
  Gov!CreateProposal(a, sponsors, kind) /\ Pay(a, Self, config.deposit)

CastVote(a, id, support) ==
  Gov!VoteOn(Answered(proposals[id]), a, id, support) /\ UNCHANGED vars

Decide(id) ==
  \/ Gov!FinalizeQueued(id) /\ Pay(Self, proposals[id].proposer, proposals[id].deposit)
  \/ Gov!FinalizeFailed(id) /\ Forfeit(proposals[id].deposit)

CancelProposal(a, id) == Gov!Cancel(a, id) /\ Forfeit(proposals[id].deposit)

ExecuteProposal(id, spent, to) == Gov!Execute(id, spent, to) /\ Pay(Self, to, spent)

(* The calls that make none of the token.                                  *)
Otherwise ==
  /\ \/ \E id \in Gov!Ids, t \in Target : Gov!SetProposalAction(id, t)
     \/ \E a \in Member, id \in Gov!Ids : Gov!Veto(a, id)
     \/ \E id \in Gov!Ids : Gov!MarkExpired(id)
     \/ Gov!Administering
  /\ UNCHANGED vars

Govern ==
  \/ \E a \in Member, sponsors \in Sponsorships, kind \in Kinds : Propose(a, sponsors, kind)
  \/ \E a \in Member, id \in Gov!Ids, s \in Gov!Support : CastVote(a, id, s)
  \/ \E id \in Gov!Ids : Decide(id)
  \/ \E a \in Member, id \in Gov!Ids : CancelProposal(a, id)
  \/ \E id \in Gov!Ids, n \in Amounts \cup {0}, a \in Member : ExecuteProposal(id, n, a)
  \/ Otherwise

------------------------------------------------------------------------------
(* The token's other users.  The governance contract signs for nothing but *)
(* the calls above, so it neither stakes, nor delegates, nor approves.     *)

Use ==
  \/ \E a \in Users, n \in Amounts \cup {0} : Initialize(a, n)
  \/ \E a \in Minted, n \in Amounts : Mint(a, n)
  \/ \E a \in Nominees : TransferAdmin(a)
  \/ AcceptAdmin
  \/ CancelAdminTransfer
  \/ \E a \in Users, b \in Receivers, n \in Amounts : Transfer(a, b, n)
  \/ \E a \in Users, n \in Amounts : Burn(a, n)
  \/ \E a \in Users \cap Delegators, b \in Receivers : Delegate(a, b)
  \/ \E a \in Users, n \in Amounts, d \in Durations : Stake(a, n, d)
  \/ \E a \in Users : Unstake(a)
  \/ \E a \in Users, s \in Spenders, v \in Allowances : Approve(a, s, v.amount, v.expiration)
  \/ \E s \in Spenders, a \in Users, b \in Receivers, n \in Amounts : TransferFrom(s, a, b, n)
  \/ \E s \in Spenders, a \in Users, n \in Amounts : BurnFrom(s, a, n)

(* A ledger closes.  What the token answers for it from now on is noted in *)
(* the proposals that have it as their snapshot.                           *)
Close ==
  /\ CloseLedger
  /\ proposals' = [id \in Gov!Ids |->
                     IF proposals[id].snapshot = ledger THEN Answered(proposals[id])
                     ELSE proposals[id]]
  /\ UNCHANGED <<config, nextAdmin, lastProposal, allowed, stats>>

SystemInit == Init /\ Gov!Init

SystemNext == Govern \/ (Use /\ UNCHANGED governed) \/ Close

SystemSpec == SystemInit /\ [][SystemNext]_systemVars

------------------------------------------------------------------------------
(* Properties.                                                             *)

(* A proposal that has closed its snapshot ledger and whose snapshot the   *)
(* token still keeps: while it is voted on, if voting periods are shorter  *)
(* than the retention (VotesCanBeWeighed).                                 *)
Answerable(p) == p.snapshot < ledger /\ p.snapshot \in Window

(* Whenever a vote is weighed, the token answers what the holder had when  *)
(* the snapshot ledger closed: no transfer, delegation, stake or pruning   *)
(* since then, however interleaved with votes, changes what a vote counts, *)
(* or what a changed vote takes back.                                      *)
WeightsAreOfTheSnapshot ==
  \A id \in Gov!Ids : Answerable(proposals[id]) =>
    \A a \in Member : PastVotes(a, proposals[id].snapshot) = proposals[id].weights[a]

(* "The longest voting period" that CHECKPOINT_RETENTION is made for: no   *)
(* open vote is weighed from a history that has been pruned.               *)
VotesCanBeWeighed ==
  \A id \in Gov!Ids :
    LET p == proposals[id]
    IN  p.status = "Active" /\ ledger \in p.start .. p.end => Answerable(p)

BoostsAt(at) == SumFunction([a \in Account |-> LockBoost(a, at)])

(* No token votes twice: whoever holds it when, and to whom its vote is    *)
(* delegated, all choices on a proposal together weigh no more than the    *)
(* supply at its snapshot and the boosts of what was staked then.          *)
VotesAreBacked ==
  \A id \in Gov!Ids : Answerable(proposals[id]) =>
    Gov!TotalVotes(proposals[id])
      <= PastSupply(proposals[id].snapshot) + BoostsAt(proposals[id].snapshot)

(* Every deposit on record can be paid back and can be burned, whichever   *)
(* way its proposal ends: the governor has the tokens, none of them is     *)
(* staked, and the token's checked sums of votes do not refuse.            *)
DepositsCanBeMoved ==
  \A id \in Gov!Ids :
    LET p == proposals[id]
    IN  p.deposit > 0 =>
          /\ CanMove(Self, p.proposer, p.deposit)
          /\ Spendable(Self) >= p.deposit /\ totalSupply >= p.deposit
          /\ CanSetBalance(Books, Self, balance[Self] - p.deposit)

(* With votes weighed by live answers of the token, and deposits moved by  *)
(* its checked and recorded transfers, the contract does what Governor     *)
(* says, which knows neither histories nor stakes.                         *)
ImplementsGovernor == Gov!Spec
==============================================================================
