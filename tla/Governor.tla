------------------------------- MODULE Governor -------------------------------
(***************************************************************************)
(* The governance contract (contracts/governance/src/lib.rs): proposals    *)
(* opened against a stake, voted on with weights fixed at a snapshot       *)
(* ledger, decided, held in a timelock the guardian may veto in, and       *)
(* executed or expired; deposits; conviction tallies; the action allowlist *)
(* and the roles.                                                          *)
(*                                                                         *)
(* A contract call keeps all of its writes or none, so a call is one       *)
(* action whose guards are the negations of its error paths.  Everything   *)
(* storage holds under a proposal's id (Proposal, HasVoted, Deposit,       *)
(* CoSponsors, Conviction, ProposalAction) is one record of proposals.     *)
(*                                                                         *)
(* The token is seen through the calls the governor makes to it: live      *)
(* balances, the supply, transfer and burn of deposits, and                *)
(* get_past_votes.  The weights of a proposal are unknown while its        *)
(* snapshot ledger is open and settle, to any of Weights, when it closes:  *)
(* that they never change afterwards is what QuorumToken shows of the      *)
(* token (PastIsSettled, BoostIsSettled).                                  *)
(***************************************************************************)
EXTENDS Integers, Sequences, FiniteSets, Functions

CONSTANTS
  Account,         \* holders: proposers, voters, admins, guardians
  Self,            \* the governance contract's own address
  Token,           \* the token contract's address
  Target,          \* the contracts proposal actions are pointed at
  NoOne,           \* an absent address
  Admin, Guardian, \* the roles initialize is given
  QuorumBps, BpsDenominator,
  VotingPeriod, TimelockPeriod, GracePeriod, Threshold,  \* Config, fixed at initialize
  MaxActions,      \* MAX_PROPOSAL_ACTIONS
  MaxCosponsors,   \* MAX_COSPONSORS
  HalfLife,        \* CONVICTION_HALF_LIFE
  MaxAmount,       \* the largest amount (i128::MAX)
  MaxSequence,     \* the largest ledger sequence number (u32::MAX)
  MaxCount,        \* the largest counter of the statistics (u64::MAX)
  Holdings,        \* the balances the holders may start with
  Weights,         \* the voting weights a snapshot may settle to
  Sponsorships,    \* the co-sponsor lists proposals are opened with
  Kinds,           \* of {"standard", "conviction"}: the constructors in use
  Payments,        \* the amounts holders move or burn, and the admin mints
  Deposits,        \* the values set_proposal_deposit is called with
  Cooldowns,       \* the values set_proposer_cooldown is called with
  Nominees,        \* the addresses roles are offered to
  Pausing,         \* whether pause and unpause are called
  MaxProposals,    \* bound: proposals opened in a behaviour
  MaxLedger        \* bound: the last ledger of a behaviour

Holder == Account \cup {Self}

(* The balances before the first proposal: the governor has none.          *)
Start(held) == [a \in Holder |-> IF a = Self THEN 0 ELSE held[a]]

ASSUME GovernorAssumption ==
  /\ IsFiniteSet(Account)
  /\ Self \notin Account /\ NoOne \notin Account
  /\ Admin \in Account /\ Guardian \in Account
  /\ BpsDenominator \in Nat /\ QuorumBps \in 1 .. BpsDenominator
  /\ VotingPeriod \in Nat
  /\ TimelockPeriod \in Nat \ {0}
  /\ GracePeriod \in Nat
  /\ Threshold \in Nat
  /\ MaxActions \in Nat /\ MaxCosponsors \in Nat
  /\ HalfLife \in Nat \ {0}
  /\ MaxAmount \in Nat /\ MaxSequence \in Nat /\ MaxCount \in Nat
  /\ Holdings \subseteq [Account -> 0 .. MaxAmount]
  /\ \A held \in Holdings : SumFunction(Start(held)) \in 0 .. MaxAmount
  /\ Weights \subseteq [Account -> 0 .. MaxAmount]
  /\ Sponsorships \subseteq Seq(Account)
  /\ Kinds \subseteq {"standard", "conviction"}
  /\ Payments \subseteq 1 .. MaxAmount
  /\ Deposits \subseteq 0 .. MaxAmount
  /\ Cooldowns \subseteq 0 .. MaxSequence
  /\ Nominees \subseteq Account
  /\ Pausing \in BOOLEAN
  /\ MaxProposals \in Nat
  /\ MaxLedger \in Nat \ {0} /\ MaxLedger <= MaxSequence

(* Plain arithmetic, which the provers do not know of exponentiation.      *)
ASSUME HalvingAssumption == \A n \in 0 .. MaxSequence : 2 ^ n \in Nat \ {0}

VARIABLES
  ledger,        \* the current ledger sequence number
  config,        \* the part of DataKey::Config that setters change
  pendingAdmin,  \* DataKey::PendingAdmin
  proposals,     \* everything stored under a proposal id, in id order
  lastProposal,  \* DataKey::LastProposal, 0 while absent
  allowed,       \* the addresses with DataKey::AllowedTarget
  stats,         \* DataKey::Stats
  balance,       \* the token's balances
  supply         \* the token's total supply

tokenVars == <<balance, supply>>
roleVars  == <<config, pendingAdmin>>
vars == <<ledger, roleVars, proposals, lastProposal, allowed, stats, tokenVars>>

Support  == {"against", "for", "abstain"}
NoVote   == "none"
Status   == {"Active", "Failed", "Queued", "Executed", "Cancelled", "Expired", "Vetoed"}
Counted  == Status \ {"Vetoed"}

NoTally == [for |-> 0, against |-> 0, updated |-> 0]

Ids == DOMAIN proposals

------------------------------------------------------------------------------
(* Token calls.                                                            *)

Paid(from, to, amount) ==
  LET sent == [balance EXCEPT ![from] = @ - amount] IN [sent EXCEPT ![to] = @ + amount]

(* token.transfer(from, to, amount)                                        *)
PayToken(from, to, amount) ==
  /\ balance[from] >= amount
  /\ balance' = Paid(from, to, amount)
  /\ supply' = supply

(* token.burn(from, amount)                                                *)
BurnToken(from, amount) ==
  /\ balance[from] >= amount
  /\ supply >= amount
  /\ balance' = [balance EXCEPT ![from] = @ - amount]
  /\ supply' = supply - amount

------------------------------------------------------------------------------
(* Helpers of the contract.                                                *)

Least(a, b) == IF a <= b THEN a ELSE b
SaturatedSum(a, b, max) == Least(a + b, max)

TotalVotes(p) == p.votes["for"] + p.votes["against"] + p.votes["abstain"]

(* decay_to: halve each side once for every whole half-life since the      *)
(* tally was last written.                                                 *)
DecayTo(tally, now) ==
  LET halvings == IF now < tally.updated THEN 0 ELSE (now - tally.updated) \div HalfLife
  IN  [for |-> tally.for \div 2 ^ halvings,
       against |-> tally.against \div 2 ^ halvings,
       updated |-> now]

(* Mutants: a tie passes; the conviction tally is decayed to the ledger of *)
(* the call.                                                               *)
MajorityForOnTie(p) == p.votes["for"] >= p.votes["against"]
MajorityForByNow(p) ==
  LET decayed == DecayTo(p.conviction, ledger) IN decayed.for > decayed.against

(* The majority rule of finalize.                                          *)
MajorityFor(p) ==
  IF p.kind = "conviction"
  THEN LET atClose == DecayTo(p.conviction, p.end) IN atClose.for > atClose.against
  ELSE p.votes["for"] > p.votes["against"]

QuorumMet(p) == TotalVotes(p) >= p.quorum
Passes(p)    == QuorumMet(p) /\ MajorityFor(p)

(* record_status_change: saturating, and Vetoed has no counter.            *)
StatusChanged(from, to) ==
  LET down == [stats EXCEPT ![from] = IF @ = 0 THEN 0 ELSE @ - 1]
  IN  stats' = [down EXCEPT ![to] = SaturatedSum(@, 1, MaxCount)]

(* Mutant: a repeated co-sponsor is accepted, and its balance counted      *)
(* twice.                                                                  *)
RepeatedCosponsors(sponsors, proposer) ==
  Len(sponsors) <= MaxCosponsors /\ \A i \in DOMAIN sponsors : sponsors[i] # proposer

(* Co-sponsors are few, distinct, and do not include the proposer.         *)
ValidCosponsors(sponsors, proposer) ==
  /\ Len(sponsors) <= MaxCosponsors
  /\ \A i \in DOMAIN sponsors :
       sponsors[i] # proposer /\ \A j \in 1 .. i - 1 : sponsors[j] # sponsors[i]

CombinedStake(sponsors, proposer) ==
  balance[proposer] + SumFunction([i \in DOMAIN sponsors |-> balance[sponsors[i]]])

CooledDown(proposer) ==
  lastProposal[proposer] # 0 =>
    ledger >= SaturatedSum(lastProposal[proposer], config.cooldown, MaxSequence)

SetStatus(id, status) == proposals' = [proposals EXCEPT ![id].status = status]

(* Mutant: the record stays.                                               *)
KeepDeposit(p) == p

(* take_deposit: whatever closes a proposal takes the record of its        *)
(* deposit away, so that it is moved once.                                 *)
TakeDeposit(p) == [p EXCEPT !.deposit = 0]

(* Mutants: the deposit that is set now is paid back; the tokens stay.     *)
RefundSetting(p) == PayToken(Self, p.proposer, config.deposit)
ForfeitNothing(p) == UNCHANGED tokenVars

RefundDeposit(p)  == PayToken(Self, p.proposer, p.deposit)
ForfeitDeposit(p) == BurnToken(Self, p.deposit)

(* The lifecycle phase get_proposal_phase reports.                         *)
PhaseOf(p) ==
  CASE p.status = "Active" /\ ledger < p.start -> "Pending"
    [] p.status = "Active" /\ ledger \in p.start .. p.end -> "Active"
    [] p.status = "Active" /\ ledger > p.end /\ ledger >= p.start -> "Ended"
    [] p.status = "Queued" /\ ledger < p.queue -> "Queued"
    [] p.status = "Queued" /\ ledger >= p.queue ->
         IF GracePeriod > 0 /\ ledger > SaturatedSum(p.queue, GracePeriod, MaxSequence)
         THEN "Expired" ELSE "ReadyToExecute"
    [] OTHER -> p.status

------------------------------------------------------------------------------
(* The state right after initialize; before it every call is refused.      *)

Init ==
  /\ ledger = 1
  /\ config = [admin |-> Admin, guardian |-> Guardian, paused |-> FALSE,
               deposit |-> 0, cooldown |-> 0]
  /\ pendingAdmin = NoOne
  /\ proposals = << >>
  /\ lastProposal = [a \in Account |-> 0]
  /\ allowed = {}
  /\ stats = [s \in Counted \cup {"cast"} |-> 0]
  /\ \E held \in Holdings : balance = Start(held) /\ supply = SumFunction(Start(held))

------------------------------------------------------------------------------
(* The life of a proposal.                                                 *)

NewProposal(proposer, sponsors, kind) ==
  [proposer    |-> proposer,
   cosponsors  |-> sponsors,
   kind        |-> kind,
   status      |-> "Active",
   votes       |-> [s \in Support |-> 0],
   snapshot    |-> ledger,
   start       |-> ledger + 1,
   end         |-> ledger + 1 + VotingPeriod,
   queue       |-> 0,
   quorum      |-> (supply * QuorumBps) \div BpsDenominator,
   timelock    |-> TimelockPeriod,
   deposit     |-> config.deposit,
   conviction  |-> [NoTally EXCEPT !.updated = ledger],
   receipts    |-> [a \in Account |-> NoVote],
   weights     |-> [a \in Account |-> 0],
   actions     |-> << >>]

(* open_proposal, behind the three constructors.  The statistics are not   *)
(* touched.                                                                *)
CreateProposal(proposer, sponsors, kind) ==
  /\ Len(proposals) < MaxProposals
  /\ kind = "conviction" => sponsors = << >>
  /\ ValidCosponsors(sponsors, proposer)
  /\ ~config.paused
  /\ CooledDown(proposer)
  /\ CombinedStake(sponsors, proposer) <= MaxAmount
  /\ CombinedStake(sponsors, proposer) >= Threshold
  /\ balance[proposer] >= config.deposit
  /\ supply * QuorumBps <= MaxAmount
  /\ ledger + 1 + VotingPeriod <= MaxSequence
  /\ proposals' = Append(proposals, NewProposal(proposer, sponsors, kind))
  /\ PayToken(proposer, Self, config.deposit)
  /\ lastProposal' = [lastProposal EXCEPT ![proposer] = ledger]
  /\ UNCHANGED <<ledger, roleVars, allowed, stats>>

(* Mutant: a changed vote counts for both choices.                         *)
TalliesKeepingOld(p, voter, support) == [p.votes EXCEPT ![support] = @ + p.weights[voter]]

(* The raw tallies once voter's choice is (or becomes) support.            *)
TalliesAfter(p, voter, support) ==
  LET weight   == p.weights[voter]
      previous == p.receipts[voter]
      without  == IF previous = NoVote THEN p.votes
                  ELSE [p.votes EXCEPT ![previous] = @ - weight]
  IN  [without EXCEPT ![support] = @ + weight]

(* The conviction tally once a vote is accepted: brought forward to this   *)
(* ledger, whatever the vote, and raised on the side of the vote.  Support *)
(* given before is not taken back.                                         *)
ConvictionAfter(p, voter, support) ==
  IF p.kind # "conviction" THEN p.conviction
  ELSE LET decayed == DecayTo(p.conviction, ledger)
       IN  IF support = "abstain" THEN decayed
           ELSE [decayed EXCEPT ![support] = @ + p.weights[voter]]

(* The vote of a voter whose weights the token answers as in p, which is   *)
(* proposals[id] up to them.                                               *)
VoteOn(p, voter, id, support) ==
  LET votes == TalliesAfter(p, voter, support)
      conviction == ConvictionAfter(p, voter, support)
  IN  /\ ledger <= p.end
      /\ p.status = "Active"
      /\ ledger >= p.start
      /\ p.weights[voter] > 0
      /\ p.receipts[voter] # NoVote => p.votes[p.receipts[voter]] >= p.weights[voter]
      /\ votes[support] <= MaxAmount
      /\ conviction.for <= MaxAmount /\ conviction.against <= MaxAmount
      /\ proposals' = [proposals EXCEPT ![id].votes = votes,
                                        ![id].conviction = conviction,
                                        ![id].receipts[voter] = support]
      /\ stats' = [stats EXCEPT !["cast"] = SaturatedSum(@, 1, MaxCount)]
      /\ UNCHANGED <<ledger, roleVars, lastProposal, allowed, tokenVars>>

Vote(voter, id, support) == VoteOn(proposals[id], voter, id, support)

(* Appends a call; the target must be allowed now, and again at execution. *)
SetProposalAction(id, target) ==
  LET p == proposals[id]
  IN  /\ ledger <= p.end
      /\ p.status = "Active"
      /\ target \in allowed
      /\ Len(p.actions) < MaxActions
      /\ proposals' = [proposals EXCEPT ![id].actions = Append(@, target)]
      /\ UNCHANGED <<ledger, roleVars, lastProposal, allowed, stats, tokenVars>>

(* Mutant: a vote without a quorum is left open.                           *)
ClosableWithQuorum(p) == ledger > p.end /\ p.status = "Active" /\ QuorumMet(p)

Closable(p) == ledger > p.end /\ p.status = "Active" /\ TotalVotes(p) <= MaxAmount

(* finalize, passing: the timelock starts and the deposit goes back.       *)
FinalizeQueued(id) ==
  LET p == proposals[id]
  IN  /\ Closable(p)
      /\ Passes(p)
      /\ ledger + p.timelock <= MaxSequence
      /\ proposals' = [proposals EXCEPT ![id] =
                         [TakeDeposit(p) EXCEPT !.status = "Queued",
                                                !.queue = ledger + p.timelock]]
      /\ StatusChanged("Active", "Queued")
      /\ RefundDeposit(p)
      /\ UNCHANGED <<ledger, roleVars, lastProposal, allowed>>

(* finalize, failing: the deposit is burned.                               *)
FinalizeFailed(id) ==
  LET p == proposals[id]
  IN  /\ Closable(p)
      /\ ~Passes(p)
      /\ proposals' = [proposals EXCEPT ![id] = [TakeDeposit(p) EXCEPT !.status = "Failed"]]
      /\ StatusChanged("Active", "Failed")
      /\ ForfeitDeposit(p)
      /\ UNCHANGED <<ledger, roleVars, lastProposal, allowed>>

Finalize(id) == FinalizeQueued(id) \/ FinalizeFailed(id)

(* Mutant: a closed vote that was not finalized can still be cancelled.    *)
CancellableLate(p) == p.status = "Active"

Cancellable(p) == p.status = "Active" /\ ledger <= p.end

(* Only while the voting window is open; the deposit is burned.            *)
Cancel(caller, id) ==
  LET p == proposals[id]
  IN  /\ caller \in {p.proposer, config.admin}
      /\ Cancellable(p)
      /\ proposals' = [proposals EXCEPT ![id] = [TakeDeposit(p) EXCEPT !.status = "Cancelled"]]
      /\ ForfeitDeposit(p)
      /\ UNCHANGED <<ledger, roleVars, lastProposal, allowed, stats>>

(* The guardian's veto, only while the timelock runs.                      *)
Veto(caller, id) ==
  LET p == proposals[id]
  IN  /\ caller = config.guardian
      /\ p.status = "Queued"
      /\ ledger < p.queue
      /\ SetStatus(id, "Vetoed")
      /\ UNCHANGED <<ledger, roleVars, lastProposal, allowed, stats, tokenVars>>

(* queue_ledger + execution_grace_period, an unchecked sum: it traps, and  *)
(* with it the whole call, when it leaves u32.                             *)
DeadlineExists(p) == p.queue + GracePeriod <= MaxSequence

(* Mutant: the last ledger of the grace period is already too late.        *)
PastDeadlineAtEnd(p) == GracePeriod > 0 /\ ledger >= p.queue + GracePeriod

PastDeadline(p) == GracePeriod > 0 /\ ledger > p.queue + GracePeriod

(* Mutant: the allowlist is only consulted when an action is attached.     *)
ActionsTrusted(p) == TRUE

ActionsAllowed(p) == \A i \in DOMAIN p.actions : p.actions[i] \in allowed

(* execute: the status is committed, then every action is called; a target *)
(* that is no longer allowed or a call that fails undoes the whole call,   *)
(* so an execution that happens ran every action.  What an action does is  *)
(* its target's business, except that calls to the token made in the       *)
(* governor's name may pay spent of the governor's tokens to someone.      *)
Execute(id, spent, to) ==
  LET p == proposals[id]
  IN  /\ ~config.paused
      /\ p.status = "Queued"
      /\ ledger >= p.queue
      /\ DeadlineExists(p)
      /\ ~PastDeadline(p)
      /\ ActionsAllowed(p)
      /\ spent > 0 => \E i \in DOMAIN p.actions : p.actions[i] = Token
      /\ SetStatus(id, "Executed")
      /\ PayToken(Self, to, spent)
      /\ UNCHANGED <<ledger, roleVars, lastProposal, allowed, stats>>

(* Mutant: not while the contract is paused.                               *)
ExpirableUnpaused(p) ==
  ~config.paused /\ p.status = "Queued" /\ DeadlineExists(p) /\ PastDeadline(p)

Expirable(p) == p.status = "Queued" /\ DeadlineExists(p) /\ PastDeadline(p)

(* mark_expired, open to anyone, paused or not.                            *)
MarkExpired(id) ==
  LET p == proposals[id]
  IN  /\ Expirable(p)
      /\ SetStatus(id, "Expired")
      /\ StatusChanged("Queued", "Expired")
      /\ UNCHANGED <<ledger, roleVars, lastProposal, allowed, tokenVars>>

------------------------------------------------------------------------------
(* Roles and settings.                                                     *)

Configure(field, value) ==
  /\ config' = [config EXCEPT ![field] = value]
  /\ UNCHANGED <<ledger, pendingAdmin, proposals, lastProposal, allowed, stats, tokenVars>>

SetProposalDeposit(amount)  == Configure("deposit", amount)
SetProposerCooldown(period) == Configure("cooldown", period)
SetGuardian(a)              == Configure("guardian", a)

Pause(caller) == caller \in {config.admin, config.guardian} /\ Configure("paused", TRUE)
Unpause       == Configure("paused", FALSE)

SetTargetAllowed(target, isAllowed) ==
  /\ allowed' = IF isAllowed THEN allowed \cup {target} ELSE allowed \ {target}
  /\ UNCHANGED <<ledger, roleVars, proposals, lastProposal, stats, tokenVars>>

TransferAdmin(a) ==
  /\ pendingAdmin' = a
  /\ UNCHANGED <<ledger, config, proposals, lastProposal, allowed, stats, tokenVars>>

AcceptAdmin ==
  /\ pendingAdmin # NoOne
  /\ config' = [config EXCEPT !.admin = pendingAdmin]
  /\ pendingAdmin' = NoOne
  /\ UNCHANGED <<ledger, proposals, lastProposal, allowed, stats, tokenVars>>

CancelAdminTransfer ==
  /\ pendingAdmin' = NoOne
  /\ UNCHANGED <<ledger, config, proposals, lastProposal, allowed, stats, tokenVars>>

------------------------------------------------------------------------------
(* The surroundings: the token's own calls, and the network's ledgers.     *)

(* Holders move their tokens, to the governor's address too.               *)
TokenTransfer(from, to, amount) ==
  /\ PayToken(from, to, amount)
  /\ UNCHANGED <<ledger, roleVars, proposals, lastProposal, allowed, stats>>

TokenBurn(from, amount) ==
  /\ BurnToken(from, amount)
  /\ UNCHANGED <<ledger, roleVars, proposals, lastProposal, allowed, stats>>

TokenMint(to, amount) ==
  /\ supply + amount <= MaxAmount
  /\ balance' = [balance EXCEPT ![to] = @ + amount]
  /\ supply' = supply + amount
  /\ UNCHANGED <<ledger, roleVars, proposals, lastProposal, allowed, stats>>

(* The ledger closes, and with it the snapshot of the proposals opened in  *)
(* it: they all get the weights of that one ledger.                        *)
CloseLedger ==
  /\ ledger < MaxLedger
  /\ ledger' = ledger + 1
  /\ \/ /\ \E id \in Ids : proposals[id].snapshot = ledger
        /\ \E w \in Weights :
             proposals' = [id \in Ids |->
               IF proposals[id].snapshot = ledger
               THEN [proposals[id] EXCEPT !.weights = w] ELSE proposals[id]]
     \/ /\ \A id \in Ids : proposals[id].snapshot # ledger
        /\ UNCHANGED proposals
  /\ UNCHANGED <<roleVars, lastProposal, allowed, stats, tokenVars>>

------------------------------------------------------------------------------

Proposing ==
  \/ \E a \in Account, sponsors \in Sponsorships, kind \in Kinds :
       CreateProposal(a, sponsors, kind)
  \/ \E id \in Ids, t \in Target : SetProposalAction(id, t)
  \/ \E a \in Account, id \in Ids : Cancel(a, id)

Deciding ==
  \/ \E a \in Account, id \in Ids, s \in Support : Vote(a, id, s)
  \/ \E id \in Ids : Finalize(id)

Resolving ==
  \/ \E a \in Account, id \in Ids : Veto(a, id)
  \/ \E id \in Ids, n \in 0 .. balance[Self], a \in Account : Execute(id, n, a)
  \/ \E id \in Ids : MarkExpired(id)

Administering ==
  \/ \E n \in Deposits : SetProposalDeposit(n)
  \/ \E n \in Cooldowns : SetProposerCooldown(n)
  \/ \E a \in Nominees : SetGuardian(a)
  \/ \E t \in Target, ok \in BOOLEAN : SetTargetAllowed(t, ok)
  \/ \E a \in Nominees : TransferAdmin(a)
  \/ AcceptAdmin
  \/ CancelAdminTransfer
  \/ Pausing /\ \E a \in Account : Pause(a)
  \/ Pausing /\ Unpause

Trading ==
  \/ \E a \in Account, b \in Holder, n \in Payments : TokenTransfer(a, b, n)
  \/ \E a \in Account, n \in Payments : TokenBurn(a, n)
  \/ \E a \in Holder, n \in Payments : TokenMint(a, n)

Next ==
  \/ Proposing
  \/ Deciding
  \/ Resolving
  \/ Administering
  \/ Trading
  \/ CloseLedger

Spec == Init /\ [][Next]_vars

(* Ledgers keep closing, and somebody keeps making the two calls that      *)
(* anyone may make and that nobody needs a role, a vote or a stake for.    *)
FairSpec ==
  /\ Spec
  /\ WF_vars(CloseLedger)
  /\ \A id \in 1 .. MaxProposals :
       /\ WF_vars(id \in Ids /\ Finalize(id))
       /\ WF_vars(id \in Ids /\ MarkExpired(id))

------------------------------------------------------------------------------
(* Properties.                                                             *)

Amount   == 0 .. MaxAmount
Sequence == 0 .. MaxSequence

Tally == [for : Amount, against : Amount, updated : Sequence]

Proposal ==
  [proposer : Account, cosponsors : Seq(Account), kind : {"standard", "conviction"},
   status : Status, votes : [Support -> Amount], snapshot : Sequence, start : Sequence,
   end : Sequence, queue : Sequence, quorum : Nat, timelock : Nat, deposit : Amount,
   conviction : Tally, receipts : [Account -> Support \cup {NoVote}],
   weights : [Account -> Amount], actions : Seq(Target)]

Config ==
  [admin : Account, guardian : Account, paused : BOOLEAN, deposit : Amount,
   cooldown : Sequence]

TypeOK ==
  /\ ledger \in Sequence
  /\ config \in Config
  /\ pendingAdmin \in Account \cup {NoOne}
  /\ proposals \in Seq(Proposal)
  /\ lastProposal \in [Account -> Sequence]
  /\ allowed \subseteq Target
  /\ stats \in [Counted \cup {"cast"} -> 0 .. MaxCount]
  /\ balance \in [Holder -> Nat]
  /\ supply \in Nat

(* The snapshot weight of the voters whose recorded choice is s.           *)
WeightFor(p, s) == SumFunctionOnSet(p.weights, {a \in Account : p.receipts[a] = s})

(* After any sequence of first votes and changes of choice, each tally of  *)
(* a proposal is the snapshot weight of the voters whose recorded choice   *)
(* it is: nobody is counted twice, and nobody's weight is left behind.     *)
TalliesMatchReceipts ==
  \A id \in Ids, s \in Support : proposals[id].votes[s] = WeightFor(proposals[id], s)

(* The weight of the recorded choices reaches the quorum, and a standard   *)
(* proposal has strictly more of it for than against; a conviction         *)
(* proposal has strictly more support for it left at the close of voting.  *)
Carried(p) ==
  LET left == DecayTo(p.conviction, p.end)
  IN  /\ WeightFor(p, "for") + WeightFor(p, "against") + WeightFor(p, "abstain") >= p.quorum
      /\ IF p.kind = "conviction" THEN left.for > left.against
         ELSE WeightFor(p, "for") > WeightFor(p, "against")

(* What happened to a proposal agrees for ever with its votes: whatever is *)
(* in or past the timelock was carried, whatever failed was not.  No late  *)
(* vote and no second finalize can part the two, nor a changed vote: on a  *)
(* standard proposal the last choices decide, on a conviction proposal the *)
(* support left at the close, in which a choice that was changed stays.    *)
OutcomeMatchesVote ==
  \A id \in Ids :
    LET p == proposals[id]
    IN  /\ p.status \in {"Queued", "Executed", "Expired", "Vetoed"} => Carried(p)
        /\ p.status = "Failed" => ~Carried(p)

(* "the result does not depend on when finalize() is called": once voting  *)
(* has closed, the ledger passing cannot change whether a proposal that    *)
(* waits for finalize passes, conviction decay included.                   *)
ResultDoesNotDrift ==
  [][\A id \in Ids :
       ledger > proposals[id].end => Passes(proposals[id])' = Passes(proposals[id])]_vars

(* An execution runs calls that are all allowed now, were all attached     *)
(* before voting closed, and comes after the whole timelock captured when  *)
(* the proposal was opened and within the grace period; never while the    *)
(* contract is paused.                                                     *)
ExecutionIsDue ==
  [][\A id \in Ids :
       LET p == proposals[id]
       IN  (p.status # "Executed" /\ proposals'[id].status = "Executed") =>
             /\ ~config.paused
             /\ ledger > p.end + p.timelock
             /\ GracePeriod > 0 => ledger <= p.queue + GracePeriod
             /\ \A i \in DOMAIN p.actions : p.actions[i] \in allowed]_vars

(* A deposit is recorded only while its proposal is Active, and then it    *)
(* is the one the proposal opened with; nothing is refunded twice.         *)
DepositOnlyWhileActive ==
  \A id \in Ids : proposals[id].deposit > 0 => proposals[id].status = "Active"

HeldDeposits == SumFunction([id \in Ids |-> proposals[id].deposit])

(* "The governance contract holds the deposit until the proposal closes"   *)
(* (governance/README.md, Proposal Deposit): the tokens of all recorded    *)
(* deposits are there, so every refund and burn that falls due can be paid.*)
DepositsAreHeld == balance[Self] >= HeldDeposits

(* A deposit comes back whole on a pass and is burned otherwise, whatever  *)
(* was done to the setting or the roles since the proposal was opened.     *)
DepositIsSettled ==
  [][\A id \in Ids :
       LET p == proposals[id]
           q == proposals'[id]
       IN  p.deposit # q.deposit =>
             \/ q.status = "Queued" /\ balance'[p.proposer] = balance[p.proposer] + p.deposit
             \/ q.status \in {"Failed", "Cancelled"} /\ supply' = supply - p.deposit]_vars

(* get_governance_stats: the counters "are maintained by the calls that    *)
(* create, vote on, finalize, execute, cancel or expire a proposal".       *)
StatsCountProposals ==
  \A s \in Counted : stats[s] = Cardinality({id \in Ids : proposals[id].status = s})

(* phase_of "mirrors the checks in vote(), execute() and mark_expired()":  *)
(* a reported phase is the call that can be made.                          *)
PhaseMirrorsChecks ==
  \A id \in Ids :
    LET p == proposals[id]
    IN  /\ ~config.paused /\ p.actions = << >> =>
             (PhaseOf(p) = "ReadyToExecute" <=> ENABLED Execute(id, 0, p.proposer))
        /\ PhaseOf(p) = "Expired" /\ p.status = "Queued" <=> ENABLED MarkExpired(id)
        /\ \A a \in Account : p.weights[a] > 0 =>
             (PhaseOf(p) = "Active" <=> ENABLED Vote(a, id, "abstain"))
        /\ PhaseOf(p) = "Queued" <=> ENABLED Veto(config.guardian, id)

(* Every call of the contract is a step of the abstract life of a proposal,*)
(* or leaves every proposal's status, window and timelock alone.           *)
Lifecycle == INSTANCE ProposalLifecycle
  WITH now <- ledger,
       history <- [id \in Ids |-> [status |-> proposals[id].status,
                                   closes |-> proposals[id].end,
                                   ready  |-> proposals[id].queue]]

ImplementsLifecycle == Lifecycle!Spec

(* So what the life of a proposal guarantees holds of the contract: no     *)
(* decision before the window closed, no timelock shorter than the one     *)
(* captured, no execution inside it, no expiry before the grace period is  *)
(* over ...                                                                *)
StatusesAreEarned == Lifecycle!StatusEarned

(* ... and no call moves a proposal out of a final status: what failed or  *)
(* was vetoed is not executed, what was executed does not expire.          *)
FinalStatusIsFinal == Lifecycle!FinalIsFinal

(* A proposal does not stay Active: if its window closes within the bound, *)
(* it is decided, or was cancelled.                                        *)
ActiveIsDecided ==
  \A id \in 1 .. MaxProposals :
    (id \in Ids /\ proposals[id].status = "Active" /\ proposals[id].end < MaxLedger)
      ~> (id \in Ids /\ proposals[id].status # "Active")

(* Nor does it stay Queued past its grace period.                          *)
QueuedIsResolved ==
  \A id \in 1 .. MaxProposals :
    (/\ id \in Ids /\ proposals[id].status = "Queued"
     /\ GracePeriod > 0 /\ proposals[id].queue + GracePeriod < MaxLedger)
      ~> (id \in Ids /\ proposals[id].status \in {"Executed", "Vetoed", "Expired"})
==============================================================================
