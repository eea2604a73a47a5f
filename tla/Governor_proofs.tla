---------------------------- MODULE Governor_proofs ----------------------------
(***************************************************************************)
(* The governance contract, for every set of holders, any periods, quorum, *)
(* deposits and bounds: its state keeps its types, the contract implements *)
(* the abstract life of a proposal, the outcome is that of the choices     *)
(* recorded, and a deposit is held, for an open proposal only, and settled *)
(* once.                                                                   *)
(***************************************************************************)
EXTENDS Governor, Sums_proofs

(***************************************************************************)
(* Sequences of proposals.                                                 *)
(***************************************************************************)

(* Replacing one element of a sequence by one of the same set.             *)
LEMMA Replaced ==
  ASSUME NEW S, NEW s \in Seq(S), NEW i \in DOMAIN s, NEW e \in S
  PROVE  /\ s[i] \in S
         /\ [s EXCEPT ![i] = e] \in Seq(S)
         /\ DOMAIN [s EXCEPT ![i] = e] = DOMAIN s
         /\ [s EXCEPT ![i] = e][i] = e
         /\ \A j \in DOMAIN s : j # i => [s EXCEPT ![i] = e][j] = s[j]
  OBVIOUS

(* A sequence is a function on its indexes.                                *)
LEMMA IsFunction ==
  ASSUME NEW S, NEW s \in Seq(S)
  PROVE  s = [i \in DOMAIN s |-> s[i]]
  OBVIOUS

(* Mapping every element of a sequence.                                    *)
LEMMA Mapped ==
  ASSUME NEW S, NEW s \in Seq(S), NEW f, f = [i \in DOMAIN s |-> f[i]],
         \A i \in DOMAIN s : f[i] \in S
  PROVE  f \in Seq(S)
  OBVIOUS

(***************************************************************************)
(* Arithmetic.                                                             *)
(***************************************************************************)

(* Division by a positive number stays a natural and does not grow.        *)
LEMMA Quotient ==
  ASSUME NEW x \in Nat, NEW d \in Nat \ {0}
  PROVE  x \div d \in Nat /\ x \div d <= x
  BY SMTT(30)

(* A saturating addition stays in its width.                               *)
LEMMA SaturatedSumType ==
  ASSUME NEW max \in Nat, NEW a \in 0 .. max, NEW b \in Nat
  PROVE  SaturatedSum(a, b, max) \in 0 .. max
  BY DEF SaturatedSum, Least

(* Decay keeps a tally a tally.                                            *)
LEMMA DecayType ==
  ASSUME NEW tally \in Tally, NEW now \in Sequence
  PROVE  DecayTo(tally, now) \in Tally
<1> DEFINE halvings == IF now < tally.updated THEN 0 ELSE (now - tally.updated) \div HalfLife
<1>1. /\ tally.for \in 0 .. MaxAmount /\ tally.against \in 0 .. MaxAmount
      /\ tally.updated \in 0 .. MaxSequence /\ now \in 0 .. MaxSequence
      /\ MaxAmount \in Nat /\ MaxSequence \in Nat /\ HalfLife \in Nat \ {0}
  BY GovernorAssumption DEF Tally, Amount, Sequence
<1>2. halvings \in 0 .. MaxSequence
  <2>1. CASE now < tally.updated
    BY <1>1, <2>1
  <2>2. CASE ~(now < tally.updated)
    <3>1. now - tally.updated \in Nat /\ now - tally.updated <= MaxSequence
      BY <1>1, <2>2
    <3>2. /\ (now - tally.updated) \div HalfLife \in Nat
          /\ (now - tally.updated) \div HalfLife <= now - tally.updated
      BY <1>1, <3>1, Quotient
    <3>3. halvings = (now - tally.updated) \div HalfLife
      BY <2>2
    <3> HIDE DEF halvings
    <3>4. QED
      BY <1>1, <3>1, <3>2, <3>3
  <2>3. QED
    BY <2>1, <2>2
<1>3. 2 ^ halvings \in Nat \ {0}
  BY <1>2, HalvingAssumption
<1>4. DecayTo(tally, now) = [for |-> tally.for \div 2 ^ halvings,
                             against |-> tally.against \div 2 ^ halvings,
                             updated |-> now]
  BY DEF DecayTo
<1> HIDE DEF halvings
<1>5. /\ tally.for \div 2 ^ halvings \in 0 .. MaxAmount
      /\ tally.against \div 2 ^ halvings \in 0 .. MaxAmount
  <2> DEFINE d == 2 ^ halvings
  <2>1. d \in Nat \ {0}
    BY <1>3
  <2> HIDE DEF d
  <2>2. tally.for \div d \in 0 .. MaxAmount /\ tally.against \div d \in 0 .. MaxAmount
    BY <1>1, <2>1, Quotient
  <2>3. QED
    BY <2>2 DEF d
<1>6. QED
  BY <1>1, <1>4, <1>5 DEF Tally, Amount, Sequence

(***************************************************************************)
(* Steps keep the records of proposals in their type.                      *)
(***************************************************************************)

(* A proposal whose status changed is a proposal ...                       *)
LEMMA StatusType ==
  ASSUME NEW p \in Proposal, NEW s \in Status
  PROVE  [p EXCEPT !.status = s] \in Proposal
  BY DEF Proposal

(* ... and so is one whose deposit is taken, ...                           *)
LEMMA ClosedType ==
  ASSUME NEW p \in Proposal, NEW s \in Status
  PROVE  [TakeDeposit(p) EXCEPT !.status = s] \in Proposal
<1>1. 0 \in Amount
  BY GovernorAssumption DEF Amount
<1>2. QED
  BY <1>1 DEF Proposal, TakeDeposit

(* ... one that enters the timelock, ...                                   *)
LEMMA QueuedType ==
  ASSUME NEW p \in Proposal, NEW l \in Sequence
  PROVE  [TakeDeposit(p) EXCEPT !.status = "Queued", !.queue = l] \in Proposal
<1>1. 0 \in Amount /\ "Queued" \in Status
  BY GovernorAssumption DEF Amount, Status
<1>2. QED
  BY <1>1 DEF Proposal, TakeDeposit

(* ... one that gained an action, ...                                      *)
LEMMA ActionType ==
  ASSUME NEW p \in Proposal, NEW t \in Target
  PROVE  [p EXCEPT !.actions = Append(p.actions, t)] \in Proposal
<1>1. Append(p.actions, t) \in Seq(Target)
  BY DEF Proposal
<1>2. QED
  BY <1>1 DEF Proposal

(* ... and one whose snapshot settled.                                     *)
LEMMA WeighedType ==
  ASSUME NEW p \in Proposal, NEW w \in Weights
  PROVE  [p EXCEPT !.weights = w] \in Proposal
<1>1. w \in [Account -> Amount]
  BY GovernorAssumption DEF Amount
<1>2. QED
  BY <1>1 DEF Proposal

(* The guards of vote bound what it adds to a tally, and what it takes     *)
(* back was in it.                                                         *)
LEMMA TalliesType ==
  ASSUME NEW p \in Proposal, NEW voter \in Account, NEW s \in Support,
         p.receipts[voter] # NoVote => p.votes[p.receipts[voter]] >= p.weights[voter],
         TalliesAfter(p, voter, s)[s] <= MaxAmount
  PROVE  TalliesAfter(p, voter, s) \in [Support -> Amount]
<1> DEFINE weight   == p.weights[voter]
           previous == p.receipts[voter]
           without  == IF previous = NoVote THEN p.votes
                       ELSE [p.votes EXCEPT ![previous] = @ - weight]
<1>1. /\ weight \in Amount /\ previous \in Support \cup {NoVote}
      /\ p.votes \in [Support -> Amount] /\ MaxAmount \in Nat
  BY GovernorAssumption DEF Proposal
<1>2. without \in [Support -> Amount]
  BY <1>1 DEF Amount
<1>3. TalliesAfter(p, voter, s) = [without EXCEPT ![s] = @ + weight]
  BY DEF TalliesAfter
<1> HIDE DEF weight, previous, without
<1>4. without[s] + weight <= MaxAmount
  BY <1>2, <1>3
<1>5. QED
  BY <1>1, <1>2, <1>3, <1>4 DEF Amount

(* So do the two sides of the conviction tally.                            *)
LEMMA ConvictionType ==
  ASSUME NEW p \in Proposal, NEW voter \in Account, NEW s \in Support, ledger \in Sequence,
         ConvictionAfter(p, voter, s).for <= MaxAmount,
         ConvictionAfter(p, voter, s).against <= MaxAmount
  PROVE  ConvictionAfter(p, voter, s) \in Tally
<1>1. p.conviction \in Tally /\ p.weights[voter] \in Amount /\ MaxAmount \in Nat
  BY GovernorAssumption DEF Proposal
<1> DEFINE decayed == DecayTo(p.conviction, ledger)
<1>2. decayed \in Tally
  BY <1>1, DecayType
<1>3. CASE p.kind # "conviction"
  BY <1>1, <1>3 DEF ConvictionAfter
<1>4. CASE p.kind = "conviction" /\ s = "abstain"
  BY <1>2, <1>4 DEF ConvictionAfter
<1>5. CASE p.kind = "conviction" /\ s = "for"
  <2>1. ConvictionAfter(p, voter, s) = [decayed EXCEPT !["for"] = @ + p.weights[voter]]
    BY <1>5 DEF ConvictionAfter
  <2> HIDE DEF decayed
  <2>2. QED
    BY <1>1, <1>2, <2>1 DEF Tally, Amount
<1>6. CASE p.kind = "conviction" /\ s = "against"
  <2>1. ConvictionAfter(p, voter, s) = [decayed EXCEPT !["against"] = @ + p.weights[voter]]
    BY <1>6 DEF ConvictionAfter
  <2> HIDE DEF decayed
  <2>2. QED
    BY <1>1, <1>2, <2>1 DEF Tally, Amount
<1>7. QED
  BY <1>3, <1>4, <1>5, <1>6 DEF Support

(* A proposal with a vote recorded is a proposal.                          *)
LEMMA VotedType ==
  ASSUME NEW p \in Proposal, NEW voter \in Account, NEW s \in Support,
         NEW votes \in [Support -> Amount], NEW conviction \in Tally
  PROVE  [p EXCEPT !.votes = votes, !.conviction = conviction,
                   !.receipts[voter] = s] \in Proposal
<1>1. [p.receipts EXCEPT ![voter] = s] \in [Account -> Support \cup {NoVote}]
  BY DEF Proposal
<1>2. [p EXCEPT !.votes = votes, !.conviction = conviction, !.receipts[voter] = s]
        = [p EXCEPT !.votes = votes, !.conviction = conviction,
                    !.receipts = [p.receipts EXCEPT ![voter] = s]]
  BY DEF Proposal
<1>3. QED
  BY <1>1, <1>2 DEF Proposal

(* What open_proposal stores is a proposal.                                *)
LEMMA NewProposalType ==
  ASSUME TypeOK, NEW proposer \in Account, NEW sponsors \in Sponsorships,
         NEW kind \in Kinds, ledger + 1 + VotingPeriod <= MaxSequence
  PROVE  NewProposal(proposer, sponsors, kind) \in Proposal
<1>1. /\ sponsors \in Seq(Account) /\ kind \in {"standard", "conviction"}
      /\ MaxAmount \in Nat /\ MaxSequence \in Nat /\ VotingPeriod \in Nat
      /\ TimelockPeriod \in Nat /\ BpsDenominator \in Nat \ {0} /\ QuorumBps \in Nat
  BY GovernorAssumption
<1>2. /\ ledger \in Sequence /\ supply \in Nat /\ config.deposit \in Amount
  BY DEF TypeOK, Config
<1>3. /\ ledger + 1 \in Sequence /\ ledger + 1 + VotingPeriod \in Sequence
      /\ 0 \in Sequence /\ 0 \in Amount
  BY <1>1, <1>2 DEF Sequence, Amount
<1>4. (supply * QuorumBps) \div BpsDenominator \in Nat
  <2>1. supply * QuorumBps \in Nat
    BY <1>1, <1>2
  <2>2. QED
    BY <1>1, <2>1, Quotient
<1>5. [NoTally EXCEPT !.updated = ledger] \in Tally
  BY <1>2, <1>3 DEF NoTally, Tally
<1>6. /\ [s \in Support |-> 0] \in [Support -> Amount]
      /\ [a \in Account |-> NoVote] \in [Account -> Support \cup {NoVote}]
      /\ [a \in Account |-> 0] \in [Account -> Amount]
  BY <1>3
<1>7. "Active" \in Status /\ << >> \in Seq(Target)
  BY DEF Status
<1>8. QED
  BY <1>1, <1>2, <1>3, <1>4, <1>5, <1>6, <1>7 DEF NewProposal, Proposal

(***************************************************************************)
(* The calls to the token and the statistics keep their types.             *)
(***************************************************************************)

(* A transfer keeps balances natural, to oneself too.                      *)
LEMMA PaidType ==
  ASSUME balance \in [Holder -> Nat], supply \in Nat, NEW from \in Holder,
         NEW to \in Holder, NEW amount \in Nat, PayToken(from, to, amount)
  PROVE  balance' \in [Holder -> Nat] /\ supply' \in Nat
<1>1. balance[from] >= amount /\ balance' = Paid(from, to, amount) /\ supply' = supply
  BY DEF PayToken
<1>2. CASE from = to
  BY <1>1, <1>2 DEF Paid
<1>3. CASE from # to
  BY <1>1, <1>3 DEF Paid
<1>4. QED
  BY <1>2, <1>3

(* A burn takes no more than there is.                                     *)
LEMMA BurnType ==
  ASSUME balance \in [Holder -> Nat], supply \in Nat, NEW from \in Holder,
         NEW amount \in Nat, BurnToken(from, amount)
  PROVE  balance' \in [Holder -> Nat] /\ supply' \in Nat
  BY DEF BurnToken

(* A status change keeps the counters in their width.                      *)
LEMMA StatsType ==
  ASSUME stats \in [Counted \cup {"cast"} -> 0 .. MaxCount],
         NEW from \in Counted, NEW to \in Counted, StatusChanged(from, to)
  PROVE  stats' \in [Counted \cup {"cast"} -> 0 .. MaxCount]
<1> DEFINE down == [stats EXCEPT ![from] = IF @ = 0 THEN 0 ELSE @ - 1]
<1>1. MaxCount \in Nat
  BY GovernorAssumption
<1>2. down \in [Counted \cup {"cast"} -> 0 .. MaxCount]
  BY <1>1
<1>3. stats' = [down EXCEPT ![to] = SaturatedSum(@, 1, MaxCount)]
  BY DEF StatusChanged
<1>4. SaturatedSum(down[to], 1, MaxCount) \in 0 .. MaxCount
  BY <1>1, <1>2, SaturatedSumType
<1> HIDE DEF down
<1>5. QED
  BY <1>2, <1>3, <1>4

(***************************************************************************)
(* The calls that leave proposals, deposits and the ledger alone.          *)
(***************************************************************************)

(* Roles and settings: no proposal, token or ledger is touched.            *)
LEMMA AdministeringType ==
  ASSUME TypeOK, Administering
  PROVE  /\ TypeOK'
         /\ UNCHANGED <<ledger, proposals, tokenVars>>
<1> USE GovernorAssumption DEF TypeOK
<1>1. /\ Deposits \subseteq Amount /\ Cooldowns \subseteq Sequence
      /\ Nominees \subseteq Account
  BY DEF Amount, Sequence
<1>2. CASE \E n \in Deposits : SetProposalDeposit(n)
  BY <1>1, <1>2 DEF SetProposalDeposit, Configure, Config, tokenVars
<1>3. CASE \E n \in Cooldowns : SetProposerCooldown(n)
  BY <1>1, <1>3 DEF SetProposerCooldown, Configure, Config, tokenVars
<1>4. CASE \E a \in Nominees : SetGuardian(a)
  BY <1>1, <1>4 DEF SetGuardian, Configure, Config, tokenVars
<1>5. CASE \E t \in Target, ok \in BOOLEAN : SetTargetAllowed(t, ok)
  BY <1>5 DEF SetTargetAllowed, roleVars, tokenVars
<1>6. CASE \E a \in Nominees : TransferAdmin(a)
  BY <1>1, <1>6 DEF TransferAdmin, tokenVars
<1>7. CASE AcceptAdmin
  BY <1>7 DEF AcceptAdmin, Config, tokenVars
<1>8. CASE CancelAdminTransfer
  BY <1>8 DEF CancelAdminTransfer, tokenVars
<1>9. CASE Pausing /\ \E a \in Account : Pause(a)
  BY <1>9 DEF Pause, Configure, Config, tokenVars
<1>10. CASE Pausing /\ Unpause
  BY <1>10 DEF Unpause, Configure, Config, tokenVars
<1>11. QED
  BY <1>2, <1>3, <1>4, <1>5, <1>6, <1>7, <1>8, <1>9, <1>10 DEF Administering

(* The holders' own token calls: only balances and supply move.            *)
LEMMA TradingType ==
  ASSUME TypeOK, Trading
  PROVE  /\ TypeOK'
         /\ UNCHANGED <<ledger, roleVars, proposals>>
<1>1. /\ Account \subseteq Holder /\ Payments \subseteq Nat
      /\ MaxAmount \in Nat
  BY GovernorAssumption DEF Holder
<1>2. UNCHANGED <<ledger, roleVars, proposals, lastProposal, allowed, stats>>
  BY DEF Trading, TokenTransfer, TokenBurn, TokenMint
<1>3. balance' \in [Holder -> Nat] /\ supply' \in Nat
  <2>1. CASE \E a \in Account, b \in Holder, n \in Payments : TokenTransfer(a, b, n)
    BY <1>1, <2>1, PaidType DEF TypeOK, TokenTransfer
  <2>2. CASE \E a \in Account, n \in Payments : TokenBurn(a, n)
    BY <1>1, <2>2, BurnType DEF TypeOK, TokenBurn
  <2>3. CASE \E a \in Holder, n \in Payments : TokenMint(a, n)
    BY <1>1, <2>3 DEF TypeOK, TokenMint
  <2>4. QED
    BY <2>1, <2>2, <2>3 DEF Trading
<1>4. QED
  BY <1>2, <1>3 DEF TypeOK, roleVars

(***************************************************************************)
(* The type invariant.                                                     *)
(***************************************************************************)

(* What every step below needs of the constants and of a proposal.         *)
LEMMA ProposalFields ==
  ASSUME TypeOK, NEW id \in Ids
  PROVE  /\ proposals[id] \in Proposal
         /\ proposals[id].proposer \in Account
         /\ proposals[id].deposit \in Nat
         /\ proposals[id].timelock \in Nat
         /\ proposals[id].end \in Nat
         /\ proposals[id].queue \in Nat
         /\ proposals[id].status \in Status
         /\ ledger \in Nat
<1>1. proposals[id] \in Proposal
  BY Replaced DEF TypeOK, Ids
<1>2. Amount \subseteq Nat /\ Sequence \subseteq Nat
  BY GovernorAssumption DEF Amount, Sequence
<1>3. QED
  BY <1>1, <1>2 DEF TypeOK, Proposal

(* The ledgers of a behaviour fit the width of ledger numbers.             *)
LEMMA Ledgers == MaxSequence \in Nat /\ MaxLedger \in Nat /\ MaxLedger <= MaxSequence
  BY GovernorAssumption

(* Accounts and the governor are the holders of tokens.                    *)
LEMMA Holders == Account \subseteq Holder /\ Self \in Holder
  BY DEF Holder

LEMMA TypeInit ==
  ASSUME Init
  PROVE  TypeOK
<1> USE GovernorAssumption
<1>1. ledger \in Sequence /\ 0 \in Sequence /\ 0 \in Amount
  BY DEF Init, Sequence, Amount
<1>2. config \in Config /\ pendingAdmin \in Account \cup {NoOne}
  BY <1>1 DEF Init, Config
<1>3. proposals \in Seq(Proposal) /\ allowed \subseteq Target
  BY DEF Init
<1>4. /\ lastProposal \in [Account -> Sequence]
      /\ stats \in [Counted \cup {"cast"} -> 0 .. MaxCount]
  BY <1>1 DEF Init
<1>5. balance \in [Holder -> Nat] /\ supply \in Nat
  <2>1. PICK held \in Holdings : balance = Start(held) /\ supply = SumFunction(Start(held))
    BY DEF Init
  <2>2. \A a \in Account : held[a] \in Nat
    OBVIOUS
  <2>3. balance \in [Holder -> Nat]
    BY <2>1, <2>2 DEF Start, Holder
  <2>4. supply \in Nat
    BY <2>1
  <2>5. QED
    BY <2>3, <2>4
<1>6. QED
  BY <1>1, <1>2, <1>3, <1>4, <1>5 DEF TypeOK

(* Each guard bounds what its call adds.                                   *)
LEMMA TypeStep ==
  ASSUME TypeOK, [Next]_vars
  PROVE  TypeOK'
<1>1. ASSUME NEW a \in Account, NEW sponsors \in Sponsorships, NEW kind \in Kinds,
             CreateProposal(a, sponsors, kind)
      PROVE  TypeOK'
  <2>1. NewProposal(a, sponsors, kind) \in Proposal
    BY <1>1, NewProposalType DEF CreateProposal
  <2>2. proposals' \in Seq(Proposal)
    BY <1>1, <2>1 DEF CreateProposal, TypeOK
  <2>3. config.deposit \in Nat
    BY GovernorAssumption DEF TypeOK, Config, Amount
  <2>4. balance' \in [Holder -> Nat] /\ supply' \in Nat
    BY <1>1, <2>3, Holders, PaidType DEF CreateProposal, TypeOK
  <2>5. lastProposal' \in [Account -> Sequence]
    BY <1>1 DEF CreateProposal, TypeOK
  <2>6. QED
    BY <1>1, <2>2, <2>4, <2>5 DEF CreateProposal, TypeOK, roleVars
<1>2. ASSUME NEW id \in Ids, NEW t \in Target, SetProposalAction(id, t)
      PROVE  TypeOK'
  <2> DEFINE p == proposals[id]
             q == [p EXCEPT !.actions = Append(p.actions, t)]
  <2>1. q \in Proposal
    BY ProposalFields, ActionType
  <2>2. proposals' = [proposals EXCEPT ![id] = q]
    BY <1>2 DEF SetProposalAction
  <2>3. proposals' \in Seq(Proposal)
    <3> HIDE DEF q
    <3> QED
      BY <2>1, <2>2, Replaced DEF TypeOK, Ids
  <2>4. QED
    BY <1>2, <2>3 DEF SetProposalAction, TypeOK, roleVars, tokenVars
<1>3. ASSUME NEW a \in Account, NEW id \in Ids, Cancel(a, id)
      PROVE  TypeOK'
  <2> DEFINE q == [TakeDeposit(proposals[id]) EXCEPT !.status = "Cancelled"]
  <2>1. q \in Proposal
    BY ProposalFields, ClosedType DEF Status
  <2>2. proposals' = [proposals EXCEPT ![id] = q]
    BY <1>3 DEF Cancel
  <2>3. proposals' \in Seq(Proposal)
    <3> HIDE DEF q
    <3> QED
      BY <2>1, <2>2, Replaced DEF TypeOK, Ids
  <2>4. balance' \in [Holder -> Nat] /\ supply' \in Nat
    BY <1>3, ProposalFields, Holders, BurnType DEF Cancel, ForfeitDeposit, TypeOK
  <2>5. QED
    BY <1>3, <2>3, <2>4 DEF Cancel, TypeOK, roleVars
<1>4. ASSUME NEW a \in Account, NEW id \in Ids, NEW s \in Support, Vote(a, id, s)
      PROVE  TypeOK'
  <2> DEFINE p          == proposals[id]
             votes      == TalliesAfter(p, a, s)
             conviction == ConvictionAfter(p, a, s)
             q          == [p EXCEPT !.votes = votes, !.conviction = conviction,
                                     !.receipts[a] = s]
  <2>1. p \in Proposal
    BY ProposalFields
  <2>2. votes \in [Support -> Amount]
    BY <1>4, <2>1, TalliesType DEF Vote, VoteOn
  <2>3. conviction \in Tally
    BY <1>4, <2>1, ConvictionType DEF Vote, VoteOn, TypeOK
  <2>4. q \in Proposal
    BY <2>1, <2>2, <2>3, VotedType
  <2>5. proposals' = [proposals EXCEPT ![id] = q]
    BY <1>4, <2>1 DEF Vote, VoteOn, Proposal, TypeOK, Ids
  <2>6. proposals' \in Seq(Proposal)
    <3> HIDE DEF q
    <3> QED
      BY <2>4, <2>5, Replaced DEF TypeOK, Ids
  <2>7. stats' \in [Counted \cup {"cast"} -> 0 .. MaxCount]
    <3>1. SaturatedSum(stats["cast"], 1, MaxCount) \in 0 .. MaxCount
      BY GovernorAssumption, SaturatedSumType DEF TypeOK
    <3>2. QED
      BY <1>4, <3>1 DEF Vote, VoteOn, TypeOK
  <2>8. QED
    BY <1>4, <2>6, <2>7 DEF Vote, VoteOn, TypeOK, roleVars, tokenVars
<1>5. ASSUME NEW id \in Ids, FinalizeQueued(id)
      PROVE  TypeOK'
  <2> DEFINE q == [TakeDeposit(proposals[id]) EXCEPT !.status = "Queued",
                                      !.queue = ledger + proposals[id].timelock]
  <2>1. q \in Proposal
    <3>1. ledger + proposals[id].timelock \in Sequence
      BY <1>5, ProposalFields, Ledgers DEF FinalizeQueued, Sequence
    <3>2. QED
      BY <3>1, ProposalFields, QueuedType
  <2>2. proposals' = [proposals EXCEPT ![id] = q]
    BY <1>5 DEF FinalizeQueued
  <2>3. proposals' \in Seq(Proposal)
    <3> HIDE DEF q
    <3> QED
      BY <2>1, <2>2, Replaced DEF TypeOK, Ids
  <2>4. balance' \in [Holder -> Nat] /\ supply' \in Nat
    BY <1>5, ProposalFields, Holders, PaidType DEF FinalizeQueued, RefundDeposit, TypeOK
  <2>5. stats' \in [Counted \cup {"cast"} -> 0 .. MaxCount]
    BY <1>5, StatsType DEF FinalizeQueued, TypeOK, Counted, Status
  <2>6. QED
    BY <1>5, <2>3, <2>4, <2>5 DEF FinalizeQueued, TypeOK, roleVars
<1>6. ASSUME NEW id \in Ids, FinalizeFailed(id)
      PROVE  TypeOK'
  <2> DEFINE q == [TakeDeposit(proposals[id]) EXCEPT !.status = "Failed"]
  <2>1. q \in Proposal
    BY ProposalFields, ClosedType DEF Status
  <2>2. proposals' = [proposals EXCEPT ![id] = q]
    BY <1>6 DEF FinalizeFailed
  <2>3. proposals' \in Seq(Proposal)
    <3> HIDE DEF q
    <3> QED
      BY <2>1, <2>2, Replaced DEF TypeOK, Ids
  <2>4. balance' \in [Holder -> Nat] /\ supply' \in Nat
    BY <1>6, ProposalFields, Holders, BurnType DEF FinalizeFailed, ForfeitDeposit, TypeOK
  <2>5. stats' \in [Counted \cup {"cast"} -> 0 .. MaxCount]
    BY <1>6, StatsType DEF FinalizeFailed, TypeOK, Counted, Status
  <2>6. QED
    BY <1>6, <2>3, <2>4, <2>5 DEF FinalizeFailed, TypeOK, roleVars
<1>7. ASSUME NEW id \in Ids, NEW s \in Status, SetStatus(id, s)
      PROVE  proposals' \in Seq(Proposal)
  <2> DEFINE q == [proposals[id] EXCEPT !.status = s]
  <2>1. q \in Proposal
    BY ProposalFields, StatusType
  <2>2. proposals' = [proposals EXCEPT ![id] = q]
    BY <1>7 DEF SetStatus
  <2> HIDE DEF q
  <2>3. QED
    BY <2>1, <2>2, Replaced DEF TypeOK, Ids
<1>8. ASSUME NEW a \in Account, NEW id \in Ids, Veto(a, id)
      PROVE  TypeOK'
  BY <1>7, <1>8 DEF Veto, Status, TypeOK, roleVars, tokenVars
<1>9. ASSUME NEW id \in Ids, NEW n \in 0 .. balance[Self], NEW a \in Account,
             Execute(id, n, a)
      PROVE  TypeOK'
  <2>1. proposals' \in Seq(Proposal)
    BY <1>7, <1>9 DEF Execute, Status
  <2>2. balance' \in [Holder -> Nat] /\ supply' \in Nat
    BY <1>9, Holders, PaidType DEF Execute, TypeOK
  <2>3. QED
    BY <1>9, <2>1, <2>2 DEF Execute, TypeOK, roleVars
<1>10. ASSUME NEW id \in Ids, MarkExpired(id)
       PROVE  TypeOK'
  <2>1. proposals' \in Seq(Proposal)
    BY <1>7, <1>10 DEF MarkExpired, Status
  <2>2. stats' \in [Counted \cup {"cast"} -> 0 .. MaxCount]
    BY <1>10, StatsType DEF MarkExpired, TypeOK, Counted, Status
  <2>3. QED
    BY <1>10, <2>1, <2>2 DEF MarkExpired, TypeOK, roleVars, tokenVars
<1>11. CASE CloseLedger
  <2>1. ledger' \in Sequence
    BY <1>11, Ledgers DEF CloseLedger, TypeOK, Sequence
  <2>2. proposals' \in Seq(Proposal)
    <3>1. CASE UNCHANGED proposals
      BY <3>1 DEF TypeOK
    <3>2. ASSUME NEW w \in Weights,
                 proposals' = [id \in Ids |->
                   IF proposals[id].snapshot = ledger
                   THEN [proposals[id] EXCEPT !.weights = w] ELSE proposals[id]]
          PROVE  proposals' \in Seq(Proposal)
      <4> DEFINE f == [id \in Ids |->
                   IF proposals[id].snapshot = ledger
                   THEN [proposals[id] EXCEPT !.weights = w] ELSE proposals[id]]
      <4>1. \A id \in Ids : f[id] \in Proposal
        BY ProposalFields, WeighedType
      <4>2. f = [id \in DOMAIN proposals |-> f[id]]
        BY DEF Ids
      <4> HIDE DEF f
      <4>3. f \in Seq(Proposal)
        BY <4>1, <4>2, Mapped DEF TypeOK, Ids
      <4>4. QED
        BY <3>2, <4>3 DEF f
    <3>3. QED
      BY <1>11, <3>1, <3>2 DEF CloseLedger
  <2>3. QED
    BY <1>11, <2>1, <2>2 DEF CloseLedger, TypeOK, roleVars, tokenVars
<1>12. CASE UNCHANGED vars
  BY <1>12 DEF vars, roleVars, tokenVars, TypeOK
<1>13. CASE Proposing
  BY <1>1, <1>2, <1>3, <1>13 DEF Proposing
<1>14. CASE Deciding
  BY <1>4, <1>5, <1>6, <1>14 DEF Deciding, Finalize
<1>15. CASE Resolving
  BY <1>8, <1>9, <1>10, <1>15 DEF Resolving
<1>16. QED
  BY <1>11, <1>12, <1>13, <1>14, <1>15, AdministeringType, TradingType DEF Next

(* The state of the contract keeps its types: no tally, deposit or counter *)
(* goes below zero or past its width, no ledger number past the last one,  *)
(* whatever calls are made, because each guard bounds what its call adds.  *)
THEOREM GovernorTypeOK == Spec => []TypeOK
<1>1. TypeOK /\ [Next]_vars => TypeOK'
  BY TypeStep
<1>2. QED
  BY <1>1, TypeInit, PTL DEF Spec

(***************************************************************************)
(* What each call does to the proposals: it opens one, replaces the record *)
(* of one, or leaves of every one the part its life is made of.            *)
(***************************************************************************)

Life(p) == [status |-> p.status, closes |-> p.end, ready |-> p.queue]

(* What the life of a proposal and its deposit depend on.                  *)
Core(p) == <<p.status, p.end, p.queue, p.timelock, p.deposit>>

SameCore == /\ ledger' = ledger
            /\ DOMAIN proposals' = DOMAIN proposals
            /\ \A id \in Ids : Core(proposals'[id]) = Core(proposals[id])

(* Voting, attaching actions, administering and trading leave the status,  *)
(* window, timelock and deposit of every proposal alone.                   *)
LEMMA QuietCalls ==
  ASSUME TypeOK,
         \/ \E id \in Ids, t \in Target : SetProposalAction(id, t)
         \/ \E a \in Account, id \in Ids, s \in Support : Vote(a, id, s)
         \/ Administering
         \/ Trading
         \/ UNCHANGED vars
  PROVE  SameCore
<1>1. ASSUME NEW id \in Ids, NEW t \in Target, SetProposalAction(id, t)
      PROVE  SameCore
  <2> DEFINE q == [proposals[id] EXCEPT !.actions = Append(proposals[id].actions, t)]
  <2>1. proposals' = [proposals EXCEPT ![id] = q] /\ ledger' = ledger
    BY <1>1 DEF SetProposalAction
  <2>2. Core(q) = Core(proposals[id])
    BY ProposalFields DEF Core, Proposal
  <2> HIDE DEF q
  <2>3. QED
    BY <2>1, <2>2, Replaced DEF SameCore, Ids, TypeOK
<1>2. ASSUME NEW a \in Account, NEW id \in Ids, NEW s \in Support, Vote(a, id, s)
      PROVE  SameCore
  <2> DEFINE p == proposals[id]
             q == [p EXCEPT !.votes = TalliesAfter(p, a, s),
                            !.conviction = ConvictionAfter(p, a, s), !.receipts[a] = s]
  <2>1. proposals' = [proposals EXCEPT ![id] = q] /\ ledger' = ledger
    BY <1>2, ProposalFields DEF Vote, VoteOn, Proposal, TypeOK, Ids
  <2>2. Core(q) = Core(p)
    BY ProposalFields DEF Core, Proposal
  <2> HIDE DEF q
  <2>3. QED
    BY <2>1, <2>2, Replaced DEF SameCore, Ids, TypeOK
<1>3. CASE Administering
  BY <1>3, AdministeringType DEF SameCore
<1>4. CASE Trading
  BY <1>4, TradingType DEF SameCore
<1>5. CASE UNCHANGED vars
  BY <1>5 DEF SameCore, vars
<1>6. QED
  BY <1>1, <1>2, <1>3, <1>4, <1>5

(* So does the closing of a ledger, which settles weights only.            *)
LEMMA LedgerCloses ==
  ASSUME TypeOK, CloseLedger
  PROVE  /\ ledger' = ledger + 1
         /\ DOMAIN proposals' = DOMAIN proposals
         /\ \A id \in Ids : Core(proposals'[id]) = Core(proposals[id])
<1>1. CASE UNCHANGED proposals
  BY <1>1 DEF CloseLedger
<1>2. ASSUME NEW w \in Weights,
             proposals' = [id \in Ids |->
               IF proposals[id].snapshot = ledger
               THEN [proposals[id] EXCEPT !.weights = w] ELSE proposals[id]]
      PROVE  /\ DOMAIN proposals' = DOMAIN proposals
             /\ \A id \in Ids : Core(proposals'[id]) = Core(proposals[id])
  <2>1. \A id \in Ids : Core([proposals[id] EXCEPT !.weights = w]) = Core(proposals[id])
    BY ProposalFields DEF Core, Proposal
  <2>2. QED
    BY <1>2, <2>1 DEF Ids
<1>3. QED
  BY <1>1, <1>2 DEF CloseLedger

(* The calls that give one proposal a new status.                          *)
Settled(id, q) == proposals' = [proposals EXCEPT ![id] = q] /\ ledger' = ledger

(* Each call that settles a proposal replaces its record by one with the   *)
(* status, queue ledger and deposit the call gives it.                     *)
LEMMA SettlingCalls ==
  ASSUME TypeOK, NEW id \in Ids
  PROVE  /\ FinalizeQueued(id) =>
              Settled(id, [TakeDeposit(proposals[id]) EXCEPT
                             !.status = "Queued", !.queue = ledger + proposals[id].timelock])
         /\ FinalizeFailed(id) =>
              Settled(id, [TakeDeposit(proposals[id]) EXCEPT !.status = "Failed"])
         /\ \A a \in Account : Cancel(a, id) =>
              Settled(id, [TakeDeposit(proposals[id]) EXCEPT !.status = "Cancelled"])
         /\ \A a \in Account : Veto(a, id) =>
              Settled(id, [proposals[id] EXCEPT !.status = "Vetoed"])
         /\ \A n \in 0 .. balance[Self], a \in Account : Execute(id, n, a) =>
              Settled(id, [proposals[id] EXCEPT !.status = "Executed"])
         /\ MarkExpired(id) =>
              Settled(id, [proposals[id] EXCEPT !.status = "Expired"])
  BY DEF FinalizeQueued, FinalizeFailed, Cancel, Veto, Execute, MarkExpired, SetStatus, Settled

(***************************************************************************)
(* Deposits.                                                               *)
(***************************************************************************)

(* Settling a proposal keeps the deposits where they belong.               *)
LEMMA SettledDeposit ==
  ASSUME TypeOK, DepositOnlyWhileActive, NEW id \in Ids, NEW q, Settled(id, q),
         q.deposit > 0 => q.status = "Active"
  PROVE  DepositOnlyWhileActive'
  BY Replaced DEF DepositOnlyWhileActive, Settled, TypeOK, Ids

(* A deposit is recorded only while its proposal is Active: finalize and   *)
(* cancel, the ways out of Active, take the record away in the same call,  *)
(* so that nothing is refunded or burned twice.                            *)
THEOREM DepositIsTakenOnce == Spec => []DepositOnlyWhileActive
<1>1. Init => DepositOnlyWhileActive
  BY DEF Init, DepositOnlyWhileActive, Ids
<1>2. TypeOK /\ DepositOnlyWhileActive /\ [Next]_vars => DepositOnlyWhileActive'
  <2> SUFFICES ASSUME TypeOK, DepositOnlyWhileActive, [Next]_vars
               PROVE  DepositOnlyWhileActive'
    OBVIOUS
  <2>1. ASSUME DOMAIN proposals' = DOMAIN proposals,
               \A id \in Ids : Core(proposals'[id]) = Core(proposals[id])
        PROVE  DepositOnlyWhileActive'
    BY <2>1 DEF DepositOnlyWhileActive, Core, Ids
  <2>2. ASSUME NEW a \in Account, NEW sponsors \in Sponsorships, NEW kind \in Kinds,
               CreateProposal(a, sponsors, kind)
        PROVE  DepositOnlyWhileActive'
    <3>1. NewProposal(a, sponsors, kind).status = "Active"
      BY DEF NewProposal
    <3>2. proposals' = Append(proposals, NewProposal(a, sponsors, kind))
      BY <2>2 DEF CreateProposal
    <3>3. QED
      BY <3>1, <3>2 DEF DepositOnlyWhileActive, Ids, TypeOK
  <2>3. ASSUME NEW id \in Ids, NEW s \in Status, NEW q,
               \/ q = [TakeDeposit(proposals[id]) EXCEPT !.status = s]
               \/ q = [TakeDeposit(proposals[id]) EXCEPT
                         !.status = s, !.queue = ledger + proposals[id].timelock]
        PROVE  ~(q.deposit > 0)
    <3> DEFINE r == TakeDeposit(proposals[id])
    <3>1. r = [proposals[id] EXCEPT !.deposit = 0] /\ proposals[id] \in Proposal
      BY ProposalFields DEF TakeDeposit
    <3>2. r.deposit = 0 /\ DOMAIN r = DOMAIN proposals[id]
      BY <3>1 DEF Proposal
    <3> HIDE DEF r
    <3>3. q.deposit = r.deposit
      <4>1. CASE q = [r EXCEPT !.status = s]
        BY <4>1, <3>1, <3>2 DEF Proposal
      <4>2. CASE q = [r EXCEPT !.status = s, !.queue = ledger + proposals[id].timelock]
        BY <4>2, <3>1, <3>2 DEF Proposal
      <4>3. QED
        BY <2>3, <4>1, <4>2 DEF r
    <3>4. QED
      BY <3>2, <3>3
  <2>4. ASSUME NEW id \in Ids, NEW s \in Status, proposals[id].status # "Active"
        PROVE  ~([proposals[id] EXCEPT !.status = s].deposit > 0)
    BY <2>4, ProposalFields DEF DepositOnlyWhileActive, Proposal
  <2>5. CASE \E id \in Ids : FinalizeQueued(id) \/ FinalizeFailed(id)
                              \/ \E a \in Account : Cancel(a, id)
    BY <2>3, <2>5, SettlingCalls, SettledDeposit DEF Status
  <2>6. ASSUME NEW a \in Account, NEW id \in Ids, Veto(a, id)
        PROVE  DepositOnlyWhileActive'
    BY <2>4, <2>6, SettlingCalls, SettledDeposit DEF Veto, Status
  <2>7. ASSUME NEW id \in Ids, NEW n \in 0 .. balance[Self], NEW a \in Account,
               Execute(id, n, a)
        PROVE  DepositOnlyWhileActive'
    BY <2>4, <2>7, SettlingCalls, SettledDeposit DEF Execute, Status
  <2>8. ASSUME NEW id \in Ids, MarkExpired(id)
        PROVE  DepositOnlyWhileActive'
    BY <2>4, <2>8, SettlingCalls, SettledDeposit DEF MarkExpired, Expirable, Status
  <2>9. CASE CloseLedger
    BY <2>1, <2>9, LedgerCloses
  <2>10. CASE SameCore
    BY <2>1, <2>10 DEF SameCore
  <2>11. QED
    BY <2>2, <2>5, <2>6, <2>7, <2>8, <2>9, <2>10, QuietCalls
       DEF Next, Proposing, Deciding, Resolving, Finalize
<1>3. QED
  BY <1>1, <1>2, GovernorTypeOK, PTL DEF Spec

(***************************************************************************)
(* The contract implements the life of a proposal.                         *)
(***************************************************************************)

(* The history the refinement mapping gives ProposalLifecycle.             *)
History == [id \in Ids |-> [status |-> proposals[id].status,
                            closes |-> proposals[id].end,
                            ready  |-> proposals[id].queue]]

(* The timelock every proposal captured is the one initialize fixed.       *)
TimelockCaptured == \A id \in Ids : proposals[id].timelock = TimelockPeriod

(* Settling a proposal keeps its captured timelock ...                     *)
LEMMA SettledTimelock ==
  ASSUME TypeOK, TimelockCaptured, NEW id \in Ids, NEW q, Settled(id, q),
         q.timelock = proposals[id].timelock
  PROVE  TimelockCaptured'
  BY Replaced DEF TimelockCaptured, Settled, TypeOK, Ids

(* ... and changes one entry of the abstract history.                      *)
LEMMA SettledHistory ==
  ASSUME TypeOK, NEW id \in Ids, NEW q, Settled(id, q)
  PROVE  /\ History' = [History EXCEPT ![id] = Life(q)]
         /\ UNCHANGED ledger
  BY Replaced DEF History, Life, Settled, TypeOK, Ids

(* A step that keeps the core of every proposal keeps the history.         *)
LEMMA SameHistory ==
  ASSUME DOMAIN proposals' = DOMAIN proposals,
         \A id \in Ids : Core(proposals'[id]) = Core(proposals[id])
  PROVE  History' = History /\ (TimelockCaptured => TimelockCaptured')
  BY DEF History, Core, TimelockCaptured, Ids

(* A changed record gives the abstract entry with the same change.         *)
LEMMA LifeOfStatus ==
  ASSUME NEW p \in Proposal, NEW s
  PROVE  /\ Life([p EXCEPT !.status = s]) = [Life(p) EXCEPT !.status = s]
         /\ [p EXCEPT !.status = s].timelock = p.timelock
  BY DEF Life, Proposal

(* Taking the deposit is invisible to the abstract life.                   *)
LEMMA TakenDeposit ==
  ASSUME NEW p \in Proposal
  PROVE  /\ TakeDeposit(p) \in Proposal
         /\ Life(TakeDeposit(p)) = Life(p)
         /\ TakeDeposit(p).timelock = p.timelock
<1>1. 0 \in Amount
  BY GovernorAssumption DEF Amount
<1>2. QED
  BY <1>1 DEF TakeDeposit, Life, Proposal

(* The abstract life of a proposal that enters its timelock.               *)
LEMMA LifeOfQueued ==
  ASSUME NEW p \in Proposal, NEW l
  PROVE  LET q == [TakeDeposit(p) EXCEPT !.status = "Queued", !.queue = l]
         IN  /\ Life(q) = [status |-> "Queued", closes |-> p.end, ready |-> l]
             /\ q.timelock = p.timelock
<1> DEFINE r == TakeDeposit(p)
           q == [r EXCEPT !.status = "Queued", !.queue = l]
<1>1. r \in Proposal /\ r.end = p.end /\ r.timelock = p.timelock
  BY TakenDeposit DEF TakeDeposit, Proposal
<1> HIDE DEF r
<1>2. q.status = "Queued" /\ q.queue = l /\ q.end = r.end /\ q.timelock = r.timelock
  BY <1>1 DEF Proposal
<1> HIDE DEF q
<1>3. Life(q) = [status |-> "Queued", closes |-> p.end, ready |-> l]
  BY <1>1, <1>2 DEF Life
<1>4. QED
  BY <1>1, <1>2, <1>3 DEF r, q

(* Opening a proposal appends its life to the history.                     *)
LEMMA OpenedHistory ==
  ASSUME TypeOK, NEW q, proposals' = Append(proposals, q)
  PROVE  History' = Append(History, Life(q))
<1>1. /\ Len(proposals) \in Nat /\ DOMAIN proposals = 1 .. Len(proposals)
      /\ DOMAIN proposals' = 1 .. Len(proposals) + 1
      /\ \A id \in DOMAIN proposals : proposals'[id] = proposals[id]
      /\ proposals'[Len(proposals) + 1] = q
  BY DEF TypeOK
<1>2. /\ History = [id \in 1 .. Len(proposals) |-> Life(proposals[id])]
      /\ History' = [id \in 1 .. Len(proposals) + 1 |-> Life(proposals'[id])]
  BY <1>1 DEF History, Life, Ids
<1> DEFINE S == {Life(proposals[id]) : id \in Ids} \cup {Life(q)}
<1>3. History \in Seq(S) /\ Len(History) = Len(proposals)
  BY <1>1, <1>2 DEF Ids
<1>4. /\ DOMAIN Append(History, Life(q)) = 1 .. Len(proposals) + 1
      /\ \A i \in 1 .. Len(proposals) : Append(History, Life(q))[i] = History[i]
      /\ Append(History, Life(q))[Len(proposals) + 1] = Life(q)
      /\ Append(History, Life(q)) \in Seq(S)
  BY <1>1, <1>3
<1>5. \A i \in 1 .. Len(proposals) + 1 : History'[i] = Append(History, Life(q))[i]
  BY <1>1, <1>2, <1>4
<1>6. Append(History, Life(q)) = [i \in 1 .. Len(proposals) + 1 |-> Append(History, Life(q))[i]]
  <2> DEFINE s == Append(History, Life(q))
  <2>1. s \in Seq(S) /\ DOMAIN s = 1 .. Len(proposals) + 1
    BY <1>4
  <2> HIDE DEF s
  <2>2. QED
    BY <2>1, IsFunction DEF s
<1>7. QED
  BY <1>2, <1>5, <1>6

(* No call changes the timelock a proposal captured when it was opened.    *)
LEMMA TimelockIsCaptured == Spec => []TimelockCaptured
<1>1. Init => TimelockCaptured
  BY DEF Init, TimelockCaptured, Ids
<1>2. TypeOK /\ TimelockCaptured /\ [Next]_vars => TimelockCaptured'
  <2> SUFFICES ASSUME TypeOK, TimelockCaptured, [Next]_vars
               PROVE  TimelockCaptured'
    OBVIOUS
  <2>1. ASSUME NEW a \in Account, NEW sponsors \in Sponsorships, NEW kind \in Kinds,
               CreateProposal(a, sponsors, kind)
        PROVE  TimelockCaptured'
    <3>1. NewProposal(a, sponsors, kind).timelock = TimelockPeriod
      BY DEF NewProposal
    <3>2. proposals' = Append(proposals, NewProposal(a, sponsors, kind))
      BY <2>1 DEF CreateProposal
    <3>3. QED
      BY <3>1, <3>2 DEF TimelockCaptured, Ids, TypeOK
  <2>2. ASSUME NEW id \in Ids, NEW s \in Status
        PROVE  /\ [proposals[id] EXCEPT !.status = s].timelock = proposals[id].timelock
               /\ [TakeDeposit(proposals[id]) EXCEPT !.status = s].timelock
                    = proposals[id].timelock
               /\ [TakeDeposit(proposals[id]) EXCEPT !.status = "Queued",
                        !.queue = ledger + proposals[id].timelock].timelock
                    = proposals[id].timelock
    BY ProposalFields, LifeOfStatus, TakenDeposit, LifeOfQueued
  <2>3. CASE \E id \in Ids :
               \/ FinalizeQueued(id) \/ FinalizeFailed(id) \/ MarkExpired(id)
               \/ \E a \in Account : Cancel(a, id) \/ Veto(a, id)
               \/ \E n \in 0 .. balance[Self], a \in Account : Execute(id, n, a)
    BY <2>2, <2>3, SettlingCalls, SettledTimelock DEF Status
  <2>4. CASE CloseLedger
    BY <2>4, LedgerCloses, SameHistory
  <2>5. CASE SameCore
    BY <2>5, SameHistory DEF SameCore
  <2>6. QED
    BY <2>1, <2>3, <2>4, <2>5, QuietCalls
       DEF Next, Proposing, Deciding, Resolving, Finalize
<1>3. QED
  BY <1>1, <1>2, GovernorTypeOK, PTL DEF Spec

(* A call that settles a proposal is a step of its life.                   *)
LEMMA SettlingSteps ==
  ASSUME TypeOK, TimelockCaptured, NEW id \in Ids,
         \/ FinalizeQueued(id) \/ FinalizeFailed(id) \/ MarkExpired(id)
         \/ \E a \in Account : Cancel(a, id) \/ Veto(a, id)
         \/ \E n \in 0 .. balance[Self], a \in Account : Execute(id, n, a)
  PROVE  Lifecycle!Next
<1> DEFINE p == proposals[id]
<1>1. /\ p \in Proposal /\ TakeDeposit(p) \in Proposal
      /\ Life(TakeDeposit(p)) = Life(p)
      /\ History[id] = Life(p) /\ id \in DOMAIN History
      /\ p.timelock = TimelockPeriod
  BY ProposalFields, TakenDeposit DEF History, Life, TimelockCaptured
<1>2. /\ Life(p).status = p.status /\ Life(p).closes = p.end /\ Life(p).ready = p.queue
  BY DEF Life
<1>3. ASSUME NEW s, NEW r \in Proposal, Life(r) = Life(p),
             Settled(id, [r EXCEPT !.status = s])
      PROVE  Lifecycle!Becomes(id, s)
  <2>1. History' = [History EXCEPT ![id] = [Life(p) EXCEPT !.status = s]] /\ ledger' = ledger
    <3> DEFINE q == [r EXCEPT !.status = s]
    <3>1. Life(q) = [Life(p) EXCEPT !.status = s]
      BY <1>3, LifeOfStatus
    <3>2. Settled(id, q)
      BY <1>3
    <3> HIDE DEF q
    <3>3. History' = [History EXCEPT ![id] = Life(q)] /\ ledger' = ledger
      BY <3>2, SettledHistory
    <3>4. QED
      BY <3>1, <3>3
  <2>2. QED
    BY <1>1, <2>1 DEF Lifecycle!Becomes, History
<1>4. CASE FinalizeQueued(id)
  <2>1. /\ History' = [History EXCEPT ![id] = [status |-> "Queued", closes |-> p.end,
                                               ready |-> ledger + TimelockPeriod]]
        /\ ledger' = ledger
    <3> DEFINE l == ledger + p.timelock
               q == [TakeDeposit(p) EXCEPT !.status = "Queued", !.queue = l]
    <3>1. Life(q) = [status |-> "Queued", closes |-> p.end, ready |-> l]
      BY <1>1, LifeOfQueued
    <3>2. Settled(id, q)
      BY <1>4, SettlingCalls
    <3>3. l = ledger + TimelockPeriod
      BY <1>1
    <3> HIDE DEF q, l
    <3>4. History' = [History EXCEPT ![id] = Life(q)] /\ ledger' = ledger
      BY <3>2, SettledHistory
    <3>5. QED
      BY <3>1, <3>3, <3>4
  <2>2. p.status = "Active" /\ ledger > p.end
    BY <1>4 DEF FinalizeQueued, Closable
  <2>3. Lifecycle!Pass(id)
    BY <1>1, <1>2, <2>1, <2>2 DEF Lifecycle!Pass, History
  <2>4. QED
    BY <1>1, <2>3 DEF Lifecycle!Next, History
<1>5. CASE FinalizeFailed(id)
  <2>1. Lifecycle!Becomes(id, "Failed") /\ p.status = "Active" /\ ledger > p.end
    BY <1>1, <1>3, <1>5, SettlingCalls DEF FinalizeFailed, Closable
  <2>2. Lifecycle!Fail(id)
    BY <1>1, <1>2, <2>1 DEF Lifecycle!Fail, History
  <2>3. QED
    BY <1>1, <2>2 DEF Lifecycle!Next, History
<1>6. CASE \E a \in Account : Cancel(a, id)
  <2>1. Lifecycle!Becomes(id, "Cancelled") /\ p.status = "Active" /\ ledger <= p.end
    BY <1>1, <1>3, <1>6, SettlingCalls DEF Cancel, Cancellable
  <2>2. Lifecycle!Cancel(id)
    BY <1>1, <1>2, <2>1 DEF Lifecycle!Cancel, History
  <2>3. QED
    BY <1>1, <2>2 DEF Lifecycle!Next, History
<1>7. CASE \E a \in Account : Veto(a, id)
  <2>1. Lifecycle!Becomes(id, "Vetoed") /\ p.status = "Queued" /\ ledger < p.queue
    BY <1>1, <1>3, <1>7, SettlingCalls DEF Veto
  <2>2. Lifecycle!Veto(id)
    BY <1>1, <1>2, <2>1 DEF Lifecycle!Veto, History
  <2>3. QED
    BY <1>1, <2>2 DEF Lifecycle!Next, History
<1>8. CASE \E n \in 0 .. balance[Self], a \in Account : Execute(id, n, a)
  <2>1. /\ Lifecycle!Becomes(id, "Executed") /\ p.status = "Queued"
        /\ ledger >= p.queue /\ ~PastDeadline(p)
    BY <1>1, <1>3, <1>8, SettlingCalls DEF Execute
  <2>2. Lifecycle!Execute(id)
    BY <1>1, <1>2, <2>1 DEF Lifecycle!Execute, Lifecycle!Lapsed, PastDeadline, History
  <2>3. QED
    BY <1>1, <2>2 DEF Lifecycle!Next, History
<1>9. CASE MarkExpired(id)
  <2>1. /\ Lifecycle!Becomes(id, "Expired") /\ p.status = "Queued" /\ PastDeadline(p)
    BY <1>1, <1>3, <1>9, SettlingCalls DEF MarkExpired, Expirable
  <2>2. Lifecycle!Expire(id)
    BY <1>1, <1>2, <2>1 DEF Lifecycle!Expire, Lifecycle!Lapsed, PastDeadline, History
  <2>3. QED
    BY <1>1, <2>2 DEF Lifecycle!Next, History
<1>10. QED
  BY <1>4, <1>5, <1>6, <1>7, <1>8, <1>9

(* Every call of the governance contract is a step of the abstract life of *)
(* a proposal or leaves it alone: opening is Open, the two outcomes of     *)
(* finalize are Pass and Fail, a closing ledger is Tick, and what votes,   *)
(* deposits, roles and settings do is invisible to it.                     *)
THEOREM GovernorImplementsLifecycle == Spec => ImplementsLifecycle
<1>1. Init => Lifecycle!Init
  BY DEF Init, Lifecycle!Init, Ids
<1>2. TypeOK /\ TimelockCaptured /\ [Next]_vars => [Lifecycle!Next]_(Lifecycle!vars)
  <2> SUFFICES ASSUME TypeOK, TimelockCaptured, [Next]_vars
               PROVE  [Lifecycle!Next]_(Lifecycle!vars)
    OBVIOUS
  <2>1. ASSUME NEW a \in Account, NEW sponsors \in Sponsorships, NEW kind \in Kinds,
               CreateProposal(a, sponsors, kind)
        PROVE  Lifecycle!Next
    <3> DEFINE q == NewProposal(a, sponsors, kind)
    <3>1. Life(q) = [status |-> "Active", closes |-> ledger + 1 + VotingPeriod, ready |-> 0]
      BY DEF NewProposal, Life
    <3>2. proposals' = Append(proposals, q) /\ ledger' = ledger
      BY <2>1 DEF CreateProposal
    <3> HIDE DEF q
    <3>3. History' = Append(History, Life(q))
      BY <3>2, OpenedHistory
    <3>4. QED
      BY <3>1, <3>2, <3>3 DEF Lifecycle!Next, Lifecycle!Open, History
  <2>2. CASE \E id \in Ids :
               \/ FinalizeQueued(id) \/ FinalizeFailed(id) \/ MarkExpired(id)
               \/ \E a \in Account : Cancel(a, id) \/ Veto(a, id)
               \/ \E n \in 0 .. balance[Self], a \in Account : Execute(id, n, a)
    BY <2>2, SettlingSteps
  <2>3. CASE CloseLedger
    <3>1. ledger' = ledger + 1 /\ History' = History
      BY <2>3, LedgerCloses, SameHistory
    <3>2. QED
      BY <3>1 DEF Lifecycle!Next, Lifecycle!Tick, History
  <2>4. CASE SameCore
    <3>1. ledger' = ledger /\ History' = History
      BY <2>4, SameHistory DEF SameCore
    <3>2. QED
      BY <3>1 DEF Lifecycle!vars, History
  <2>5. QED
    BY <2>1, <2>2, <2>3, <2>4, QuietCalls
       DEF Next, Proposing, Deciding, Resolving, Finalize
<1>3. QED
  BY <1>1, <1>2, GovernorTypeOK, TimelockIsCaptured, PTL DEF Spec, ImplementsLifecycle, Lifecycle!Spec

(***************************************************************************)
(* What the life of a proposal guarantees, carried over to the contract.   *)
(***************************************************************************)

Promises == INSTANCE ProposalLifecycle_proofs WITH now <- ledger, history <- History

(* The instance whose theorems are cited and the one the contract's        *)
(* properties name have the same history, so they say the same.            *)
LEMMA SamePromises ==
  /\ Promises!Periods
  /\ ImplementsLifecycle => Promises!Spec
  /\ [](Promises!StatusEarned) => []StatusesAreEarned
  /\ Promises!FinalIsFinal => FinalStatusIsFinal
<1>1. Promises!Periods
  BY GovernorAssumption DEF Promises!Periods
<1>2. Lifecycle!Init => Promises!Init
  BY DEF Lifecycle!Init, Promises!Init, History
<1>3. [Lifecycle!Next]_(Lifecycle!vars) => [Promises!Next]_(Promises!vars)
  BY DEF Lifecycle!Next, Lifecycle!vars, Lifecycle!Open, Lifecycle!Tick, Lifecycle!Pass,
         Lifecycle!Fail, Lifecycle!Cancel, Lifecycle!Veto, Lifecycle!Execute,
         Lifecycle!Expire, Lifecycle!Lapsed, Lifecycle!Becomes,
         Promises!Next, Promises!vars, Promises!Open, Promises!Tick, Promises!Pass,
         Promises!Fail, Promises!Cancel, Promises!Veto, Promises!Execute,
         Promises!Expire, Promises!Lapsed, Promises!Becomes, History
<1>4. Promises!StatusEarned => StatusesAreEarned
  BY DEF Promises!StatusEarned, StatusesAreEarned, Lifecycle!StatusEarned, History
<1>5. QED
  BY <1>1, <1>2, <1>3, <1>4, PTL
     DEF ImplementsLifecycle, Lifecycle!Spec, Promises!Spec, FinalStatusIsFinal,
         Lifecycle!FinalIsFinal, Promises!FinalIsFinal, Lifecycle!vars, Promises!vars,
         Lifecycle!Final, Promises!Final, History

(* No status of a proposal is unearned: nothing is decided before its      *)
(* window closed, executed inside its timelock, or expired early.          *)
THEOREM GovernorStatusesAreEarned == Spec => []StatusesAreEarned
  BY GovernorImplementsLifecycle, SamePromises, Promises!LifecycleEarned, PTL

(* No call takes a proposal out of a final status.                         *)
THEOREM GovernorFinalStatusIsFinal == Spec => FinalStatusIsFinal
  BY GovernorImplementsLifecycle, SamePromises, Promises!LifecycleIsFinal, PTL

(* A proposal is executed by execute, when it is due: never while paused,  *)
(* after the whole timelock that was captured when it was opened, within   *)
(* the grace period, and only if every target is still allowed.            *)
THEOREM ExecutionsAreDue == Spec => ExecutionIsDue
<1> DEFINE Due ==
      \A id \in Ids :
        LET p == proposals[id]
        IN  (p.status # "Executed" /\ proposals'[id].status = "Executed") =>
              /\ ~config.paused
              /\ ledger > p.end + p.timelock
              /\ GracePeriod > 0 => ledger <= p.queue + GracePeriod
              /\ \A i \in DOMAIN p.actions : p.actions[i] \in allowed
<1>1. TypeOK /\ TimelockCaptured /\ StatusesAreEarned /\ [Next]_vars => [Due]_vars
  <2> SUFFICES ASSUME TypeOK, TimelockCaptured, StatusesAreEarned, [Next]_vars,
                      NEW id \in Ids, proposals[id].status # "Executed",
                      proposals'[id].status = "Executed"
               PROVE  /\ ~config.paused
                      /\ ledger > proposals[id].end + proposals[id].timelock
                      /\ GracePeriod > 0 => ledger <= proposals[id].queue + GracePeriod
                      /\ \A i \in DOMAIN proposals[id].actions :
                           proposals[id].actions[i] \in allowed
    OBVIOUS
  <2>1. ASSUME NEW a \in Account, NEW sponsors \in Sponsorships, NEW kind \in Kinds,
               CreateProposal(a, sponsors, kind)
        PROVE  FALSE
    BY <2>1 DEF CreateProposal, TypeOK, Ids
  <2>2. ASSUME NEW other \in Ids, NEW s \in Status \ {"Executed"}, NEW r \in Proposal,
               Settled(other, [r EXCEPT !.status = s])
        PROVE  FALSE
    <3>1. [r EXCEPT !.status = s].status = s
      BY DEF Proposal
    <3> DEFINE q == [r EXCEPT !.status = s]
    <3>2. q.status # "Executed" /\ Settled(other, q)
      BY <2>2, <3>1
    <3> HIDE DEF q
    <3>3. QED
      BY <3>2, Replaced DEF Settled, TypeOK, Ids
  <2>3. ASSUME NEW other \in Ids,
               \/ FinalizeQueued(other) \/ FinalizeFailed(other) \/ MarkExpired(other)
               \/ \E a \in Account : Cancel(a, other) \/ Veto(a, other)
        PROVE  FALSE
    <3>1. proposals[other] \in Proposal /\ TakeDeposit(proposals[other]) \in Proposal
      BY ProposalFields, TakenDeposit
    <3>2. CASE FinalizeQueued(other)
      <4> DEFINE q == [TakeDeposit(proposals[other]) EXCEPT !.status = "Queued",
                          !.queue = ledger + proposals[other].timelock]
      <4>1. q.status = "Queued"
        BY <3>1 DEF Proposal
      <4>2. Settled(other, q)
        BY <3>2, SettlingCalls
      <4> HIDE DEF q
      <4>3. QED
        BY <4>1, <4>2, Replaced DEF Settled, TypeOK, Ids
    <3>3. CASE FinalizeFailed(other)
      BY <2>2, <3>1, <3>3, SettlingCalls DEF Status
    <3>4. CASE \E a \in Account : Cancel(a, other)
      BY <2>2, <3>1, <3>4, SettlingCalls DEF Status
    <3>5. CASE \E a \in Account : Veto(a, other)
      BY <2>2, <3>1, <3>5, SettlingCalls DEF Status
    <3>6. CASE MarkExpired(other)
      BY <2>2, <3>1, <3>6, SettlingCalls DEF Status
    <3>7. QED
      BY <2>3, <3>2, <3>3, <3>4, <3>5, <3>6
  <2>4. ASSUME NEW other \in Ids, NEW n \in 0 .. balance[Self], NEW a \in Account,
               Execute(other, n, a)
        PROVE  /\ ~config.paused
               /\ ledger > proposals[id].end + proposals[id].timelock
               /\ GracePeriod > 0 => ledger <= proposals[id].queue + GracePeriod
               /\ \A i \in DOMAIN proposals[id].actions :
                    proposals[id].actions[i] \in allowed
    <3>1. other = id
      BY <2>4, Replaced DEF Execute, SetStatus, TypeOK, Ids
    <3>2. /\ ~config.paused /\ proposals[id].status = "Queued"
          /\ ledger >= proposals[id].queue /\ ~PastDeadline(proposals[id])
          /\ ActionsAllowed(proposals[id])
      BY <2>4, <3>1 DEF Execute
    <3>3. proposals[id].end + TimelockPeriod < proposals[id].queue
      BY <3>2 DEF StatusesAreEarned, Lifecycle!StatusEarned
    <3>4. proposals[id].timelock = TimelockPeriod
      BY DEF TimelockCaptured
    <3>5. /\ ledger \in Nat /\ proposals[id].end \in Nat /\ proposals[id].queue \in Nat
          /\ TimelockPeriod \in Nat /\ GracePeriod \in Nat
      BY ProposalFields, GovernorAssumption
    <3>6. QED
      BY <3>2, <3>3, <3>4, <3>5 DEF PastDeadline, ActionsAllowed
  <2>5. CASE CloseLedger
    BY <2>5, LedgerCloses DEF Core
  <2>6. CASE SameCore
    BY <2>6 DEF SameCore, Core
  <2>7. QED
    BY <2>1, <2>3, <2>4, <2>5, <2>6, QuietCalls
       DEF Next, Proposing, Deciding, Resolving, Finalize
<1>2. QED
  BY <1>1, GovernorTypeOK, TimelockIsCaptured, GovernorStatusesAreEarned, PTL
     DEF Spec, ExecutionIsDue

(***************************************************************************)
(* The result of a vote.                                                   *)
(***************************************************************************)

(* What the result of a proposal depends on.                               *)
Count(p) == <<p.votes, p.quorum, p.conviction, p.end, p.kind>>

LEMMA SameResult ==
  ASSUME NEW p, NEW q, Count(q) = Count(p)
  PROVE  (Passes(q) <=> Passes(p)) /\ q.end = p.end
<1>1. /\ q.votes = p.votes /\ q.quorum = p.quorum /\ q.conviction = p.conviction
      /\ q.end = p.end /\ q.kind = p.kind
  BY DEF Count
<1>2. QuorumMet(q) <=> QuorumMet(p)
  BY <1>1 DEF QuorumMet, TotalVotes
<1>3. MajorityFor(q) <=> MajorityFor(p)
  BY <1>1 DEF MajorityFor
<1>4. QED
  BY <1>1, <1>2, <1>3 DEF Passes

(* Giving a proposal a new status does not touch the count.                *)
LEMMA SettledCount ==
  ASSUME NEW p \in Proposal, NEW s
  PROVE  /\ Count([p EXCEPT !.status = s]) = Count(p)
         /\ [p EXCEPT !.status = s].status = s
         /\ Count([TakeDeposit(p) EXCEPT !.status = s]) = Count(p)
         /\ [TakeDeposit(p) EXCEPT !.status = s].status = s
<1> DEFINE r == TakeDeposit(p)
<1>1. ASSUME NEW t \in Proposal
      PROVE  /\ Count([t EXCEPT !.status = s]) = Count(t)
             /\ [t EXCEPT !.status = s].status = s
  BY DEF Count, Proposal
<1>2. r \in Proposal /\ Count(r) = Count(p)
  BY TakenDeposit DEF TakeDeposit, Count, Proposal
<1> HIDE DEF r
<1>3. QED
  BY <1>1, <1>2 DEF r

(* Nor does the start of its timelock.                                     *)
LEMMA QueuedCount ==
  ASSUME NEW p \in Proposal, NEW l, NEW q,
         q = [TakeDeposit(p) EXCEPT !.status = "Queued", !.queue = l]
  PROVE  Count(q) = Count(p) /\ q.status = "Queued"
<1> DEFINE r == TakeDeposit(p)
<1>1. r \in Proposal /\ Count(r) = Count(p)
  BY TakenDeposit DEF TakeDeposit, Count, Proposal
<1>2. q = [r EXCEPT !.status = "Queued", !.queue = l]
  OBVIOUS
<1> HIDE DEF r
<1>3. QED
  BY <1>1, <1>2 DEF Count, Proposal

(* Nothing but a vote on it changes the count or keeps a proposal as it    *)
(* was in status: a step either settles one proposal, or leaves count and  *)
(* status of every proposal that was there alone, or is a vote.            *)
Uncounted(id) == Count(proposals'[id]) = Count(proposals[id])
Steady(id)    == Uncounted(id) /\ proposals'[id].status = proposals[id].status

LEMMA SettlingCounts ==
  ASSUME TypeOK, NEW other \in Ids,
         \/ FinalizeQueued(other) \/ FinalizeFailed(other) \/ MarkExpired(other)
         \/ \E a \in Account : Cancel(a, other) \/ Veto(a, other)
         \/ \E n \in 0 .. balance[Self], a \in Account : Execute(other, n, a)
  PROVE  /\ DOMAIN proposals' = DOMAIN proposals
         /\ Uncounted(other)
         /\ \A id \in Ids : id # other => Steady(id)
         /\ \/ proposals'[other].status = "Queued" /\ Passes(proposals[other])
            \/ proposals'[other].status = "Failed" /\ ~Passes(proposals[other])
            \/ proposals'[other].status = "Cancelled"
            \/ /\ proposals'[other].status \in {"Vetoed", "Executed", "Expired"}
               /\ proposals[other].status = "Queued"
<1> DEFINE p == proposals[other]
<1>1. p \in Proposal
  BY ProposalFields
<1>2. ASSUME NEW q, Settled(other, q), Count(q) = Count(p)
      PROVE  /\ DOMAIN proposals' = DOMAIN proposals
             /\ Uncounted(other)
             /\ proposals'[other] = q
             /\ \A id \in Ids : id # other => Steady(id)
  BY <1>2, Replaced DEF Settled, Uncounted, Steady, TypeOK, Ids
<1>3. ASSUME NEW s, Settled(other, [p EXCEPT !.status = s])
      PROVE  /\ DOMAIN proposals' = DOMAIN proposals
             /\ Uncounted(other)
             /\ proposals'[other].status = s
             /\ \A id \in Ids : id # other => Steady(id)
  <2> DEFINE q == [p EXCEPT !.status = s]
  <2>1. Count(q) = Count(p) /\ q.status = s
    BY <1>1, SettledCount
  <2>2. Settled(other, q)
    BY <1>3
  <2> HIDE DEF q
  <2>3. QED
    BY <1>2, <2>1, <2>2
<1>4. ASSUME NEW s, Settled(other, [TakeDeposit(p) EXCEPT !.status = s])
      PROVE  /\ DOMAIN proposals' = DOMAIN proposals
             /\ Uncounted(other)
             /\ proposals'[other].status = s
             /\ \A id \in Ids : id # other => Steady(id)
  <2> DEFINE q == [TakeDeposit(p) EXCEPT !.status = s]
  <2>1. Count(q) = Count(p) /\ q.status = s
    BY <1>1, SettledCount
  <2>2. Settled(other, q)
    BY <1>4
  <2> HIDE DEF q
  <2>3. QED
    BY <1>2, <2>1, <2>2
<1>5. CASE FinalizeQueued(other)
  <2> DEFINE l == ledger + p.timelock
             q == [TakeDeposit(p) EXCEPT !.status = "Queued", !.queue = l]
  <2>1. Settled(other, q)
    BY <1>5, SettlingCalls
  <2> HIDE DEF l
  <2>2. Count(q) = Count(p) /\ q.status = "Queued"
    BY <1>1, QueuedCount
  <2> HIDE DEF q
  <2>3. /\ DOMAIN proposals' = DOMAIN proposals
        /\ Uncounted(other)
        /\ proposals'[other].status = "Queued"
        /\ \A id \in Ids : id # other => Steady(id)
    BY <1>2, <2>1, <2>2
  <2>4. Passes(p)
    BY <1>5 DEF FinalizeQueued
  <2>5. QED
    BY <2>3, <2>4
<1>6. CASE FinalizeFailed(other)
  BY <1>4, <1>6, SettlingCalls DEF FinalizeFailed
<1>7. CASE \E a \in Account : Cancel(a, other)
  BY <1>4, <1>7, SettlingCalls
<1>8. CASE \E a \in Account : Veto(a, other)
  BY <1>3, <1>8, SettlingCalls DEF Veto
<1>9. CASE \E n \in 0 .. balance[Self], a \in Account : Execute(other, n, a)
  BY <1>3, <1>9, SettlingCalls DEF Execute
<1>10. CASE MarkExpired(other)
  BY <1>3, <1>10, SettlingCalls DEF MarkExpired, Expirable
<1>11. QED
  BY <1>5, <1>6, <1>7, <1>8, <1>9, <1>10

LEMMA VotingCounts ==
  ASSUME TypeOK, NEW a \in Account, NEW other \in Ids, NEW s \in Support, Vote(a, other, s)
  PROVE  /\ DOMAIN proposals' = DOMAIN proposals
         /\ ledger <= proposals[other].end
         /\ proposals[other].status = "Active" /\ proposals'[other].status = "Active"
         /\ \A id \in Ids : id # other => Steady(id)
<1> DEFINE p == proposals[other]
           q == [p EXCEPT !.votes = TalliesAfter(p, a, s),
                          !.conviction = ConvictionAfter(p, a, s), !.receipts[a] = s]
<1>1. proposals' = [proposals EXCEPT ![other] = q]
  BY ProposalFields DEF Vote, VoteOn, Proposal, TypeOK, Ids
<1>2. ledger <= p.end /\ p.status = "Active"
  BY DEF Vote, VoteOn
<1>3. q.status = p.status
  BY ProposalFields DEF Proposal
<1> HIDE DEF q
<1>4. QED
  BY <1>1, <1>2, <1>3, Replaced DEF Steady, Uncounted, TypeOK, Ids

LEMMA OtherCounts ==
  ASSUME TypeOK,
         \/ \E id \in Ids, t \in Target : SetProposalAction(id, t)
         \/ \E a \in Account, sponsors \in Sponsorships, kind \in Kinds :
              CreateProposal(a, sponsors, kind)
         \/ Administering \/ Trading \/ CloseLedger \/ UNCHANGED vars
  PROVE  \A id \in Ids : Steady(id)
<1>1. ASSUME NEW other \in Ids, NEW t \in Target, SetProposalAction(other, t)
      PROVE  \A id \in Ids : Steady(id)
  <2> DEFINE q == [proposals[other] EXCEPT !.actions = Append(proposals[other].actions, t)]
  <2>1. proposals' = [proposals EXCEPT ![other] = q]
    BY <1>1 DEF SetProposalAction
  <2>2. Count(q) = Count(proposals[other]) /\ q.status = proposals[other].status
    BY ProposalFields DEF Count, Proposal
  <2> HIDE DEF q
  <2>3. QED
    BY <2>1, <2>2, Replaced DEF Steady, Uncounted, TypeOK, Ids
<1>2. ASSUME NEW a \in Account, NEW sponsors \in Sponsorships, NEW kind \in Kinds,
             CreateProposal(a, sponsors, kind)
      PROVE  \A id \in Ids : Steady(id)
  <2> DEFINE q == NewProposal(a, sponsors, kind)
  <2>1. proposals' = Append(proposals, q)
    BY <1>2 DEF CreateProposal
  <2> HIDE DEF q
  <2>2. \A id \in Ids : proposals'[id] = proposals[id]
    BY <2>1 DEF TypeOK, Ids
  <2>3. QED
    BY <2>2 DEF Steady, Uncounted
<1>3. CASE Administering
  BY <1>3, AdministeringType DEF Steady, Uncounted
<1>4. CASE Trading
  BY <1>4, TradingType DEF Steady, Uncounted
<1>5. CASE CloseLedger
  <2>1. CASE UNCHANGED proposals
    BY <2>1 DEF Steady, Uncounted
  <2>2. ASSUME NEW w \in Weights,
               proposals' = [id \in Ids |->
                 IF proposals[id].snapshot = ledger
                 THEN [proposals[id] EXCEPT !.weights = w] ELSE proposals[id]]
        PROVE  \A id \in Ids : Steady(id)
    <3>1. \A id \in Ids :
            /\ Count([proposals[id] EXCEPT !.weights = w]) = Count(proposals[id])
            /\ [proposals[id] EXCEPT !.weights = w].status = proposals[id].status
      BY ProposalFields DEF Count, Proposal
    <3>2. QED
      BY <2>2, <3>1 DEF Steady, Uncounted
  <2>3. QED
    BY <1>5, <2>1, <2>2 DEF CloseLedger
<1>6. CASE UNCHANGED vars
  BY <1>6 DEF Steady, Uncounted, vars
<1>7. QED
  BY <1>1, <1>2, <1>3, <1>4, <1>5, <1>6

(* "The result does not depend on when finalize() is called": after its    *)
(* window no call and no passing ledger changes whether a proposal passes, *)
(* for any half-life and any sequence of calls.                            *)
THEOREM ResultsAreFinal == Spec => ResultDoesNotDrift
<1> DEFINE Final ==
      \A id \in Ids :
        ledger > proposals[id].end => Passes(proposals[id])' = Passes(proposals[id])
<1>1. TypeOK /\ [Next]_vars => [Final]_vars
  <2> SUFFICES ASSUME TypeOK, [Next]_vars, NEW id \in Ids, ledger > proposals[id].end
               PROVE  Passes(proposals'[id]) = Passes(proposals[id])
    OBVIOUS
  <2>1. ledger \in Nat /\ proposals[id].end \in Nat
    BY ProposalFields
  <2>2. Uncounted(id)
    <3>1. ASSUME NEW a \in Account, NEW other \in Ids, NEW s \in Support, Vote(a, other, s)
          PROVE  Uncounted(id)
      BY <2>1, <3>1, VotingCounts DEF Steady
    <3>2. ASSUME NEW other \in Ids,
                 \/ FinalizeQueued(other) \/ FinalizeFailed(other) \/ MarkExpired(other)
                 \/ \E a \in Account : Cancel(a, other) \/ Veto(a, other)
                 \/ \E n \in 0 .. balance[Self], a \in Account : Execute(other, n, a)
          PROVE  Uncounted(id)
      BY <3>2, SettlingCounts DEF Steady
    <3>3. ASSUME \A x \in Ids : Steady(x) PROVE Uncounted(id)
      BY <3>3 DEF Steady
    <3>4. QED
      BY <3>1, <3>2, <3>3, OtherCounts DEF Next, Proposing, Deciding, Resolving, Finalize
  <2>3. Passes(proposals'[id]) <=> Passes(proposals[id])
    BY <2>2, SameResult DEF Uncounted
  <2>4. QED
    BY <2>3 DEF Passes
<1>2. QED
  BY <1>1, GovernorTypeOK, PTL DEF Spec, ResultDoesNotDrift

(* The status of a decided proposal is the one its count gives.            *)
DecidedByCount ==
  \A id \in Ids :
    /\ proposals[id].status \in {"Queued", "Executed", "Expired", "Vetoed"}
         => Passes(proposals[id])
    /\ proposals[id].status = "Failed" => ~Passes(proposals[id])

(* Once decided, no vote, veto, execution or expiry makes a proposal's     *)
(* status and its count disagree.                                          *)
THEOREM StatusFollowsCount == Spec => []DecidedByCount
<1>1. Init => DecidedByCount
  BY DEF Init, DecidedByCount, Ids
<1>2. TypeOK /\ DecidedByCount /\ [Next]_vars => DecidedByCount'
  <2> SUFFICES ASSUME TypeOK, DecidedByCount, [Next]_vars
               PROVE  DecidedByCount'
    OBVIOUS
  <2> DEFINE Agrees(p) ==
        /\ p.status \in {"Queued", "Executed", "Expired", "Vetoed"} => Passes(p)
        /\ p.status = "Failed" => ~Passes(p)
  <2>1. \A id \in Ids : Agrees(proposals[id])
    BY DEF DecidedByCount
  <2>2. ASSUME NEW id \in Ids, Steady(id) PROVE Agrees(proposals'[id])
    <3>1. Passes(proposals'[id]) <=> Passes(proposals[id])
      BY <2>2, SameResult DEF Steady, Uncounted
    <3>2. QED
      BY <2>1, <2>2, <3>1 DEF Steady
  <2>3. SUFFICES \A id \in DOMAIN proposals' : Agrees(proposals'[id])
    BY DEF DecidedByCount, Ids
  <2>4. ASSUME NEW a \in Account, NEW other \in Ids, NEW s \in Support, Vote(a, other, s)
        PROVE  \A id \in DOMAIN proposals' : Agrees(proposals'[id])
    <3>1. Agrees(proposals'[other])
      BY <2>4, VotingCounts
    <3>2. QED
      BY <2>2, <2>4, <3>1, VotingCounts DEF Ids
  <2>5. ASSUME NEW other \in Ids,
               \/ FinalizeQueued(other) \/ FinalizeFailed(other) \/ MarkExpired(other)
               \/ \E a \in Account : Cancel(a, other) \/ Veto(a, other)
               \/ \E n \in 0 .. balance[Self], a \in Account : Execute(other, n, a)
        PROVE  \A id \in DOMAIN proposals' : Agrees(proposals'[id])
    <3>1. Passes(proposals'[other]) <=> Passes(proposals[other])
      BY <2>5, SettlingCounts, SameResult DEF Uncounted
    <3>2. Agrees(proposals'[other])
      BY <2>1, <2>5, <3>1, SettlingCounts
    <3>3. QED
      BY <2>2, <2>5, <3>2, SettlingCounts DEF Ids
  <2>6. ASSUME NEW a \in Account, NEW sponsors \in Sponsorships, NEW kind \in Kinds,
               CreateProposal(a, sponsors, kind)
        PROVE  \A id \in DOMAIN proposals' : Agrees(proposals'[id])
    <3> DEFINE q == NewProposal(a, sponsors, kind)
    <3>1. q.status = "Active" /\ proposals' = Append(proposals, q)
      BY <2>6 DEF NewProposal, CreateProposal
    <3> HIDE DEF q
    <3>2. \A id \in DOMAIN proposals' : id \in Ids \/ proposals'[id] = q
      BY <3>1 DEF TypeOK, Ids
    <3>3. \A id \in Ids : Agrees(proposals'[id])
      BY <2>2, <2>6, OtherCounts
    <3>4. QED
      BY <3>1, <3>2, <3>3
  <2>7. ASSUME DOMAIN proposals' = DOMAIN proposals, \A id \in Ids : Steady(id)
        PROVE  \A id \in DOMAIN proposals' : Agrees(proposals'[id])
    BY <2>2, <2>7 DEF Ids
  <2>8. CASE CloseLedger
    BY <2>7, <2>8, LedgerCloses, OtherCounts
  <2>9. CASE \/ \E id \in Ids, t \in Target : SetProposalAction(id, t)
             \/ Administering \/ Trading \/ UNCHANGED vars
    BY <2>7, <2>9, QuietCalls, OtherCounts DEF SameCore
  <2>10. QED
    BY <2>4, <2>5, <2>6, <2>8, <2>9 DEF Next, Proposing, Deciding, Resolving, Finalize
<1>3. QED
  BY <1>1, <1>2, GovernorTypeOK, PTL DEF Spec

(* As long as the tallies are the weights of the recorded choices, what    *)
(* happened to every proposal agrees with what its voters chose.           *)
LEMMA OutcomesFollowTallies == Spec => [](TalliesMatchReceipts => OutcomeMatchesVote)
<1>1. DecidedByCount => (TalliesMatchReceipts => OutcomeMatchesVote)
  <2> SUFFICES ASSUME DecidedByCount, TalliesMatchReceipts, NEW id \in Ids
               PROVE  LET p == proposals[id]
                      IN  /\ p.status \in {"Queued", "Executed", "Expired", "Vetoed"} => Carried(p)
                          /\ p.status = "Failed" => ~Carried(p)
    BY DEF OutcomeMatchesVote
  <2> DEFINE p == proposals[id]
  <2>1. /\ p.votes["for"] = WeightFor(p, "for")
        /\ p.votes["against"] = WeightFor(p, "against")
        /\ p.votes["abstain"] = WeightFor(p, "abstain")
    BY DEF TalliesMatchReceipts, Support
  <2>2. Carried(p) <=> Passes(p)
    BY <2>1 DEF Carried, Passes, QuorumMet, TotalVotes, MajorityFor
  <2>3. QED
    BY <2>2 DEF DecidedByCount
<1>2. QED
  BY <1>1, StatusFollowsCount, PTL

(* A recorded deposit goes back whole on a pass and is burned on a failure *)
(* or a cancellation, whatever the setting is by then; no other call moves *)
(* it.                                                                     *)
THEOREM DepositsAreSettled == Spec => DepositIsSettled
<1> DEFINE Moves(id) ==
      LET p == proposals[id]
          q == proposals'[id]
      IN  p.deposit # q.deposit =>
            \/ q.status = "Queued" /\ balance'[p.proposer] = balance[p.proposer] + p.deposit
            \/ q.status \in {"Failed", "Cancelled"} /\ supply' = supply - p.deposit
<1>1. TypeOK /\ [Next]_vars => [\A id \in Ids : Moves(id)]_vars
  <2> SUFFICES ASSUME TypeOK, [Next]_vars, NEW id \in Ids
               PROVE  Moves(id)
    OBVIOUS
  <2> DEFINE p == proposals[id]
  <2>1. p \in Proposal /\ p.proposer \in Account /\ p.deposit \in Nat
    BY ProposalFields
  <2>2. ASSUME NEW q, NEW other \in Ids, Settled(other, q)
        PROVE  /\ other # id => proposals'[id] = proposals[id]
               /\ other = id => proposals'[id] = q
    BY <2>2, Replaced DEF Settled, TypeOK, Ids
  <2>3. ASSUME NEW other \in Ids, FinalizeQueued(other) PROVE Moves(id)
    <3>1. CASE other # id
      BY <2>2, <2>3, <3>1, SettlingCalls
    <3>2. CASE other = id
      <4> DEFINE l == ledger + p.timelock
      <4>1. proposals'[id] = [TakeDeposit(p) EXCEPT !.status = "Queued", !.queue = l]
        BY <2>2, <2>3, <3>2, SettlingCalls
      <4> HIDE DEF l
      <4>2. proposals'[id].status = "Queued"
        BY <2>1, <4>1, QueuedCount
      <4>3. balance' = Paid(Self, p.proposer, p.deposit)
        BY <2>3, <3>2 DEF FinalizeQueued, RefundDeposit, PayToken
      <4>4. /\ Self # p.proposer /\ p.proposer \in Holder /\ Self \in Holder
            /\ balance \in [Holder -> Nat]
        BY <2>1, Holders, GovernorAssumption DEF TypeOK
      <4>5. balance'[p.proposer] = balance[p.proposer] + p.deposit
        BY <4>3, <4>4 DEF Paid
      <4>6. QED
        BY <4>2, <4>5
    <3>3. QED
      BY <3>1, <3>2
  <2>4. ASSUME NEW other \in Ids, NEW s \in {"Failed", "Cancelled"},
               Settled(other, [TakeDeposit(proposals[other]) EXCEPT !.status = s]),
               ForfeitDeposit(proposals[other])
        PROVE  Moves(id)
    <3>1. CASE other # id
      BY <2>2, <2>4, <3>1
    <3>2. CASE other = id
      <4>1. proposals'[id] = [TakeDeposit(p) EXCEPT !.status = s]
        BY <2>2, <2>4, <3>2
      <4>2. proposals'[id].status = s
        BY <2>1, <4>1, SettledCount
      <4>3. supply' = supply - p.deposit
        BY <2>4, <3>2 DEF ForfeitDeposit, BurnToken
      <4>4. QED
        BY <4>2, <4>3
    <3>3. QED
      BY <3>1, <3>2
  <2>5. ASSUME NEW other \in Ids, FinalizeFailed(other) PROVE Moves(id)
    BY <2>4, <2>5, SettlingCalls DEF FinalizeFailed
  <2>6. ASSUME NEW other \in Ids, NEW a \in Account, Cancel(a, other) PROVE Moves(id)
    BY <2>4, <2>6, SettlingCalls DEF Cancel
  <2>7. ASSUME NEW other \in Ids, NEW s,
               Settled(other, [proposals[other] EXCEPT !.status = s])
        PROVE  Moves(id)
    <3>1. [proposals[other] EXCEPT !.status = s].deposit = proposals[other].deposit
      BY ProposalFields DEF Proposal
    <3>2. proposals'[id].deposit = proposals[id].deposit
      BY <2>2, <2>7, <3>1
    <3>3. QED
      BY <3>2
  <2>8. ASSUME NEW other \in Ids,
               \/ MarkExpired(other)
               \/ \E a \in Account : Veto(a, other)
               \/ \E n \in 0 .. balance[Self], a \in Account : Execute(other, n, a)
        PROVE  Moves(id)
    BY <2>7, <2>8, SettlingCalls
  <2>9. ASSUME Core(proposals'[id]) = Core(proposals[id]) PROVE Moves(id)
    BY <2>9 DEF Core
  <2>10. ASSUME NEW a \in Account, NEW sponsors \in Sponsorships, NEW kind \in Kinds,
                CreateProposal(a, sponsors, kind)
         PROVE  Moves(id)
    <3>1. proposals'[id] = proposals[id]
      BY <2>10 DEF CreateProposal, TypeOK, Ids
    <3>2. QED
      BY <3>1
  <2>11. CASE CloseLedger
    BY <2>9, <2>11, LedgerCloses
  <2>12. CASE SameCore
    BY <2>9, <2>12 DEF SameCore
  <2>13. QED
    BY <2>3, <2>5, <2>6, <2>8, <2>10, <2>11, <2>12, QuietCalls
       DEF Next, Proposing, Deciding, Resolving, Finalize
<1>2. QED
  BY <1>1, GovernorTypeOK, PTL DEF Spec, DepositIsSettled

(***************************************************************************)
(* The tallies and the recorded choices.                                   *)
(***************************************************************************)

(* What the tallies of a proposal are counted from.                        *)
Ballot(p) == <<p.votes, p.receipts, p.weights, p.snapshot, p.start>>

Voters(p, s) == {a \in Account : p.receipts[a] = s}

(* Nobody has voted before the window opens, which is only once the        *)
(* snapshot's weights have settled; afterwards the tallies are the weights *)
(* of the choices.                                                         *)
BallotOK(p, now) ==
  /\ p.start = p.snapshot + 1
  /\ now < p.start => \A a \in Account : p.receipts[a] = NoVote
  /\ \A s \in Support : p.votes[s] = WeightFor(p, s)

BallotsOK == \A id \in Ids : BallotOK(proposals[id], ledger)

LEMMA SameBallot ==
  ASSUME NEW p, NEW q, NEW now, Ballot(q) = Ballot(p), BallotOK(p, now)
  PROVE  BallotOK(q, now)
  BY DEF Ballot, BallotOK, WeightFor

LEMMA VotersAre ==
  ASSUME NEW p, NEW s
  PROVE  IsFiniteSet(Voters(p, s)) /\ WeightFor(p, s) = SumFunctionOnSet(p.weights, Voters(p, s))
  BY FS_Subset, GovernorAssumption DEF Voters, WeightFor

(* Before anyone has voted the weight behind every choice is zero.         *)
LEMMA NobodyVoted ==
  ASSUME NEW p, \A a \in Account : p.receipts[a] = NoVote, NEW s \in Support
  PROVE  WeightFor(p, s) = 0
<1>1. Voters(p, s) = {}
  BY DEF Voters, NoVote, Support
<1>2. QED
  BY <1>1, VotersAre, SumEmpty

(* Giving a proposal a new status, or a timelock, leaves its ballot alone. *)
LEMMA SettledBallot ==
  ASSUME NEW p \in Proposal, NEW s
  PROVE  /\ Ballot([p EXCEPT !.status = s]) = Ballot(p)
         /\ Ballot([TakeDeposit(p) EXCEPT !.status = s]) = Ballot(p)
<1> DEFINE r == TakeDeposit(p)
<1>1. ASSUME NEW t \in Proposal PROVE Ballot([t EXCEPT !.status = s]) = Ballot(t)
  BY DEF Ballot, Proposal
<1>2. r \in Proposal /\ Ballot(r) = Ballot(p)
  BY TakenDeposit DEF TakeDeposit, Ballot, Proposal
<1> HIDE DEF r
<1>3. QED
  BY <1>1, <1>2 DEF r

LEMMA QueuedBallot ==
  ASSUME NEW p \in Proposal, NEW l, NEW q,
         q = [TakeDeposit(p) EXCEPT !.status = "Queued", !.queue = l]
  PROVE  Ballot(q) = Ballot(p)
<1> DEFINE r == TakeDeposit(p)
<1>1. r \in Proposal /\ Ballot(r) = Ballot(p)
  BY TakenDeposit DEF TakeDeposit, Ballot, Proposal
<1>2. q = [r EXCEPT !.status = "Queued", !.queue = l]
  OBVIOUS
<1> HIDE DEF r
<1>3. QED
  BY <1>1, <1>2 DEF Ballot, Proposal

LEMMA SettledBallots ==
  ASSUME TypeOK, BallotsOK, NEW id \in Ids, NEW q, Settled(id, q), BallotOK(q, ledger)
  PROVE  BallotsOK'
  BY Replaced DEF Settled, BallotsOK, TypeOK, Ids

(* The tallies after a vote: the old choice gives back what the new takes. *)
LEMMA TalliesAre ==
  ASSUME NEW p \in Proposal, NEW a \in Account, NEW s \in Support, NEW t \in Support,
         NEW w, w = p.weights[a], NEW previous, previous = p.receipts[a]
  PROVE  /\ previous = s => TalliesAfter(p, a, s)[t] = p.votes[t]
         /\ previous # s /\ t = s => TalliesAfter(p, a, s)[t] = p.votes[t] + w
         /\ previous # s /\ t = previous => TalliesAfter(p, a, s)[t] = p.votes[t] - w
         /\ t # s /\ t # previous => TalliesAfter(p, a, s)[t] = p.votes[t]
         /\ p.votes[t] \in Nat /\ w \in Nat
<1> DEFINE without == IF previous = NoVote THEN p.votes
                      ELSE [p.votes EXCEPT ![previous] = @ - w]
<1>1. TalliesAfter(p, a, s) = [without EXCEPT ![s] = @ + w]
  BY DEF TalliesAfter
<1>2. /\ p.votes \in [Support -> Nat] /\ w \in Nat
      /\ previous \in Support \cup {NoVote} /\ NoVote \notin Support
  <2>1. /\ p.votes \in [Support -> Amount] /\ p.weights \in [Account -> Amount]
        /\ p.receipts \in [Account -> Support \cup {NoVote}]
    BY DEF Proposal
  <2>2. Amount \subseteq Nat
    BY GovernorAssumption DEF Amount
  <2>3. QED
    BY <2>1, <2>2 DEF Support, NoVote
<1>3. CASE previous = NoVote
  BY <1>1, <1>2, <1>3
<1>4. CASE previous # NoVote
  <2>1. without = [p.votes EXCEPT ![previous] = p.votes[previous] - w]
    BY <1>4
  <2> HIDE DEF without
  <2>2. /\ DOMAIN without = Support
        /\ without[previous] = p.votes[previous] - w
        /\ \A u \in Support : u # previous => without[u] = p.votes[u]
    BY <1>2, <1>4, <2>1
  <2>3. /\ TalliesAfter(p, a, s)[s] = without[s] + w
        /\ \A u \in Support : u # s => TalliesAfter(p, a, s)[u] = without[u]
    BY <1>1, <2>2
  <2>4. p.votes[t] \in Nat /\ p.votes[s] \in Nat
    BY <1>2
  <2>5. QED
    BY <1>2, <1>4, <2>2, <2>3, <2>4
<1>5. QED
  BY <1>3, <1>4

(* So a vote, first or changed, keeps tallies and choices together.        *)
LEMMA VotedBallot ==
  ASSUME NEW p \in Proposal, NEW a \in Account, NEW s \in Support, NEW now, NEW conviction,
         BallotOK(p, now), ~(now < p.start), NEW q,
         q = [p EXCEPT !.votes = TalliesAfter(p, a, s), !.conviction = conviction,
                       !.receipts[a] = s]
  PROVE  BallotOK(q, now)
<1> DEFINE w == p.weights[a]
           previous == p.receipts[a]
<1>1. /\ q.votes = TalliesAfter(p, a, s) /\ q.weights = p.weights
      /\ q.snapshot = p.snapshot /\ q.start = p.start
      /\ q.receipts[a] = s
      /\ \A x \in Account : x # a => q.receipts[x] = p.receipts[x]
  BY DEF Proposal
<1>2. \A x \in Account : p.weights[x] \in Int
  <2>1. p.weights \in [Account -> Amount]
    BY DEF Proposal
  <2>2. Amount \subseteq Int
    BY GovernorAssumption DEF Amount
  <2>3. QED
    BY <2>1, <2>2
<1>3. ASSUME NEW t \in Support PROVE q.votes[t] = WeightFor(q, t)
  <2> DEFINE G == Voters(p, t)
             H == Voters(q, t)
  <2>1. /\ IsFiniteSet(G) /\ p.votes[t] = SumFunctionOnSet(p.weights, G)
        /\ WeightFor(q, t) = SumFunctionOnSet(p.weights, H)
    BY <1>1, VotersAre DEF BallotOK
  <2>2. /\ previous = s => H = G
        /\ previous # s /\ t = s => H = G \cup {a} /\ a \notin G
        /\ previous # s /\ t = previous => H = G \ {a} /\ a \in G
        /\ t # s /\ t # previous => H = G
        /\ G \in SUBSET Account
    BY <1>1 DEF Voters
  <2>3. /\ previous = s => q.votes[t] = p.votes[t]
        /\ previous # s /\ t = s => q.votes[t] = p.votes[t] + w
        /\ previous # s /\ t = previous => q.votes[t] = p.votes[t] - w
        /\ t # s /\ t # previous => q.votes[t] = p.votes[t]
        /\ p.votes[t] \in Nat /\ w \in Nat
    BY <1>1, TalliesAre
  <2>4. w = p.weights[a]
    OBVIOUS
  <2> HIDE DEF G, H, w, previous
  <2>5. CASE previous = s \/ (t # s /\ t # previous)
    BY <2>1, <2>2, <2>3, <2>5
  <2>6. CASE previous # s /\ t = s
    <3>1. \A x \in G \cup {a} : p.weights[x] \in Int
      BY <1>2, <2>2
    <3>2. SumFunctionOnSet(p.weights, G \cup {a}) = SumFunctionOnSet(p.weights, G) + w
      BY <2>1, <2>2, <2>4, <2>6, <3>1, SumWith
    <3>3. QED
      BY <2>1, <2>2, <2>3, <2>6, <3>2
  <2>7. CASE previous # s /\ t = previous
    <3>1. a \in G /\ \A x \in G : p.weights[x] \in Int
      BY <1>2, <2>2, <2>7
    <3>2. /\ SumFunctionOnSet(p.weights, G) = w + SumFunctionOnSet(p.weights, G \ {a})
          /\ SumFunctionOnSet(p.weights, G \ {a}) \in Int
      BY <2>1, <2>4, <3>1, SumWithout
    <3>3. q.votes[t] = SumFunctionOnSet(p.weights, G \ {a})
      BY <2>1, <2>3, <2>7, <3>2
    <3>4. QED
      BY <2>1, <2>2, <2>7, <3>3
  <2>8. QED
    BY <2>5, <2>6, <2>7
<1>4. QED
  BY <1>1, <1>3 DEF BallotOK

LEMMA BallotsClose ==
  ASSUME TypeOK, BallotsOK, CloseLedger
  PROVE  BallotsOK'
<1>1. ledger \in Nat /\ ledger' = ledger + 1
  BY GovernorAssumption DEF CloseLedger, TypeOK, Sequence
<1>2. \A id \in Ids : proposals[id].snapshot \in Nat
  <2>1. Sequence \subseteq Nat
    BY GovernorAssumption DEF Sequence
  <2>2. QED
    BY <2>1, ProposalFields DEF Proposal
<1>3. ASSUME NEW id \in Ids PROVE BallotOK(proposals[id], ledger')
  <2> DEFINE p == proposals[id]
  <2>1. BallotOK(p, ledger)
    BY DEF BallotsOK
  <2>2. p.start = p.snapshot + 1 /\ p.snapshot \in Nat
    BY <1>2, <2>1 DEF BallotOK
  <2>3. ledger' < p.start => ledger < p.start
    BY <1>1, <2>2
  <2>4. QED
    BY <2>1, <2>3 DEF BallotOK
<1>4. CASE UNCHANGED proposals
  BY <1>3, <1>4 DEF BallotsOK, Ids
<1>5. ASSUME NEW w \in Weights,
             proposals' = [id \in Ids |->
               IF proposals[id].snapshot = ledger
               THEN [proposals[id] EXCEPT !.weights = w] ELSE proposals[id]]
      PROVE  BallotsOK'
  <2> SUFFICES ASSUME NEW id \in Ids PROVE BallotOK(proposals'[id], ledger')
    BY <1>5 DEF BallotsOK, Ids
  <2>1. CASE proposals[id].snapshot # ledger
    BY <1>3, <1>5, <2>1
  <2>2. CASE proposals[id].snapshot = ledger
    <3> DEFINE p == proposals[id]
               q == [p EXCEPT !.weights = w]
    <3>1. proposals'[id] = q
      BY <1>5, <2>2
    <3>2. /\ q.start = p.start /\ q.snapshot = p.snapshot /\ q.votes = p.votes
          /\ q.receipts = p.receipts
      BY ProposalFields DEF Proposal
    <3>3. BallotOK(p, ledger)
      BY DEF BallotsOK
    <3>4. ledger < p.start
      BY <1>1, <2>2, <3>3 DEF BallotOK
    <3>5. \A a \in Account : p.receipts[a] = NoVote /\ q.receipts[a] = NoVote
      BY <3>2, <3>3, <3>4 DEF BallotOK
    <3> HIDE DEF q
    <3>6. \A s \in Support : WeightFor(p, s) = 0 /\ WeightFor(q, s) = 0
      BY <3>5, NobodyVoted
    <3>7. QED
      BY <3>1, <3>2, <3>3, <3>5, <3>6 DEF BallotOK
  <2>3. QED
    BY <2>1, <2>2
<1>6. QED
  BY <1>4, <1>5 DEF CloseLedger

LEMMA BallotsOpen ==
  ASSUME TypeOK, BallotsOK, NEW a \in Account, NEW sponsors \in Sponsorships,
         NEW kind \in Kinds, CreateProposal(a, sponsors, kind)
  PROVE  BallotsOK'
<1> DEFINE q == NewProposal(a, sponsors, kind)
<1>1. proposals' = Append(proposals, q) /\ ledger' = ledger
  BY DEF CreateProposal
<1>2. /\ q.start = q.snapshot + 1
      /\ \A x \in Account : q.receipts[x] = NoVote
      /\ \A s \in Support : q.votes[s] = 0
  BY DEF NewProposal
<1> HIDE DEF q
<1>3. BallotOK(q, ledger)
  BY <1>2, NobodyVoted DEF BallotOK
<1>4. \A id \in DOMAIN proposals' : proposals'[id] = q \/ (id \in Ids /\ proposals'[id] = proposals[id])
  BY <1>1 DEF TypeOK, Ids
<1>5. QED
  BY <1>1, <1>3, <1>4 DEF BallotsOK, Ids

LEMMA BallotsVote ==
  ASSUME TypeOK, BallotsOK, NEW a \in Account, NEW id \in Ids, NEW s \in Support, Vote(a, id, s)
  PROVE  BallotsOK'
<1> DEFINE p == proposals[id]
           c == ConvictionAfter(p, a, s)
           q == [p EXCEPT !.votes = TalliesAfter(p, a, s), !.conviction = c, !.receipts[a] = s]
<1>1. Settled(id, q)
  BY ProposalFields DEF Vote, VoteOn, Proposal, TypeOK, Ids, Settled
<1>2. p \in Proposal /\ BallotOK(p, ledger)
  BY ProposalFields DEF BallotsOK
<1>3. ~(ledger < p.start)
  <2>1. p.start \in Sequence /\ Sequence \subseteq Nat
    BY <1>2, GovernorAssumption DEF Proposal, Sequence
  <2>2. ledger >= p.start /\ ledger \in Nat
    BY ProposalFields DEF Vote, VoteOn
  <2> DEFINE start == p.start
  <2>3. start \in Nat /\ ledger >= start
    BY <2>1, <2>2
  <2> HIDE DEF start
  <2>4. ~(ledger < start)
    BY <2>2, <2>3
  <2>5. QED
    BY <2>4 DEF start
<1> HIDE DEF c
<1>4. BallotOK(q, ledger)
  BY <1>2, <1>3, VotedBallot
<1> HIDE DEF q
<1>5. QED
  BY <1>1, <1>4, SettledBallots

LEMMA BallotsStep ==
  ASSUME TypeOK, BallotsOK, [Next]_vars
  PROVE  BallotsOK'
<1>1. ASSUME NEW a \in Account, NEW sponsors \in Sponsorships, NEW kind \in Kinds,
             CreateProposal(a, sponsors, kind)
      PROVE  BallotsOK'
  BY <1>1, BallotsOpen
<1>2. ASSUME NEW a \in Account, NEW id \in Ids, NEW s \in Support, Vote(a, id, s)
      PROVE  BallotsOK'
  BY <1>2, BallotsVote
<1>3. ASSUME NEW id \in Ids, NEW q, Settled(id, q), Ballot(q) = Ballot(proposals[id])
      PROVE  BallotsOK'
  <2>1. BallotOK(proposals[id], ledger)
    BY DEF BallotsOK
  <2>2. BallotOK(q, ledger)
    BY <1>3, <2>1, SameBallot
  <2>3. QED
    BY <1>3, <2>2, SettledBallots
<1>4. ASSUME NEW id \in Ids, NEW t \in Target, SetProposalAction(id, t)
      PROVE  BallotsOK'
  <2> DEFINE q == [proposals[id] EXCEPT !.actions = Append(proposals[id].actions, t)]
  <2>1. Settled(id, q)
    BY <1>4 DEF SetProposalAction, Settled
  <2>2. Ballot(q) = Ballot(proposals[id])
    BY ProposalFields DEF Ballot, Proposal
  <2> HIDE DEF q
  <2>3. QED
    BY <1>3, <2>1, <2>2
<1>5. ASSUME NEW id \in Ids, NEW s,
             \/ Settled(id, [proposals[id] EXCEPT !.status = s])
             \/ Settled(id, [TakeDeposit(proposals[id]) EXCEPT !.status = s])
      PROVE  BallotsOK'
  <2>1. proposals[id] \in Proposal
    BY ProposalFields
  <2>2. QED
    BY <1>3, <1>5, <2>1, SettledBallot
<1>6. ASSUME NEW id \in Ids, FinalizeQueued(id)
      PROVE  BallotsOK'
  <2> DEFINE l == ledger + proposals[id].timelock
             q == [TakeDeposit(proposals[id]) EXCEPT !.status = "Queued", !.queue = l]
  <2>1. Settled(id, q)
    BY <1>6, SettlingCalls
  <2>2. proposals[id] \in Proposal
    BY ProposalFields
  <2> HIDE DEF l
  <2>3. Ballot(q) = Ballot(proposals[id])
    BY <2>2, QueuedBallot
  <2> HIDE DEF q
  <2>4. QED
    BY <1>3, <2>1, <2>3
<1>7. ASSUME NEW id \in Ids,
             \/ FinalizeFailed(id) \/ MarkExpired(id)
             \/ \E a \in Account : Cancel(a, id) \/ Veto(a, id)
             \/ \E n \in 0 .. balance[Self], a \in Account : Execute(id, n, a)
      PROVE  BallotsOK'
  BY <1>5, <1>7, SettlingCalls
<1>8. CASE UNCHANGED <<ledger, proposals>>
  BY <1>8 DEF BallotsOK, Ids
<1>9. CASE CloseLedger
  BY <1>9, BallotsClose
<1>10. Administering \/ Trading \/ UNCHANGED vars => UNCHANGED <<ledger, proposals>>
  BY AdministeringType, TradingType DEF vars
<1>11. QED
  BY <1>1, <1>2, <1>4, <1>6, <1>7, <1>8, <1>9, <1>10
     DEF Next, Proposing, Deciding, Resolving, Finalize

(* Each tally is the snapshot weight of the voters whose recorded choice   *)
(* it is, after any sequence of first votes and changes of choice: weights *)
(* settle before anyone has voted, and a vote moves its whole weight.      *)
THEOREM BallotsAreTallied == Spec => []TalliesMatchReceipts
<1>1. Init => BallotsOK
  BY DEF Init, BallotsOK, Ids
<1>2. TypeOK /\ BallotsOK /\ [Next]_vars => BallotsOK'
  BY BallotsStep
<1>3. BallotsOK => TalliesMatchReceipts
  BY DEF BallotsOK, BallotOK, TalliesMatchReceipts
<1>4. QED
  BY <1>1, <1>2, <1>3, GovernorTypeOK, PTL DEF Spec

(* What happened to every proposal agrees for ever with its votes: the     *)
(* quorum is of the last choices, and so is the majority on a standard     *)
(* proposal; on a conviction proposal it is of the support left at the     *)
(* close, which a voter's earlier choices are still part of.               *)
THEOREM OutcomesFollowVotes == Spec => []OutcomeMatchesVote
  BY OutcomesFollowTallies, BallotsAreTallied, PTL

(***************************************************************************)
(* The deposits are there.                                                 *)
(***************************************************************************)

Recorded == [id \in Ids |-> proposals[id].deposit]

LEMMA RecordedDeposits ==
  ASSUME TypeOK
  PROVE  /\ IsFiniteSet(Ids)
         /\ HeldDeposits = SumFunctionOnSet(Recorded, Ids)
         /\ \A id \in Ids : Recorded[id] = proposals[id].deposit /\ Recorded[id] \in Nat
         /\ HeldDeposits \in Nat
         /\ \A id \in Ids : proposals[id].deposit <= HeldDeposits
<1>1. IsFiniteSet(Ids)
  <2>1. Ids = 1 .. Len(proposals) /\ Len(proposals) \in Nat
    BY DEF TypeOK, Ids
  <2>2. QED
    BY <2>1, FS_Interval
<1>2. HeldDeposits = SumFunctionOnSet(Recorded, Ids)
  BY DEF HeldDeposits, Recorded, SumFunction
<1>3. \A id \in Ids : Recorded[id] = proposals[id].deposit /\ Recorded[id] \in Nat
  BY ProposalFields DEF Recorded
<1>4. QED
  BY <1>1, <1>2, <1>3, SumOfNaturals

(* A call that takes the record of one deposit away lowers the sum by it.  *)
LEMMA DepositTaken ==
  ASSUME TypeOK, TypeOK', NEW id \in Ids, NEW q, Settled(id, q), q.deposit = 0
  PROVE  HeldDeposits' = HeldDeposits - proposals[id].deposit
<1>1. /\ DOMAIN proposals' = Ids /\ proposals'[id] = q
      /\ \A x \in Ids : x # id => proposals'[x] = proposals[x]
  BY Replaced DEF Settled, TypeOK, Ids
<1>2. Recorded' = [x \in Ids |-> proposals'[x].deposit]
  BY <1>1 DEF Recorded, Ids
<1> DEFINE f == Recorded
           h == [x \in Ids |-> proposals'[x].deposit]
<1>3. /\ IsFiniteSet(Ids) /\ HeldDeposits = SumFunctionOnSet(f, Ids)
      /\ \A x \in Ids : f[x] = proposals[x].deposit /\ f[x] \in Nat
  BY RecordedDeposits
<1>4. HeldDeposits' = SumFunctionOnSet(h, Ids)
  BY <1>1, <1>2 DEF HeldDeposits, Recorded, SumFunction, Ids
<1>5. h[id] = 0 /\ \A x \in Ids : x # id => h[x] = f[x]
  BY <1>1, <1>3
<1> HIDE DEF f, h
<1>6. \A x \in Ids : f[x] \in Int /\ h[x] \in Int
  BY <1>3, <1>5
<1>7. SumFunctionOnSet(h, Ids) = SumFunctionOnSet(f, Ids) - f[id] + h[id]
      /\ SumFunctionOnSet(f, Ids) \in Int
  BY <1>3, <1>5, <1>6, SumChanged
<1>8. f[id] = proposals[id].deposit /\ f[id] \in Int
  BY <1>3
<1>9. QED
  BY <1>3, <1>4, <1>5, <1>7, <1>8

LEMMA DepositAdded ==
  ASSUME TypeOK, NEW q, q.deposit \in Nat, proposals' = Append(proposals, q)
  PROVE  HeldDeposits' = HeldDeposits + q.deposit
<1> DEFINE n == Len(proposals)
           f == Recorded
           h == [x \in Ids' |-> proposals'[x].deposit]
<1>1. /\ n \in Nat /\ Ids = 1 .. n /\ Ids' = 1 .. (n + 1)
      /\ proposals'[n + 1] = q
      /\ \A x \in Ids : proposals'[x] = proposals[x]
  BY DEF TypeOK, Ids
<1>2. Ids' = Ids \cup {n + 1} /\ n + 1 \notin Ids
  BY <1>1
<1>3. /\ IsFiniteSet(Ids) /\ HeldDeposits = SumFunctionOnSet(f, Ids)
      /\ \A x \in Ids : f[x] = proposals[x].deposit /\ f[x] \in Nat
  BY RecordedDeposits
<1>4. HeldDeposits' = SumFunctionOnSet(h, Ids')
  BY DEF HeldDeposits, SumFunction
<1>5. h[n + 1] = q.deposit /\ \A x \in Ids : h[x] = f[x]
  BY <1>1, <1>2, <1>3
<1> HIDE DEF f, h, n
<1>6. \A x \in Ids \cup {n + 1} : h[x] \in Int
  BY <1>3, <1>5
<1>7. SumFunctionOnSet(h, Ids \cup {n + 1}) = SumFunctionOnSet(h, Ids) + h[n + 1]
  BY <1>2, <1>3, <1>6, SumWith
<1>8. SumFunctionOnSet(h, Ids) = SumFunctionOnSet(f, Ids)
  BY <1>3, <1>5, SumSame
<1>9. QED
  BY <1>2, <1>3, <1>4, <1>5, <1>7, <1>8

LEMMA DepositsStay ==
  ASSUME TypeOK, DOMAIN proposals' = DOMAIN proposals,
         \A id \in Ids : proposals'[id].deposit = proposals[id].deposit
  PROVE  HeldDeposits' = HeldDeposits
<1>1. [id \in Ids |-> proposals[id].deposit]' = [id \in Ids |-> proposals[id].deposit]
  BY DEF Ids
<1>2. QED
  BY <1>1 DEF HeldDeposits

(* What a settling call leaves of the deposit.                             *)
LEMMA DepositsOfSettled ==
  ASSUME NEW p \in Proposal, NEW s, NEW l
  PROVE  /\ [p EXCEPT !.status = s].deposit = p.deposit
         /\ [TakeDeposit(p) EXCEPT !.status = s].deposit = 0
         /\ [TakeDeposit(p) EXCEPT !.status = s, !.queue = l].deposit = 0
<1> DEFINE r == TakeDeposit(p)
<1>1. ASSUME NEW t \in Proposal
      PROVE  /\ [t EXCEPT !.status = s].deposit = t.deposit
             /\ [t EXCEPT !.status = s, !.queue = l].deposit = t.deposit
  BY DEF Proposal
<1>2. r \in Proposal /\ r.deposit = 0
  BY TakenDeposit DEF TakeDeposit, Proposal
<1> HIDE DEF r
<1>3. QED
  BY <1>1, <1>2 DEF r

(* What the payments of the contract leave of its own balance.             *)
LEMMA SelfPays ==
  ASSUME TypeOK, NEW to \in Account, NEW amount \in Nat,
         PayToken(Self, to, amount) \/ BurnToken(Self, amount)
  PROVE  balance'[Self] = balance[Self] - amount
<1>1. /\ Self # to /\ Self \in Holder /\ to \in Holder /\ balance \in [Holder -> Nat]
  BY Holders, GovernorAssumption DEF TypeOK
<1>2. CASE PayToken(Self, to, amount)
  BY <1>1, <1>2 DEF PayToken, Paid
<1>3. CASE BurnToken(Self, amount)
  BY <1>1, <1>3 DEF BurnToken
<1>4. QED
  BY <1>2, <1>3

LEMMA SelfIsPaid ==
  ASSUME TypeOK, NEW from \in Account, NEW amount \in Nat, PayToken(from, Self, amount)
  PROVE  balance'[Self] = balance[Self] + amount
<1>1. /\ Self # from /\ Self \in Holder /\ from \in Holder /\ balance \in [Holder -> Nat]
  BY Holders, GovernorAssumption DEF TypeOK
<1>2. QED
  BY <1>1 DEF PayToken, Paid

LEMMA SelfIsKept ==
  ASSUME TypeOK, Trading
  PROVE  balance'[Self] \in Nat /\ balance'[Self] >= balance[Self]
<1>1. /\ Account \subseteq Holder /\ Self \in Holder /\ Self \notin Account
      /\ Payments \subseteq Nat /\ balance \in [Holder -> Nat]
  <2>1. \A n \in Payments : n \in Nat
    BY GovernorAssumption
  <2>2. QED
    BY <2>1, Holders, GovernorAssumption DEF TypeOK
<1>2. CASE \E a \in Account, b \in Holder, n \in Payments : TokenTransfer(a, b, n)
  BY <1>1, <1>2 DEF TokenTransfer, PayToken, Paid
<1>3. CASE \E a \in Account, n \in Payments : TokenBurn(a, n)
  BY <1>1, <1>3 DEF TokenBurn, BurnToken
<1>4. CASE \E a \in Holder, n \in Payments : TokenMint(a, n)
  BY <1>1, <1>4 DEF TokenMint
<1>5. QED
  BY <1>2, <1>3, <1>4 DEF Trading

(* Without the token among the targets no execution spends anything.       *)
LEMMA NothingSpent ==
  ASSUME Token \notin Target, TypeOK, NEW id \in Ids, NEW spent \in 0 .. balance[Self],
         NEW to \in Account, Execute(id, spent, to)
  PROVE  spent = 0
<1>1. balance[Self] \in Nat
  BY Holders DEF TypeOK
<1>2. proposals[id].actions \in Seq(Target)
  BY ProposalFields DEF Proposal
<1>3. ~ \E i \in DOMAIN proposals[id].actions : proposals[id].actions[i] = Token
  <2> DEFINE acts == proposals[id].actions
  <2>1. \A i \in DOMAIN acts : acts[i] \in Target
    <3>1. acts \in Seq(Target)
      BY <1>2
    <3> HIDE DEF acts
    <3>2. QED
      BY <3>1
  <2>2. QED
    BY <2>1
<1>4. ~(spent > 0)
  BY <1>3 DEF Execute
<1>5. QED
  BY <1>1, <1>4

LEMMA HeldStep ==
  ASSUME Token \notin Target, TypeOK, TypeOK', DepositsAreHeld, [Next]_vars
  PROVE  DepositsAreHeld'
<1>1. /\ balance[Self] \in Nat /\ HeldDeposits \in Nat /\ balance[Self] >= HeldDeposits
      /\ balance'[Self] \in Nat
      /\ \A id \in Ids : proposals[id].deposit \in Nat /\ proposals[id].proposer \in Account
  <2>1. balance \in [Holder -> Nat] /\ balance' \in [Holder -> Nat]
    BY DEF TypeOK
  <2>2. balance[Self] \in Nat /\ balance'[Self] \in Nat
    BY <2>1, Holders
  <2>3. QED
    BY <2>2, RecordedDeposits, ProposalFields DEF DepositsAreHeld
<1>2. ASSUME NEW id \in Ids, NEW q, Settled(id, q), q.deposit = 0,
             \/ RefundDeposit(proposals[id])
             \/ ForfeitDeposit(proposals[id])
      PROVE  DepositsAreHeld'
  <2> DEFINE d == proposals[id].deposit
  <2>1. balance'[Self] = balance[Self] - d /\ d \in Nat
    BY <1>1, <1>2, SelfPays DEF RefundDeposit, ForfeitDeposit
  <2>2. HeldDeposits' = HeldDeposits - d
    BY <1>2, DepositTaken
  <2> HIDE DEF d
  <2>3. QED
    BY <1>1, <2>1, <2>2 DEF DepositsAreHeld
<1>3. ASSUME NEW id \in Ids,
             \/ FinalizeQueued(id) \/ FinalizeFailed(id) \/ \E a \in Account : Cancel(a, id)
      PROVE  DepositsAreHeld'
  <2> DEFINE p == proposals[id]
             l == ledger + p.timelock
  <2>1. p \in Proposal
    BY ProposalFields
  <2> HIDE DEF l
  <2>2. /\ [TakeDeposit(p) EXCEPT !.status = "Queued", !.queue = l].deposit = 0
        /\ [TakeDeposit(p) EXCEPT !.status = "Failed"].deposit = 0
        /\ [TakeDeposit(p) EXCEPT !.status = "Cancelled"].deposit = 0
    BY <2>1, DepositsOfSettled
  <2>3. CASE FinalizeQueued(id)
    <3> DEFINE q == [TakeDeposit(p) EXCEPT !.status = "Queued", !.queue = l]
    <3>1. Settled(id, q)
      BY <2>3, SettlingCalls DEF l
    <3>2. RefundDeposit(p)
      BY <2>3 DEF FinalizeQueued
    <3>3. q.deposit = 0
      BY <2>2
    <3> HIDE DEF q
    <3>4. QED
      BY <1>2, <3>1, <3>2, <3>3
  <2>4. CASE FinalizeFailed(id)
    <3> DEFINE q == [TakeDeposit(p) EXCEPT !.status = "Failed"]
    <3>1. Settled(id, q) /\ ForfeitDeposit(p)
      BY <2>4, SettlingCalls DEF FinalizeFailed
    <3>2. q.deposit = 0
      BY <2>2
    <3> HIDE DEF q
    <3>3. QED
      BY <1>2, <3>1, <3>2
  <2>5. CASE \E a \in Account : Cancel(a, id)
    <3> DEFINE q == [TakeDeposit(p) EXCEPT !.status = "Cancelled"]
    <3>1. Settled(id, q) /\ ForfeitDeposit(p)
      BY <2>5, SettlingCalls DEF Cancel
    <3>2. q.deposit = 0
      BY <2>2
    <3> HIDE DEF q
    <3>3. QED
      BY <1>2, <3>1, <3>2
  <2>6. QED
    BY <1>3, <2>3, <2>4, <2>5
<1>4. ASSUME HeldDeposits' = HeldDeposits, balance'[Self] >= balance[Self]
      PROVE  DepositsAreHeld'
  BY <1>1, <1>4 DEF DepositsAreHeld
<1>5. ASSUME NEW id \in Ids, NEW s, Settled(id, [proposals[id] EXCEPT !.status = s])
      PROVE  HeldDeposits' = HeldDeposits
  <2> DEFINE q == [proposals[id] EXCEPT !.status = s]
  <2>1. q.deposit = proposals[id].deposit
    BY ProposalFields, DepositsOfSettled
  <2>2. Settled(id, q)
    BY <1>5
  <2> HIDE DEF q
  <2>3. /\ DOMAIN proposals' = DOMAIN proposals
        /\ \A x \in Ids : proposals'[x].deposit = proposals[x].deposit
    BY <2>1, <2>2, Replaced DEF Settled, TypeOK, Ids
  <2>4. QED
    BY <2>3, DepositsStay
<1>6. ASSUME NEW id \in Ids, NEW a \in Account, Veto(a, id)
      PROVE  DepositsAreHeld'
  <2>1. balance' = balance
    BY <1>6 DEF Veto, tokenVars
  <2>2. HeldDeposits' = HeldDeposits
    BY <1>5, <1>6, SettlingCalls
  <2>3. balance'[Self] >= balance[Self]
    BY <1>1, <2>1
  <2>4. QED
    BY <1>4, <2>2, <2>3
<1>7. ASSUME NEW id \in Ids, MarkExpired(id)
      PROVE  DepositsAreHeld'
  <2>1. balance' = balance
    BY <1>7 DEF MarkExpired, tokenVars
  <2>2. HeldDeposits' = HeldDeposits
    BY <1>5, <1>7, SettlingCalls
  <2>3. balance'[Self] >= balance[Self]
    BY <1>1, <2>1
  <2>4. QED
    BY <1>4, <2>2, <2>3
<1>8. ASSUME NEW id \in Ids, NEW n \in 0 .. balance[Self], NEW a \in Account, Execute(id, n, a)
      PROVE  DepositsAreHeld'
  <2>1. n = 0
    BY <1>8, NothingSpent
  <2>2. balance'[Self] = balance[Self] - 0
    BY <1>8, <2>1, SelfPays DEF Execute
  <2>3. HeldDeposits' = HeldDeposits
    BY <1>5, <1>8, SettlingCalls
  <2>4. QED
    BY <1>1, <1>4, <2>2, <2>3
<1>9. ASSUME NEW a \in Account, NEW sponsors \in Sponsorships, NEW kind \in Kinds,
             CreateProposal(a, sponsors, kind)
      PROVE  DepositsAreHeld'
  <2> DEFINE q == NewProposal(a, sponsors, kind)
  <2>1. config.deposit \in Nat /\ q.deposit = config.deposit
    BY GovernorAssumption DEF TypeOK, Config, Amount, NewProposal
  <2>2. proposals' = Append(proposals, q) /\ PayToken(a, Self, config.deposit)
    BY <1>9 DEF CreateProposal
  <2> HIDE DEF q
  <2>3. HeldDeposits' = HeldDeposits + config.deposit
    BY <2>1, <2>2, DepositAdded
  <2>4. balance'[Self] = balance[Self] + config.deposit
    BY <2>1, <2>2, SelfIsPaid
  <2>5. QED
    BY <1>1, <2>1, <2>3, <2>4 DEF DepositsAreHeld
<1>10. ASSUME \/ SameCore
              \/ /\ DOMAIN proposals' = DOMAIN proposals
                 /\ \A id \in Ids : Core(proposals'[id]) = Core(proposals[id])
       PROVE  HeldDeposits' = HeldDeposits
  <2>1. /\ DOMAIN proposals' = DOMAIN proposals
        /\ \A id \in Ids : proposals'[id].deposit = proposals[id].deposit
    BY <1>10 DEF SameCore, Core
  <2>2. QED
    BY <2>1, DepositsStay
<1>11. CASE CloseLedger
  <2>1. HeldDeposits' = HeldDeposits /\ balance' = balance
    BY <1>10, <1>11, LedgerCloses DEF CloseLedger, tokenVars
  <2>2. QED
    BY <1>1, <1>4, <2>1
<1>12. CASE Trading
  BY <1>4, <1>10, <1>12, QuietCalls, SelfIsKept
<1>13. CASE \/ \E id \in Ids, t \in Target : SetProposalAction(id, t)
            \/ \E a \in Account, id \in Ids, s \in Support : Vote(a, id, s)
            \/ Administering
            \/ UNCHANGED vars
  <2>1. balance' = balance
    <3>1. CASE \E id \in Ids, t \in Target : SetProposalAction(id, t)
      BY <3>1 DEF SetProposalAction, tokenVars
    <3>2. CASE \E a \in Account, id \in Ids, s \in Support : Vote(a, id, s)
      BY <3>2 DEF Vote, VoteOn, tokenVars
    <3>3. CASE Administering
      BY <3>3, AdministeringType DEF tokenVars
    <3>4. CASE UNCHANGED vars
      BY <3>4 DEF vars, tokenVars
    <3>5. QED
      BY <1>13, <3>1, <3>2, <3>3, <3>4
  <2>2. HeldDeposits' = HeldDeposits
    BY <1>10, <1>13, QuietCalls
  <2>3. QED
    BY <1>1, <1>4, <2>1, <2>2
<1>14. QED
  BY <1>3, <1>6, <1>7, <1>8, <1>9, <1>11, <1>12, <1>13
     DEF Next, Proposing, Deciding, Resolving, Finalize

(* While no proposal action can call the token in the governor's name, the *)
(* tokens of all recorded deposits are in the governor's balance, after    *)
(* any sequence of proposals, settlements and changes of the setting.      *)
THEOREM DepositsStayHeld ==
  ASSUME Token \notin Target
  PROVE  Spec => []DepositsAreHeld
<1>1. Init => DepositsAreHeld
  <2> SUFFICES ASSUME Init PROVE DepositsAreHeld
    OBVIOUS
  <2>1. Ids = {}
    BY DEF Init, Ids
  <2>2. HeldDeposits = 0
    BY <2>1, SumEmpty DEF HeldDeposits, SumFunction
  <2>3. balance[Self] = 0
    BY Holders DEF Init, Start
  <2>4. QED
    BY <2>2, <2>3 DEF DepositsAreHeld
<1>2. TypeOK /\ TypeOK' /\ DepositsAreHeld /\ [Next]_vars => DepositsAreHeld'
  BY HeldStep
<1>3. QED
  BY <1>1, <1>2, GovernorTypeOK, PTL DEF Spec

(***************************************************************************)
(* The snapshot, the window and the deposit of a proposal.                 *)
(***************************************************************************)

Frame(p) == <<p.snapshot, p.start, p.end, p.weights>>

(* A call opens a proposal, changes one without moving its frame and at    *)
(* most takes its deposit, or leaves all of them alone.                    *)
Reframed ==
  \E id \in Ids : \E q :
    /\ Settled(id, q)
    /\ Frame(q) = Frame(proposals[id]) /\ q.deposit \in {proposals[id].deposit, 0}

LEMMA SettledFrame ==
  ASSUME NEW p \in Proposal, NEW s
  PROVE  /\ Frame([p EXCEPT !.status = s]) = Frame(p)
         /\ Frame([TakeDeposit(p) EXCEPT !.status = s]) = Frame(p)
<1> DEFINE r == TakeDeposit(p)
<1>1. ASSUME NEW t \in Proposal PROVE Frame([t EXCEPT !.status = s]) = Frame(t)
  BY DEF Frame, Proposal
<1>2. r \in Proposal /\ Frame(r) = Frame(p)
  BY TakenDeposit DEF TakeDeposit, Frame, Proposal
<1> HIDE DEF r
<1>3. QED
  BY <1>1, <1>2 DEF r

LEMMA FrameStep ==
  ASSUME TypeOK, [Next]_vars
  PROVE  \/ \E a \in Account, sponsors \in Sponsorships, kind \in Kinds :
              CreateProposal(a, sponsors, kind)
         \/ CloseLedger
         \/ Reframed
         \/ UNCHANGED <<ledger, proposals>>
<1>1. ASSUME NEW id \in Ids, NEW q, Settled(id, q), Frame(q) = Frame(proposals[id]),
             q.deposit = proposals[id].deposit \/ q.deposit = 0
      PROVE  Reframed
  BY <1>1 DEF Reframed
<1>2. ASSUME NEW id \in Ids, NEW s, Settled(id, [proposals[id] EXCEPT !.status = s])
      PROVE  Reframed
  BY <1>1, <1>2, ProposalFields, SettledFrame, DepositsOfSettled
<1>3. ASSUME NEW id \in Ids, NEW s,
             Settled(id, [TakeDeposit(proposals[id]) EXCEPT !.status = s])
      PROVE  Reframed
  BY <1>1, <1>3, ProposalFields, SettledFrame, DepositsOfSettled
<1>4. ASSUME NEW id \in Ids, FinalizeQueued(id) PROVE Reframed
  <2> DEFINE p == proposals[id]
             r == TakeDeposit(p)
             l == ledger + p.timelock
             q == [r EXCEPT !.status = "Queued", !.queue = l]
  <2>1. Settled(id, q)
    BY <1>4, SettlingCalls
  <2>2. p \in Proposal
    BY ProposalFields
  <2>3. r \in Proposal /\ Frame(r) = Frame(p) /\ r.deposit = 0
    BY <2>2, TakenDeposit DEF TakeDeposit, Frame, Proposal
  <2> HIDE DEF r, l
  <2>4. Frame(q) = Frame(p) /\ q.deposit = 0
    BY <2>3 DEF Frame, Proposal
  <2> HIDE DEF q
  <2>5. QED
    BY <1>1, <2>1, <2>4
<1>5. ASSUME NEW id \in Ids,
             \/ FinalizeFailed(id) \/ MarkExpired(id)
             \/ \E a \in Account : Cancel(a, id) \/ Veto(a, id)
             \/ \E n \in 0 .. balance[Self], a \in Account : Execute(id, n, a)
      PROVE  Reframed
  BY <1>2, <1>3, <1>5, SettlingCalls
<1>6. ASSUME NEW id \in Ids, NEW t \in Target, SetProposalAction(id, t) PROVE Reframed
  <2> DEFINE q == [proposals[id] EXCEPT !.actions = Append(proposals[id].actions, t)]
  <2>1. Settled(id, q)
    BY <1>6 DEF SetProposalAction, Settled
  <2>2. Frame(q) = Frame(proposals[id]) /\ q.deposit = proposals[id].deposit
    BY ProposalFields DEF Frame, Proposal
  <2> HIDE DEF q
  <2>3. QED
    BY <1>1, <2>1, <2>2
<1>7. ASSUME NEW a \in Account, NEW id \in Ids, NEW s \in Support, Vote(a, id, s) PROVE Reframed
  <2> DEFINE p == proposals[id]
             q == [p EXCEPT !.votes = TalliesAfter(p, a, s),
                            !.conviction = ConvictionAfter(p, a, s), !.receipts[a] = s]
  <2>1. Settled(id, q)
    BY <1>7, ProposalFields DEF Vote, VoteOn, Proposal, TypeOK, Ids, Settled
  <2>2. Frame(q) = Frame(p) /\ q.deposit = p.deposit
    BY ProposalFields DEF Frame, Proposal
  <2> HIDE DEF q
  <2>3. QED
    BY <1>1, <2>1, <2>2
<1>8. Administering \/ Trading \/ UNCHANGED vars => UNCHANGED <<ledger, proposals>>
  BY AdministeringType, TradingType DEF vars
<1>9. QED
  BY <1>4, <1>5, <1>6, <1>7, <1>8 DEF Next, Proposing, Deciding, Resolving, Finalize

(* Voting opens in the ledger after the snapshot and lasts the period of   *)
(* initialize; deposits are those the setting ever had.                    *)
FrameOK(p, now) ==
  /\ p.snapshot <= now
  /\ p.start = p.snapshot + 1 /\ p.end = p.start + VotingPeriod
  /\ p.deposit \in Deposits \cup {0}

FramesOK ==
  /\ config.deposit \in Deposits \cup {0}
  /\ \A id \in Ids : FrameOK(proposals[id], ledger)

LEMMA FramesInit ==
  ASSUME Init
  PROVE  FramesOK
  BY DEF Init, FramesOK, Ids

LEMMA SettingStep ==
  ASSUME TypeOK, FramesOK, [Next]_vars
  PROVE  config'.deposit \in Deposits \cup {0}
<1>1. config \in Config
  BY DEF TypeOK
<1>2. CASE Administering
  BY <1>1, <1>2 DEF Administering, SetProposalDeposit, SetProposerCooldown, SetGuardian,
     Pause, Unpause, Configure, SetTargetAllowed, TransferAdmin, AcceptAdmin,
     CancelAdminTransfer, roleVars, Config, FramesOK
<1>3. CASE UNCHANGED config
  BY <1>3 DEF FramesOK
<1>4. Proposing => UNCHANGED config
  BY DEF Proposing, CreateProposal, SetProposalAction, Cancel, roleVars
<1>5. Deciding => UNCHANGED config
  <2>1. \A a \in Account, id \in Ids, s \in Support : Vote(a, id, s) => UNCHANGED config
    BY DEF Vote, VoteOn, roleVars
  <2>2. \A id \in Ids : Finalize(id) => UNCHANGED config
    BY DEF Finalize, FinalizeQueued, FinalizeFailed, roleVars
  <2>3. QED
    BY <2>1, <2>2 DEF Deciding
<1>6. Resolving => UNCHANGED config
  BY DEF Resolving, Veto, Execute, MarkExpired, roleVars
<1>7. Trading \/ CloseLedger \/ UNCHANGED vars => UNCHANGED config
  BY TradingType DEF CloseLedger, roleVars, vars
<1>8. QED
  BY <1>2, <1>3, <1>4, <1>5, <1>6, <1>7 DEF Next

LEMMA FramesStep ==
  ASSUME TypeOK, FramesOK, [Next]_vars
  PROVE  FramesOK'
<1>1. config'.deposit \in Deposits \cup {0}
  BY SettingStep
<1>2. ledger \in Nat /\ \A id \in Ids : proposals[id].snapshot \in Nat
  BY ProposalFields, GovernorAssumption DEF Proposal, TypeOK, Sequence
<1>3. ASSUME NEW a \in Account, NEW sponsors \in Sponsorships, NEW kind \in Kinds,
             CreateProposal(a, sponsors, kind)
      PROVE  FramesOK'
  <2> DEFINE q == NewProposal(a, sponsors, kind)
  <2>1. proposals' = Append(proposals, q) /\ ledger' = ledger
    BY <1>3 DEF CreateProposal
  <2>2. FrameOK(q, ledger)
    BY <1>2 DEF NewProposal, FrameOK, FramesOK
  <2> HIDE DEF q
  <2>3. \A id \in DOMAIN proposals' :
          proposals'[id] = q \/ (id \in Ids /\ proposals'[id] = proposals[id])
    BY <2>1 DEF TypeOK, Ids
  <2>4. QED
    BY <1>1, <2>1, <2>2, <2>3 DEF FramesOK, Ids
<1>4. CASE CloseLedger
  <2>1. ledger' = ledger + 1 /\ DOMAIN proposals' = Ids
    BY <1>4, LedgerCloses DEF Ids
  <2>2. ASSUME NEW id \in Ids
        PROVE  /\ proposals'[id].snapshot = proposals[id].snapshot
               /\ proposals'[id].start = proposals[id].start
               /\ proposals'[id].end = proposals[id].end
               /\ proposals'[id].deposit = proposals[id].deposit
    <3>1. \/ proposals'[id] = proposals[id]
          \/ \E w \in Weights : proposals'[id] = [proposals[id] EXCEPT !.weights = w]
      BY <1>4 DEF CloseLedger
    <3>2. QED
      BY <3>1, ProposalFields DEF Proposal
  <2>3. \A id \in Ids : FrameOK(proposals'[id], ledger')
    BY <1>2, <2>1, <2>2 DEF FramesOK, FrameOK
  <2>4. QED
    BY <1>1, <2>1, <2>3 DEF FramesOK, Ids
<1>5. CASE Reframed
  <2>1. PICK id \in Ids :
          \E q : /\ Settled(id, q)
                 /\ Frame(q) = Frame(proposals[id]) /\ q.deposit \in {proposals[id].deposit, 0}
    BY <1>5 DEF Reframed
  <2>2. PICK q :
          /\ Settled(id, q)
          /\ Frame(q) = Frame(proposals[id]) /\ q.deposit \in {proposals[id].deposit, 0}
    BY <2>1
  <2>3. FrameOK(q, ledger)
    BY <2>2 DEF FramesOK, FrameOK, Frame
  <2>4. QED
    BY <1>1, <2>2, <2>3, Replaced DEF FramesOK, Settled, TypeOK, Ids
<1>6. CASE UNCHANGED <<ledger, proposals>>
  BY <1>1, <1>6 DEF FramesOK, Ids
<1>7. QED
  BY <1>3, <1>4, <1>5, <1>6, FrameStep

(* Between two ledgers no call moves a snapshot or touches its weights.    *)
LEMMA FramesStay ==
  ASSUME TypeOK, [Next]_vars, ledger' = ledger, NEW id \in DOMAIN proposals',
         proposals'[id].snapshot < ledger
  PROVE  /\ id \in Ids
         /\ proposals'[id].snapshot = proposals[id].snapshot
         /\ proposals'[id].weights = proposals[id].weights
<1>1. ledger \in Nat
  BY GovernorAssumption DEF TypeOK, Sequence
<1>2. ASSUME NEW a \in Account, NEW sponsors \in Sponsorships, NEW kind \in Kinds,
             CreateProposal(a, sponsors, kind)
      PROVE  id \in Ids /\ proposals'[id] = proposals[id]
  <2> DEFINE q == NewProposal(a, sponsors, kind)
  <2>1. proposals' = Append(proposals, q) /\ q.snapshot = ledger
    BY <1>2 DEF CreateProposal, NewProposal
  <2> HIDE DEF q
  <2>2. proposals'[id] = q \/ (id \in Ids /\ proposals'[id] = proposals[id])
    BY <2>1 DEF TypeOK, Ids
  <2>3. QED
    BY <1>1, <2>1, <2>2
<1>3. ~CloseLedger
  BY <1>1 DEF CloseLedger
<1>4. CASE Reframed
  BY <1>4, Replaced DEF Reframed, Settled, Frame, TypeOK, Ids
<1>5. QED
  BY <1>2, <1>3, <1>4, FrameStep DEF Ids
(***************************************************************************)
(* The phase get_proposal_phase reports, and the calls that are made.      *)
(***************************************************************************)

(* The window of every proposal opens before it closes.                    *)
LEMMA FramesHold == Spec => []FramesOK
  BY GovernorTypeOK, FramesInit, FramesStep, PTL DEF Spec

(* What votes and attached actions write.                                  *)
Content(p) == <<p.votes, p.conviction, p.receipts, p.actions>>

(* Giving a proposal a new status writes none of it ...                    *)
LEMMA SettledContent ==
  ASSUME NEW p \in Proposal, NEW s
  PROVE  /\ Content([p EXCEPT !.status = s]) = Content(p)
         /\ Content([TakeDeposit(p) EXCEPT !.status = s]) = Content(p)
         /\ [p EXCEPT !.status = s].status = s
         /\ [TakeDeposit(p) EXCEPT !.status = s].status = s
<1> DEFINE r == TakeDeposit(p)
<1>1. ASSUME NEW t \in Proposal
      PROVE  /\ Content([t EXCEPT !.status = s]) = Content(t)
             /\ [t EXCEPT !.status = s].status = s
  BY DEF Content, Proposal
<1>2. r \in Proposal /\ Content(r) = Content(p)
  BY TakenDeposit DEF TakeDeposit, Content, Proposal
<1> HIDE DEF r
<1>3. QED
  BY <1>1, <1>2 DEF r

(* ... nor does the start of its timelock.                                 *)
LEMMA QueuedContent ==
  ASSUME NEW p \in Proposal, NEW l, NEW q,
         q = [TakeDeposit(p) EXCEPT !.status = "Queued", !.queue = l]
  PROVE  Content(q) = Content(p) /\ q.status = "Queued"
<1> DEFINE r == TakeDeposit(p)
<1>1. r \in Proposal /\ Content(r) = Content(p)
  BY TakenDeposit DEF TakeDeposit, Content, Proposal
<1>2. q = [r EXCEPT !.status = "Queued", !.queue = l]
  OBVIOUS
<1> HIDE DEF r
<1>3. QED
  BY <1>1, <1>2 DEF Content, Proposal

(* What a call may do to a proposal in the phase that was reported for it. *)
Follows(p, q) ==
  /\ q.status # p.status =>
       \/ q.status \in {"Queued", "Failed"} /\ PhaseOf(p) = "Ended"
       \/ q.status = "Cancelled" /\ PhaseOf(p) \in {"Pending", "Active"}
       \/ q.status = "Vetoed" /\ PhaseOf(p) = "Queued"
       \/ q.status = "Executed" /\ PhaseOf(p) = "ReadyToExecute"
       \/ q.status = "Expired" /\ PhaseOf(p) = "Expired"
  /\ <<q.votes, q.conviction, q.receipts>> # <<p.votes, p.conviction, p.receipts>> =>
       PhaseOf(p) = "Active" /\ q.status = "Active"
  /\ q.actions # p.actions => PhaseOf(p) \in {"Pending", "Active"} /\ q.status = "Active"

CallsFollowPhases == [][\A id \in Ids : Follows(proposals[id], proposals'[id])]_vars

LEMMA SameFollows ==
  ASSUME NEW p, NEW q, Content(q) = Content(p), q.status = p.status
  PROVE  Follows(p, q)
  BY DEF Follows, Content

LEMMA StatusFollows ==
  ASSUME NEW p, NEW q, Content(q) = Content(p),
         \/ q.status \in {"Queued", "Failed"} /\ PhaseOf(p) = "Ended"
         \/ q.status = "Cancelled" /\ PhaseOf(p) \in {"Pending", "Active"}
         \/ q.status = "Vetoed" /\ PhaseOf(p) = "Queued"
         \/ q.status = "Executed" /\ PhaseOf(p) = "ReadyToExecute"
         \/ q.status = "Expired" /\ PhaseOf(p) = "Expired"
  PROVE  Follows(p, q)
  BY DEF Follows, Content

(* The phase, from the conditions the calls test.                          *)
LEMMA Phases ==
  ASSUME NEW p \in Proposal, ledger \in Nat
  PROVE  /\ p.status = "Active" /\ ledger > p.end /\ ledger >= p.start => PhaseOf(p) = "Ended"
         /\ p.status = "Active" /\ ledger <= p.end => PhaseOf(p) \in {"Pending", "Active"}
         /\ p.status = "Active" /\ ledger <= p.end /\ ledger >= p.start =>
              PhaseOf(p) = "Active"
         /\ p.status = "Queued" /\ ledger < p.queue => PhaseOf(p) = "Queued"
         /\ p.status = "Queued" /\ ledger >= p.queue /\ DeadlineExists(p) =>
              PhaseOf(p) = IF PastDeadline(p) THEN "Expired" ELSE "ReadyToExecute"
<1>1. /\ p.start \in Nat /\ p.end \in Nat /\ p.queue \in Nat
      /\ GracePeriod \in Nat /\ MaxSequence \in Nat
  BY GovernorAssumption DEF Proposal, Sequence
<1>2. DeadlineExists(p) =>
        SaturatedSum(p.queue, GracePeriod, MaxSequence) = p.queue + GracePeriod
  BY <1>1 DEF DeadlineExists, SaturatedSum, Least
<1>3. p.status = "Active" /\ ledger > p.end /\ ledger >= p.start => PhaseOf(p) = "Ended"
  BY <1>1 DEF PhaseOf
<1>4. p.status = "Active" /\ ledger <= p.end => PhaseOf(p) \in {"Pending", "Active"}
  BY <1>1 DEF PhaseOf
<1>5. p.status = "Active" /\ ledger <= p.end /\ ledger >= p.start => PhaseOf(p) = "Active"
  BY <1>1 DEF PhaseOf
<1>6. p.status = "Queued" /\ ledger < p.queue => PhaseOf(p) = "Queued"
  BY <1>1 DEF PhaseOf
<1>7. p.status = "Queued" /\ ledger >= p.queue /\ DeadlineExists(p) =>
        PhaseOf(p) = IF PastDeadline(p) THEN "Expired" ELSE "ReadyToExecute"
  BY <1>1, <1>2 DEF PhaseOf, PastDeadline
<1>8. QED
  BY <1>3, <1>4, <1>5, <1>6, <1>7

(* A step that replaces the record of one proposal.                        *)
LEMMA ReplacedFollows ==
  ASSUME TypeOK, NEW other \in Ids, NEW q, proposals' = [proposals EXCEPT ![other] = q],
         Follows(proposals[other], q)
  PROVE  \A id \in Ids : Follows(proposals[id], proposals'[id])
<1>1. proposals'[other] = q /\ \A id \in Ids : id # other => proposals'[id] = proposals[id]
  BY Replaced DEF TypeOK, Ids
<1>2. QED
  BY <1>1, SameFollows

(* Each call that settles a proposal is made in the phase that announces   *)
(* it.                                                                     *)
LEMMA SettlingFollows ==
  ASSUME TypeOK, FramesOK, NEW other \in Ids,
         \/ FinalizeQueued(other) \/ FinalizeFailed(other) \/ MarkExpired(other)
         \/ \E a \in Account : Cancel(a, other) \/ Veto(a, other)
         \/ \E n \in 0 .. balance[Self], a \in Account : Execute(other, n, a)
  PROVE  \A id \in Ids : Follows(proposals[id], proposals'[id])
<1> DEFINE p == proposals[other]
<1>1. p \in Proposal /\ ledger \in Nat
  BY ProposalFields
<1>2. p.start <= p.end /\ p.end \in Nat /\ p.start \in Nat /\ p.queue \in Nat /\ GracePeriod \in Nat
  BY <1>1, ProposalFields, GovernorAssumption DEF FramesOK, FrameOK, Proposal, Sequence
<1>3. ASSUME NEW q, Settled(other, q), Follows(p, q)
      PROVE  \A id \in Ids : Follows(proposals[id], proposals'[id])
  BY <1>3, ReplacedFollows DEF Settled
<1>4. CASE FinalizeQueued(other)
  <2> DEFINE l == ledger + p.timelock
             q == [TakeDeposit(p) EXCEPT !.status = "Queued", !.queue = l]
  <2>1. Settled(other, q)
    BY <1>4, SettlingCalls
  <2> HIDE DEF l
  <2>2. Content(q) = Content(p) /\ q.status = "Queued"
    BY <1>1, QueuedContent
  <2>3. p.status = "Active" /\ ledger > p.end
    BY <1>4 DEF FinalizeQueued, Closable
  <2>4. PhaseOf(p) = "Ended"
    BY <1>1, <1>2, <2>3, Phases
  <2> HIDE DEF q
  <2>5. QED
    BY <1>3, <2>1, <2>2, <2>4, StatusFollows
<1>5. CASE FinalizeFailed(other)
  <2> DEFINE q == [TakeDeposit(p) EXCEPT !.status = "Failed"]
  <2>1. Settled(other, q)
    BY <1>5, SettlingCalls
  <2>2. Content(q) = Content(p) /\ q.status = "Failed"
    BY <1>1, SettledContent
  <2>3. p.status = "Active" /\ ledger > p.end
    BY <1>5 DEF FinalizeFailed, Closable
  <2>4. PhaseOf(p) = "Ended"
    BY <1>1, <1>2, <2>3, Phases
  <2> HIDE DEF q
  <2>5. QED
    BY <1>3, <2>1, <2>2, <2>4, StatusFollows
<1>6. CASE \E a \in Account : Cancel(a, other)
  <2> DEFINE q == [TakeDeposit(p) EXCEPT !.status = "Cancelled"]
  <2>1. Settled(other, q)
    BY <1>6, SettlingCalls
  <2>2. Content(q) = Content(p) /\ q.status = "Cancelled"
    BY <1>1, SettledContent
  <2>3. p.status = "Active" /\ ledger <= p.end
    BY <1>6 DEF Cancel, Cancellable
  <2>4. PhaseOf(p) \in {"Pending", "Active"}
    BY <1>1, <2>3, Phases
  <2> HIDE DEF q
  <2>5. QED
    BY <1>3, <2>1, <2>2, <2>4, StatusFollows
<1>7. CASE \E a \in Account : Veto(a, other)
  <2> DEFINE q == [p EXCEPT !.status = "Vetoed"]
  <2>1. Settled(other, q)
    BY <1>7, SettlingCalls
  <2>2. Content(q) = Content(p) /\ q.status = "Vetoed"
    BY <1>1, SettledContent
  <2>3. PhaseOf(p) = "Queued"
    BY <1>1, <1>7, Phases DEF Veto
  <2> HIDE DEF q
  <2>4. QED
    BY <1>3, <2>1, <2>2, <2>3, StatusFollows
<1>8. CASE \E n \in 0 .. balance[Self], a \in Account : Execute(other, n, a)
  <2> DEFINE q == [p EXCEPT !.status = "Executed"]
  <2>1. Settled(other, q)
    BY <1>8, SettlingCalls
  <2>2. Content(q) = Content(p) /\ q.status = "Executed"
    BY <1>1, SettledContent
  <2>3. p.status = "Queued" /\ ledger >= p.queue /\ DeadlineExists(p) /\ ~PastDeadline(p)
    BY <1>8 DEF Execute
  <2>4. PhaseOf(p) = "ReadyToExecute"
    BY <1>1, <2>3, Phases
  <2> HIDE DEF q
  <2>5. QED
    BY <1>3, <2>1, <2>2, <2>4, StatusFollows
<1>9. CASE MarkExpired(other)
  <2> DEFINE q == [p EXCEPT !.status = "Expired"]
  <2>1. Settled(other, q)
    BY <1>9, SettlingCalls
  <2>2. Content(q) = Content(p) /\ q.status = "Expired"
    BY <1>1, SettledContent
  <2>3. p.status = "Queued" /\ DeadlineExists(p) /\ PastDeadline(p)
    BY <1>9 DEF MarkExpired, Expirable
  <2>4. ledger >= p.queue
    BY <1>1, <1>2, <2>3 DEF PastDeadline
  <2>5. PhaseOf(p) = "Expired"
    BY <1>1, <2>3, <2>4, Phases
  <2> HIDE DEF q
  <2>6. QED
    BY <1>3, <2>1, <2>2, <2>5, StatusFollows
<1>10. QED
  BY <1>4, <1>5, <1>6, <1>7, <1>8, <1>9

(* So are votes, and the attaching of actions.                             *)
LEMMA WritingFollows ==
  ASSUME TypeOK, FramesOK, NEW other \in Ids,
         \/ \E a \in Account, s \in Support : Vote(a, other, s)
         \/ \E t \in Target : SetProposalAction(other, t)
  PROVE  \A id \in Ids : Follows(proposals[id], proposals'[id])
<1> DEFINE p == proposals[other]
<1>1. p \in Proposal /\ ledger \in Nat
  BY ProposalFields
<1>2. ASSUME NEW a \in Account, NEW s \in Support, Vote(a, other, s)
      PROVE  \A id \in Ids : Follows(proposals[id], proposals'[id])
  <2> DEFINE q == [p EXCEPT !.votes = TalliesAfter(p, a, s),
                            !.conviction = ConvictionAfter(p, a, s), !.receipts[a] = s]
  <2>1. proposals' = [proposals EXCEPT ![other] = q]
    BY <1>2, ProposalFields DEF Vote, VoteOn, Proposal, TypeOK, Ids
  <2>2. p.status = "Active" /\ ledger <= p.end /\ ledger >= p.start
    BY <1>2 DEF Vote, VoteOn
  <2>3. PhaseOf(p) = "Active"
    BY <1>1, <2>2, Phases
  <2>4. q.status = p.status /\ q.actions = p.actions
    BY <1>1 DEF Proposal
  <2> HIDE DEF q
  <2>5. Follows(p, q)
    BY <2>2, <2>3, <2>4 DEF Follows
  <2>6. QED
    BY <2>1, <2>5, ReplacedFollows
<1>3. ASSUME NEW t \in Target, SetProposalAction(other, t)
      PROVE  \A id \in Ids : Follows(proposals[id], proposals'[id])
  <2> DEFINE q == [p EXCEPT !.actions = Append(p.actions, t)]
  <2>1. proposals' = [proposals EXCEPT ![other] = q]
    BY <1>3 DEF SetProposalAction
  <2>2. p.status = "Active" /\ ledger <= p.end
    BY <1>3 DEF SetProposalAction
  <2>3. PhaseOf(p) \in {"Pending", "Active"}
    BY <1>1, <2>2, Phases
  <2>4. /\ q.status = p.status /\ q.votes = p.votes /\ q.conviction = p.conviction
        /\ q.receipts = p.receipts
    BY <1>1 DEF Proposal
  <2> HIDE DEF q
  <2>5. Follows(p, q)
    BY <2>2, <2>3, <2>4 DEF Follows
  <2>6. QED
    BY <2>1, <2>5, ReplacedFollows
<1>4. QED
  BY <1>2, <1>3

(* Whatever a call does to a proposal, the phase get_proposal_phase gives  *)
(* in the ledger of the call announced it, for any periods.  Finalize      *)
(* succeeds on "Ended" proposals only, a veto on "Queued" ones, execute on *)
(* "ReadyToExecute" and mark_expired on "Expired" ones; a vote is counted, *)
(* and replaced, in "Active" only, and nobody attaches an action to a      *)
(* proposal after its window.  (That the announced call can be made is     *)
(* PhaseMirrorsChecks.)                                                    *)
THEOREM CallsAreAnnounced == Spec => CallsFollowPhases
<1> DEFINE All == \A id \in Ids : Follows(proposals[id], proposals'[id])
<1>1. TypeOK /\ FramesOK /\ [Next]_vars => [All]_vars
  <2> SUFFICES ASSUME TypeOK, FramesOK, [Next]_vars PROVE All
    OBVIOUS
  <2>1. ASSUME NEW a \in Account, NEW sponsors \in Sponsorships, NEW kind \in Kinds,
               CreateProposal(a, sponsors, kind)
        PROVE  All
    <3> DEFINE q == NewProposal(a, sponsors, kind)
    <3>1. proposals' = Append(proposals, q)
      BY <2>1 DEF CreateProposal
    <3> HIDE DEF q
    <3>2. \A id \in Ids : proposals'[id] = proposals[id]
      BY <3>1 DEF TypeOK, Ids
    <3>3. QED
      BY <3>2, SameFollows
  <2>2. CASE CloseLedger
    <3>1. ASSUME NEW id \in Ids
          PROVE  Content(proposals'[id]) = Content(proposals[id])
                 /\ proposals'[id].status = proposals[id].status
      <4>1. \/ proposals'[id] = proposals[id]
            \/ \E w \in Weights : proposals'[id] = [proposals[id] EXCEPT !.weights = w]
        BY <2>2 DEF CloseLedger
      <4>2. QED
        BY <4>1, ProposalFields DEF Content, Proposal
    <3>2. QED
      BY <3>1, SameFollows
  <2>3. CASE UNCHANGED proposals
    BY <2>3, SameFollows
  <2>4. Administering \/ Trading \/ UNCHANGED vars => UNCHANGED proposals
    BY AdministeringType, TradingType DEF vars
  <2>5. QED
    BY <2>1, <2>2, <2>3, <2>4, SettlingFollows, WritingFollows
       DEF Next, Proposing, Deciding, Resolving, Finalize
<1>2. QED
  BY <1>1, GovernorTypeOK, FramesHold, PTL DEF Spec, CallsFollowPhases
(***************************************************************************)
(* Proposals no call can move any more: the unchecked and the checked sums *)
(* with the ledger sequence number, at the end of its range.               *)
(***************************************************************************)

(* execute is due, but queue_ledger + execution_grace_period leaves u32.   *)
Stranded(p) == p.status = "Queued" /\ ledger >= p.queue /\ ~DeadlineExists(p)

(* The vote is closed and carried, but now + timelock leaves u32.          *)
Undecidable(p) ==
  p.status = "Active" /\ ledger > p.end /\ Passes(p) /\ ledger + p.timelock > MaxSequence

(* A step that replaces the record of another proposal, if any.            *)
Elsewhere(id) ==
  ledger' = ledger /\ \E x \in Ids \ {id} : \E q : proposals' = [proposals EXCEPT ![x] = q]

(* No call settles a stranded or an undecidable proposal, and none changes *)
(* what makes it one.                                                      *)
LEMMA StuckStep ==
  ASSUME TypeOK, FramesOK, [Next]_vars, NEW id \in Ids,
         Stranded(proposals[id]) \/ Undecidable(proposals[id])
  PROVE  /\ Core(proposals'[id]) = Core(proposals[id])
         /\ Uncounted(id)
         /\ ledger' \in {ledger, ledger + 1}
<1> DEFINE p == proposals[id]
<1>1. p \in Proposal /\ ledger \in Nat
  BY ProposalFields
<1>2. /\ p.end \in Nat /\ p.queue \in Nat /\ p.timelock \in Nat
      /\ p.status = "Active" => ledger > p.end
      /\ p.status = "Queued" => ledger >= p.queue
  BY <1>1, GovernorAssumption DEF Proposal, Sequence, Stranded, Undecidable
<1>3. p.status \in {"Active", "Queued"}
  BY DEF Stranded, Undecidable
<1>4. CASE Elsewhere(id)
  <2>1. proposals'[id] = p /\ ledger' = ledger
    BY <1>4, Replaced DEF Elsewhere, TypeOK, Ids
  <2>2. QED
    BY <2>1 DEF Core, Uncounted
<1>5. ASSUME NEW other \in Ids,
             \/ FinalizeQueued(other) \/ FinalizeFailed(other) \/ MarkExpired(other)
             \/ \E a \in Account : Cancel(a, other) \/ Veto(a, other)
             \/ \E n \in 0 .. balance[Self], a \in Account : Execute(other, n, a)
      PROVE  Elsewhere(id)
  <2>1. ledger' = ledger /\ \E q : proposals' = [proposals EXCEPT ![other] = q]
    BY <1>5, SettlingCalls DEF Settled
  <2>2. ASSUME other = id PROVE FALSE
    <3>1. ASSUME FinalizeQueued(id) PROVE FALSE
      <4>1. p.status = "Active" /\ ledger + p.timelock <= MaxSequence
        BY <3>1 DEF FinalizeQueued, Closable
      <4>2. ledger + p.timelock > MaxSequence
        BY <4>1 DEF Stranded, Undecidable
      <4>3. QED
        BY <1>1, <1>2, <4>1, <4>2, Ledgers
    <3>2. ASSUME FinalizeFailed(id) PROVE FALSE
      BY <3>2 DEF FinalizeFailed, Closable, Stranded, Undecidable
    <3>3. ASSUME MarkExpired(id) PROVE FALSE
      BY <3>3 DEF MarkExpired, Expirable, Stranded, Undecidable
    <3>4. ASSUME NEW a \in Account, Cancel(a, id) PROVE FALSE
      BY <1>1, <1>2, <3>4 DEF Cancel, Cancellable
    <3>5. ASSUME NEW a \in Account, Veto(a, id) PROVE FALSE
      BY <1>1, <1>2, <3>5 DEF Veto
    <3>6. ASSUME NEW n \in 0 .. balance[Self], NEW a \in Account, Execute(id, n, a) PROVE FALSE
      BY <3>6 DEF Execute, Stranded, Undecidable
    <3>7. QED
      BY <1>5, <2>2, <3>1, <3>2, <3>3, <3>4, <3>5, <3>6
  <2>3. QED
    BY <2>1, <2>2 DEF Elsewhere
<1>6. ASSUME NEW a \in Account, NEW other \in Ids, NEW s \in Support, Vote(a, other, s)
      PROVE  Elsewhere(id)
  <2>1. p.status = "Active" => other # id
    BY <1>1, <1>2, <1>6 DEF Vote, VoteOn
  <2>2. p.status = "Queued" => other # id
    BY <1>6 DEF Vote, VoteOn
  <2>3. ledger' = ledger /\ \E q : proposals' = [proposals EXCEPT ![other] = q]
    BY <1>6, ProposalFields DEF Vote, VoteOn, Proposal, TypeOK, Ids
  <2>4. QED
    BY <1>3, <2>1, <2>2, <2>3 DEF Elsewhere
<1>7. ASSUME NEW other \in Ids, NEW t \in Target, SetProposalAction(other, t)
      PROVE  Elsewhere(id)
  <2>1. ledger' = ledger /\ \E q : proposals' = [proposals EXCEPT ![other] = q]
    BY <1>7 DEF SetProposalAction
  <2>2. other # id
    BY <1>1, <1>2, <1>3, <1>7 DEF SetProposalAction
  <2>3. QED
    BY <2>1, <2>2 DEF Elsewhere
<1>8. ASSUME NEW a \in Account, NEW sponsors \in Sponsorships, NEW kind \in Kinds,
             CreateProposal(a, sponsors, kind)
      PROVE  proposals'[id] = p /\ ledger' = ledger
  BY <1>8 DEF CreateProposal, TypeOK, Ids
<1>9. Administering \/ Trading \/ UNCHANGED vars => proposals' = proposals /\ ledger' = ledger
  BY AdministeringType, TradingType DEF vars
<1>10. CASE CloseLedger
  BY <1>10, LedgerCloses, OtherCounts DEF Steady
<1>11. CASE proposals'[id] = p /\ ledger' = ledger
  BY <1>11 DEF Core, Uncounted
<1>12. QED
  BY <1>4, <1>5, <1>6, <1>7, <1>8, <1>9, <1>10, <1>11
     DEF Next, Proposing, Deciding, Resolving, Finalize

(* What is stranded or undecidable stays so: the sums only grow.           *)
LEMMA StaysStuck ==
  ASSUME TypeOK, NEW id \in Ids,
         Core(proposals'[id]) = Core(proposals[id]), Uncounted(id),
         ledger' \in {ledger, ledger + 1}
  PROVE  /\ Stranded(proposals[id]) => Stranded(proposals[id])'
         /\ Undecidable(proposals[id]) => Undecidable(proposals[id])'
<1> DEFINE p == proposals[id]
           q == proposals'[id]
<1>1. /\ q.status = p.status /\ q.end = p.end /\ q.queue = p.queue /\ q.timelock = p.timelock
      /\ Passes(q) <=> Passes(p)
  BY SameResult DEF Core, Uncounted
<1>2. /\ ledger \in Nat /\ p.end \in Nat /\ p.queue \in Nat /\ p.timelock \in Nat
      /\ MaxSequence \in Nat
  BY ProposalFields, GovernorAssumption DEF Proposal, Sequence
<1>3. Stranded(p) => Stranded(p)'
  BY <1>1, <1>2 DEF Stranded, DeadlineExists
<1>4. Passes(p)' <=> Passes(q)
  BY DEF Passes
<1>5. Undecidable(p) => Undecidable(p)'
  <2> HIDE DEF p, q
  <2>1. SUFFICES ASSUME Undecidable(p) PROVE Undecidable(p)'
    OBVIOUS
  <2> USE DEF p, q
  <2>2. q.status = "Active" /\ ledger' > q.end /\ ledger' + q.timelock > MaxSequence
    BY <1>1, <1>2, <2>1 DEF Undecidable
  <2>3. Passes(p)'
    BY <1>1, <1>4, <2>1 DEF Undecidable
  <2>4. QED
    BY <2>2, <2>3 DEF Undecidable
<1>6. QED
  BY <1>3, <1>5

(* A queued proposal whose execution deadline is no ledger sequence number *)
(* stays queued for ever once its timelock is over: execute and            *)
(* mark_expired trap on the sum, the veto is too late, and the phase       *)
(* reported for it is "ReadyToExecute" all the while (lib.rs, execute and  *)
(* phase_of, which saturates where execute does not).                      *)
THEOREM StrandedForEver ==
  Spec => [](\A id \in Ids : Stranded(proposals[id]) =>
                PhaseOf(proposals[id]) = "ReadyToExecute")
          /\ [][\A id \in Ids : Stranded(proposals[id]) => Stranded(proposals[id])']_vars
<1> DEFINE Reported == \A id \in Ids : Stranded(proposals[id]) =>
                          PhaseOf(proposals[id]) = "ReadyToExecute"
           Stay == \A id \in Ids : Stranded(proposals[id]) => Stranded(proposals[id])'
<1>1. TypeOK => Reported
  <2> SUFFICES ASSUME TypeOK, NEW id \in Ids, Stranded(proposals[id])
               PROVE  PhaseOf(proposals[id]) = "ReadyToExecute"
    OBVIOUS
  <2> DEFINE p == proposals[id]
  <2>1. /\ ledger <= MaxSequence /\ ledger \in Nat /\ p.queue \in Nat
        /\ GracePeriod \in Nat /\ MaxSequence \in Nat
    <3>1. p.queue \in Nat /\ ledger \in Nat
      BY ProposalFields
    <3>2. ledger \in 0 .. MaxSequence
      BY DEF TypeOK, Sequence
    <3>3. QED
      BY <3>1, <3>2, GovernorAssumption
  <2>2. /\ p.status = "Queued" /\ ledger >= p.queue
        /\ p.queue + GracePeriod > MaxSequence
    BY <2>1 DEF Stranded, DeadlineExists
  <2>3. SaturatedSum(p.queue, GracePeriod, MaxSequence) = MaxSequence
    BY <2>1, <2>2 DEF SaturatedSum, Least
  <2>4. QED
    BY <2>1, <2>2, <2>3 DEF PhaseOf
<1>2. TypeOK /\ FramesOK /\ [Next]_vars => [Stay]_vars
  <2> SUFFICES ASSUME TypeOK, FramesOK, [Next]_vars, NEW id \in Ids, Stranded(proposals[id])
               PROVE  Stranded(proposals[id])'
    OBVIOUS
  <2>1. QED
    BY StuckStep, StaysStuck
<1>3. QED
  BY <1>1, <1>2, GovernorTypeOK, FramesHold, PTL DEF Spec

(* A carried proposal that was not finalized while its timelock still fit  *)
(* into the ledger sequence numbers stays Active for ever, and the         *)
(* contract keeps its deposit: finalize answers Overflow on every later    *)
(* call, and the window of cancel is closed.                               *)
THEOREM UndecidableForEver ==
  Spec => [][\A id \in Ids : Undecidable(proposals[id]) =>
               /\ Undecidable(proposals[id])'
               /\ proposals'[id].deposit = proposals[id].deposit]_vars
<1> DEFINE Stay == \A id \in Ids : Undecidable(proposals[id]) =>
                     /\ Undecidable(proposals[id])'
                     /\ proposals'[id].deposit = proposals[id].deposit
<1>1. TypeOK /\ FramesOK /\ [Next]_vars => [Stay]_vars
  <2> SUFFICES ASSUME TypeOK, FramesOK, [Next]_vars, NEW id \in Ids, Undecidable(proposals[id])
               PROVE  /\ Undecidable(proposals[id])'
                      /\ proposals'[id].deposit = proposals[id].deposit
    OBVIOUS
  <2>1. Core(proposals'[id]) = Core(proposals[id]) /\ Undecidable(proposals[id])'
    BY StuckStep, StaysStuck
  <2>2. QED
    BY <2>1 DEF Core
<1>2. QED
  BY <1>1, GovernorTypeOK, FramesHold, PTL DEF Spec
(***************************************************************************)
(* The sum of the tallies, which finalize checks.                          *)
(***************************************************************************)

(* A step opens a proposal without votes, votes on one in its window, or   *)
(* leaves its tallies alone.                                               *)
LEMMA TallyStep ==
  ASSUME TypeOK, [Next]_vars, NEW id \in DOMAIN proposals'
  PROVE  \/ id \in Ids /\ proposals'[id].votes = proposals[id].votes
         \/ /\ id \in Ids /\ ledger' = ledger
            /\ ledger \in proposals[id].start .. proposals[id].end
            /\ proposals'[id].snapshot = proposals[id].snapshot
         \/ TotalVotes(proposals'[id]) = 0
<1>1. ASSUME NEW a \in Account, NEW sponsors \in Sponsorships, NEW kind \in Kinds,
             CreateProposal(a, sponsors, kind)
      PROVE  \/ id \in Ids /\ proposals'[id].votes = proposals[id].votes
             \/ TotalVotes(proposals'[id]) = 0
  <2> DEFINE q == NewProposal(a, sponsors, kind)
  <2>1. proposals' = Append(proposals, q)
    BY <1>1 DEF CreateProposal
  <2>2. TotalVotes(q) = 0
    <3>1. q.votes = [s \in Support |-> 0]
      BY DEF NewProposal
    <3> HIDE DEF q
    <3>2. QED
      BY <3>1 DEF TotalVotes, Support
  <2> HIDE DEF q
  <2>3. proposals'[id] = q \/ (id \in Ids /\ proposals'[id] = proposals[id])
    BY <2>1 DEF TypeOK, Ids
  <2>4. QED
    BY <2>2, <2>3
<1>2. ASSUME NEW a \in Account, NEW other \in Ids, NEW s \in Support, Vote(a, other, s)
      PROVE  \/ id \in Ids /\ proposals'[id].votes = proposals[id].votes
             \/ /\ id \in Ids /\ ledger' = ledger
                /\ ledger \in proposals[id].start .. proposals[id].end
                /\ proposals'[id].snapshot = proposals[id].snapshot
  <2> DEFINE p == proposals[other]
             q == [p EXCEPT !.votes = TalliesAfter(p, a, s),
                            !.conviction = ConvictionAfter(p, a, s), !.receipts[a] = s]
  <2>1. proposals' = [proposals EXCEPT ![other] = q] /\ ledger' = ledger
    BY <1>2, ProposalFields DEF Vote, VoteOn, Proposal, TypeOK, Ids
  <2>2. ledger <= p.end /\ ledger >= p.start /\ p.start \in Nat /\ p.end \in Nat /\ ledger \in Nat
    <3>1. p \in Proposal /\ p.end \in Nat /\ ledger \in Nat
      BY ProposalFields
    <3>2. p.start \in Nat
      BY <3>1, GovernorAssumption DEF Proposal, Sequence
    <3>3. QED
      BY <1>2, <3>1, <3>2 DEF Vote, VoteOn
  <2>3. q.snapshot = p.snapshot
    BY ProposalFields DEF Proposal
  <2> HIDE DEF q
  <2>4. id \in Ids /\ proposals'[id] = IF id = other THEN q ELSE proposals[id]
    BY <2>1, Replaced DEF TypeOK, Ids
  <2>5. QED
    BY <2>1, <2>2, <2>3, <2>4
<1>3. ASSUME NEW other \in Ids,
             \/ FinalizeQueued(other) \/ FinalizeFailed(other) \/ MarkExpired(other)
             \/ \E a \in Account : Cancel(a, other) \/ Veto(a, other)
             \/ \E n \in 0 .. balance[Self], a \in Account : Execute(other, n, a)
      PROVE  id \in Ids /\ proposals'[id].votes = proposals[id].votes
  BY <1>3, SettlingCounts DEF Steady, Uncounted, Count, Ids
<1>4. ASSUME NEW other \in Ids, NEW t \in Target, SetProposalAction(other, t)
      PROVE  id \in Ids /\ proposals'[id].votes = proposals[id].votes
  <2>1. id \in Ids
    BY <1>4 DEF SetProposalAction, TypeOK, Ids
  <2>2. QED
    BY <1>4, <2>1, OtherCounts DEF Steady, Uncounted, Count
<1>5. CASE Administering \/ Trading \/ UNCHANGED vars
  BY <1>5, AdministeringType, TradingType DEF vars, Ids
<1>6. CASE CloseLedger
  <2>1. id \in Ids
    BY <1>6, LedgerCloses DEF Ids
  <2>2. QED
    BY <1>6, <2>1, OtherCounts DEF Steady, Uncounted, Count
<1>7. QED
  BY <1>1, <1>2, <1>3, <1>4, <1>5, <1>6 DEF Next, Proposing, Deciding, Resolving, Finalize
==============================================================================
