# TLA+ models of Quorum

Quorum is on-chain governance for Soroban: a vote-carrying token contract, a
governance contract that reads its snapshots, a TypeScript and a Python SDK, and
a web front end. This directory holds TLA+ models of the two contracts, of the
TypeScript SDK, of what keeps state in the front end and of the scripts that
drive the rest; the TLC configurations that check them on small instances; and
proofs, checked by TLAPS, of the results that matter most for every value of the
parameters.

Paths below are relative to the repository root (`src/` in `PROJECT.json`).
`PROJECT.json` maps every definition to the lines it models, lists the runs with
their properties, one mutant of the code per property, the hazards and the
theorems.

    tlc -workers 2 -config MCGovernorFunds.cfg MCGovernor    # any MC*.cfg
    tlapm Governor_proofs.tla                                # any *_proofs.tla

## 1. The system

### Parts

| Part | Where | State | Operations |
|---|---|---|---|
| Token contract | `contracts/token/src/lib.rs` | balances, supply, allowances, delegates, stake locks; checkpoint histories of balances, votes, supply and locks; admin and pending admin | transfer, transfer_from, burn, burn_from, mint, approve, delegate, stake, unstake, admin handover, snapshot views |
| Governance contract | `contracts/governance/src/lib.rs` | config (roles, pause, deposit, cooldown), proposals with votes, receipts, co-sponsors, conviction tally, deposit and actions; allowlist; counters; last proposal per proposer | create (alone, co-sponsored, conviction), vote, set_proposal_action, finalize, cancel, veto, execute, mark_expired, setters, pause, admin handover |
| TypeScript SDK | `sdk/src` | a read cache, a batch of reads being collected, the flag that a provider takes batches, transactions in flight | cached and batched reads with retry, listings, waitForProposalStatus, build, sign, submit and poll, event decoding |
| Python SDK | `sdk/python/src` | none of its own | synchronous reads and submits |
| Front end | `frontend` | the polled proposal of a page; notifications and drafts in local storage; wallet connection and account; settings read at start | refresh, visit, dismiss, edit, discard, submit, connect, switch account, preview |
| Service worker | `frontend/public/sw.js` | page caches, one per version | install, activate, fetch |
| Scripts | `scripts`, `sdk/bench`, `metrics.js`, `contracts/fuzz` | proposals on a demo deployment; a pool of calls | seeding, benchmark, deployment, reports, test drivers |

### How they interact

- The governor calls the token: `balance_of` of proposer and co-sponsors when a
  proposal is opened, `get_past_total_supply` for the quorum,
  `get_past_votes` for a voter's weight at the snapshot, `transfer` and
  `burn` for deposits. A passed proposal's actions call any allowlisted
  contract as the governor.
- The token never calls the governor. What protects a vote is that the token's
  answers about a *closed* ledger never change: the governor records a snapshot
  ledger, opens voting in the next one, and reads weights there for ever after.
- Neither contract runs by itself. Time is the ledger sequence number. Anyone
  may call `finalize` and `mark_expired`; proposer, guardian and admin hold the
  other keys.
- SDK and front end only read the contracts and submit calls. They see them
  through RPC: late, possibly stale, and with submissions that may time out
  although they were accepted.

### What is hard here, and what makes each part correct

- **Histories.** One entry per ledger, pruned on every write, read by a binary
  search that is inclusive for balances and strict for locks. Correct when the
  live value is the newest entry, when no call changes an answer about a closed
  ledger of the retention window, and when the search ends on the last entry at
  (before) the ledger asked for.
- **Votes.** Every balance change moves the delegatee's votes too; several changes
  fall in one ledger. Correct when each delegate's votes are the balances
  delegated to it and all votes add up to the supply, at every ledger of the window.
- **Stakes.** Locked tokens must not leave by any of four spending paths; a boost
  must be bounded by what was held and settled before its snapshot.
- **Allowances.** They lapse, are drawn in parts and are replaced.
- **Voting.** Choices may change until the close. Correct when tallies are the
  recorded choices and the outcome is theirs, whenever finalize is called.
  Conviction tallies decay with the ledgers, lazily.
- **Time.** Voting window, timelock and grace period meet at off-by-one boundaries,
  with pause, veto, cancellation and allowlist changes racing execution.
- **Deposits.** They are held in one balance for all open proposals while the
  setting changes. Correct when each moves once, whole, and can always be paid.
- **Progress.** No proposal may stay Active or Queued for ever just because nobody
  with a role acts.
- **Answers over a network.** Requests overlap, come back out of order, time out
  although they were taken, or are answered by a provider that treats batches as it likes.
  Correct when a read settles once with its own answer, a cached read never
  returns what was given up before it, a page in view catches up, and what a caller is told
  of a write stays true.
- **State kept outside the process.** Notifications, drafts and page caches are shared by
  tabs, versions and restarts. Correct when nothing is recorded as seen without
  being reported, what was typed is kept, and a page offline is answered.

The `hazards` of `PROJECT.json` give each of these its line and its properties,
and name those no property covers yet.

## 2. The modules

| Module | Models |
|---|---|
| `Checkpoints` | the history operators of the token (`record`, pruning, `value_at`, `lock_before`, `lock_boost`), without state |
| `CheckpointSearch` | the loop of the binary searches, one probe per step; shown to compute `Checkpoints!LastUpTo` |
| `QuorumToken` | the token contract, one action per call |
| `ProposalLifecycle` | abstract: what the governor promises of a proposal's status over time |
| `Governor` | the governance contract, one action per call; implements `ProposalLifecycle` |
| `QuorumSystem` | the two contracts deployed together: `QuorumToken` with a governor among its accounts; implements `Governor` |
| `ExecuteDispatch` | `execute` taken apart: commit, invocations, targets that call back or fail, rollback |
| `ReadCache` | the TypeScript client's read cache, one action per callback |
| `SimulationBatcher` | batched reads: microtask flush, envelopes, fallback to single requests, retries |
| `WritePath` | a write: build, sign with Freighter, submit, poll, and the network that takes it |
| `ProposalReads` | listings (concurrent reads of a window) and `waitForProposalStatus` |
| `EventFeed` | `decodeEvents` and a consumer that pages through the log and restarts |
| `LiveView` | a proposal's page: overlapping refreshes, visibility, the API route |
| `Notifications` | notifications of status changes, several tabs over one storage |
| `Drafts` | the create page's draft: debounced saves, templates, reload, submit |
| `WalletSession` | the connected wallet and the voting power preview |
| `AppEnv` | the front end's settings, and the start that checks them |
| `ServiceWorker` | `sw.js` over versions of the site |
| `DemoSeed` | the seeding script against the contract and others who use it |
| `ListBench` | the benchmark of the proposal list and its limiter |
| `Clients` | the components around the contracts that theorems are about, side by side: `SimulationBatcher`, `ProposalReads`, `WritePath`, `ExecuteDispatch`, `ServiceWorker`, `Drafts`, `Notifications`, `EventFeed`, `ListBench`, `DemoSeed`, `WalletSession`, with the assumptions on their constants |
| `Sums_proofs`, `CheckpointSearch_proofs`, `QuorumToken_proofs`, `ProposalLifecycle_proofs`, `Governor_proofs`, `QuorumSystem_proofs`, `ReadCache_proofs`, `Clients_proofs` | the theorems and their lemmas |
| `MCCheckpointSearch`, `MCQuorumToken`, `MCGovernor`, `MCQuorumSystem`, `MCReadCache`, `MCClients` | small instances for TLC, one `.cfg` per question |

### Conventions

- **A call is one action.** The host keeps all of a call's writes or none of them, so
  every error return and trap is the negation of a guard, and everything the
  call writes is in one step. Where one call performs several balance writes
  (`transfer` debits, then credits), the three variables involved are
  threaded through operators as a record (`Books`), in the order of the code:
  the second write reads the first one's result.
- **Ledgers.** `CloseLedger` is the network moving on. Any number of calls, by
  anyone, may happen in one ledger.
- **Widths.** Cargo.toml turns `overflow-checks` on, so arithmetic that leaves its
  type traps: it is a guard against `MaxAmount` (i128) or `MaxSequence` (u32).
  Saturating arithmetic is written as such (`SaturatedSum`, `Cutoff`).
- **Inputs** come from constant sets (`Amounts`, `Durations`, `Sponsorships`, ...).
  A configuration opens the calls its question is about and gives the others
  an empty set of inputs; the theorems hold for all of them at once.
- **Mutants** stand before the definition they mutate and are marked as such. No
  specification uses them.

### Correspondence, token

`balance`, `checkpoints`, `voteCheckpoints`, `supplyCheckpoints`, `locks`,
`delegates`, `allowance`, `admin`, `pendingAdmin` are the storage keys of
`DataKey`. An absent vote history is `<< >>` and reads as the balance history, as
in `vote_checkpoints`; an absent delegate is the account itself. `granted` and
`drawn` are history variables: the last approval and what was drawn
since; no guard reads them. The `i128` product of the boost is split as
in `lock_boost`.

### Correspondence, governor

Everything stored under a proposal id is one record in the sequence `proposals`:
the `Proposal`, the receipts (`HasVoted`), co-sponsors, deposit, conviction
tally and actions. `Init` is the state right after `initialize`.
`config` holds the settings that change; the periods, the quorum and the
threshold are fixed at `initialize` and are constants.

The token appears as `balance` and `supply`, with `TokenTransfer`, `TokenBurn` and
`TokenMint` for its own users. A proposal's `weights` are what `get_past_votes`
answers at its snapshot: undetermined while that ledger is open, settled by
`CloseLedger` to one member of `Weights`, fixed from then on. That they stay fixed is
not assumed out of thin air: it is `PastIsSettled` and `BoostIsSettled` of
`QuorumToken`, and `QuorumSystem` is where the two are put together. Voting starts in
the ledger after the snapshot, so no vote reads an unsettled weight.

`Execute` is one step: `try_invoke` failing makes the whole call fail, so the
successful call is all there is to see. Its effect on the token is any transfer
from the governor if one of its actions targets the token, and nothing
otherwise. The effect of other targets is outside the contract.

### Correspondence, governor and token together

`QuorumSystem` extends `QuorumToken` and takes `Governor` as an instance, `Gov`, over the
token's own `balance`, `totalSupply` and `ledger`. `Self`, the governor, is one of the
token's accounts. One governance call is one step: `Governor`'s call and the token call it makes
(`Pay` is `transfer`, `Forfeit` is `burn`), with the guards of both. So a deposit that the token cannot
move, because it is staked or a checked sum of votes refuses, makes the whole call fail, as a trap does.

A vote is weighed by `Answered`: what `get_past_votes` returns at the moment of the vote, read from
histories that have been written and pruned since the snapshot. The `weights` that `Governor` keeps are a
history variable here: `Close` notes what the token answers as the snapshot ledger closes, and no
call reads the note. That reading live answers comes to the same is `ImplementsGovernor`.

The token's other users (`Use`) do everything the token offers, at any time. The governor itself signs for
nothing but the calls above: it has no code that stakes, delegates or approves, and of what the actions of a passed proposal
could make it do, only payments are modelled. At the start nobody has tokens: `Initialize` and `Mint` bring them.

### Correspondence, read cache

`read` has one await. What it does before it is one action (`ReadDirect`, `ReadHit` or
`ReadMiss`), what it does after it another (`Return`, `Fail`); `Answer` is the moment in
between at which the RPC node looks at the contracts. Everything else may happen
in between. An entry is identified by the number of the read that reserved it,
which stands for object identity and for the Map's insertion order alike.
`version` stands for the contracts' state; `floor` is a history variable, the
version at which a key's cached value was last given up.

### Correspondence, dispatch

`stack` holds the executions in progress, each with the state the host would restore (`before`). A target
that runs may make any call the contract takes, `execute` of the same or another proposal included, so
`AllOrNothing` does not lean on the host's ban on re-entry, nor does the code: it commits `Executed`
first. `effects` keeps, for each proposal, which of its actions ran and in what order. `Fail` undoes what the target and the execution wrote in one step, which is what returning an error
does. That nothing of a failed call is left is also what lets `Governor!Execute` be one step: `TransactionsAreCalls` proves that
a transaction leaves what calls of the contract made one after the other would have left.

### Correspondence, the other clients

Each module's header says what it takes for its environment. In all of them what
runs between two awaits, or in one event handler with the effects it
causes, is one action; a request is a record whose `at` says where it is; the
network, the node, the wallet, the browser and the operator are actions of their own,
marked external in `map`.

- **`SimulationBatcher`**: `pending` is the queue of `batch.ts`, `flushes` the
  `flush` calls that await an envelope, `single` the reads sent alone with their
  attempt, `settled` the outcomes in order. `Comes` answers an envelope in any way: whole, shuffled,
  short, with foreign ids, as an error, or as something that is no batch at all.
- **`WritePath`**: `txs` holds each built transaction with its fate on the ledger and the
  verdict its caller got; `call` is the write in progress. `Arrive` delivers the
  message of a request whether or not the request has timed out meanwhile; `Apply` takes a transaction
  until its time bound. Instants stand for the durations, of which only the order matters.
- **`ProposalReads`**: `listing` collects one answer per proposal of the window; `watch` polls.
  `lived` records every status a proposal had during the call.
- **`EventFeed`**: `log` is what the contracts emitted, `cursor` how far the
  consumer has read, `view` what it concluded, `saved` the copy it restarts from.
- **`LiveView`**: `fetches` are requests under way, each asked, then served, then answered or lost;
  `state` is what the page shows.
- **`Notifications`**: `storage` is the key tabs share, `tabs` each tab's own copy. `unwatched`
  marks statuses recorded while the proposer was not looking.
- **`Drafts`**: `disk` is the storage, `savedDraft` the hook's state, `form` the fields, `timer` the pending
  save; `last` is what the user last typed or took.
- **`WalletSession`**: the provider's state, and `read`, the preview's effect for one account and snapshot.
- **`AppEnv`**: `input` is `.env.local`, `env` what `getEnv` made of it, `failures` what each failed
  start named. The checksum of a contract ID is computed, on IDs of eight characters.
- **`ServiceWorker`**: `caches` by version, `fetches` and `copies` (the puts nothing waits for) under way.
- **`DemoSeed`**: `pc` is the script's next call; each call is simulated at one ledger and
  applied at a later one. The contract is modelled as the script uses it. `own` and `during`, which no call
  looks at, remember whose a proposal is and which creation of the script was under way when it was opened.
- **`ListBench`**: `queue` and `inFlight` are those of `createLimiter`, `settled` the calls whose place
  is not yet given on.

## 3. The runs

Every bound is a CONSTANT. `MaxLedger` bounds a behaviour: no ledger closes after
it. Behaviours therefore stop once nothing can be called any more,
which is why deadlock is not checked (`CHECK_DEADLOCK FALSE`); the contracts
never have to have a call enabled. Likewise a search stops when it has ended.

| Run | Question | Bounds, and why they are enough |
|---|---|---|
| `CheckpointSearch` | Do both searches end, and find the entry? (That they stay in bounds is a theorem.) | every increasing history of up to 5 entries on 7 ledgers, every target: every shape of two rounds of halving. The theorem covers all lengths. |
| `TokenDelegation` | Are votes the delegated balances, and do they add up? | 3 holders, so that a delegator, its old and its new delegate differ; 2 tokens; 2 ledgers, so that several changes share a ledger and one follows |
| `TokenHistories` | Is a closed ledger's answer settled, through pruning? Are boosts bounded and settled? (That stakes stay is a theorem.) | retention 1 and 4 ledgers, so entries go stale while they are the value in effect; locks of every length from too short to too long, released and renewed; admin handover |
| `GovernorVoting` | Are the tallies the choices, does the outcome follow from the choices and the conviction tally, and does it not drift? | 2 voters with weights 3/2, 1/1 or 0/2 (winning alone, tied, no power); both kinds; a window longer than the half-life, and finalize up to two half-lives late |
| `GovernorLifecycle` | Is every call a step of the abstract life? Are executions due, phases right? Is a proposal decided and resolved? | one proposal through window, timelock, grace period and beyond; each boundary ledger is reached; pause, roles, allowlist and action in any order |
| `GovernorFunds` | Are deposits held, and settled whole? (That their records go at most once is a theorem.) | 2 proposals overlapping, deposits 1 and 2 set between them, a cooldown switched on, lists with repeats and self-naming; holders trade, burn and get minted tokens throughout |
| `System` | Do the two contracts together do what `Governor` says? Does a token vote twice? Can every deposit be moved, both ways? Is no more drawn than approved? (That nothing is drawn after expiry is a theorem.) | a holder who proposes, votes, transfers, delegates, stakes, releases, approves and is paid back, and another who receives, is delegated to, draws and votes; amounts 1 and 2 of 2, so that all of it or a part is staked; one proposal with a deposit, so that the governor's balance is in the histories; retention 1 with votes cast in the last ledger of the window; approvals that lapse and are revoked; 488,690 states |
| `ReadCache` | Does a read ever return what was given up before it? Do reservations leak? | 3 reads, so that one is superseded, one supersedes it and one hits; 2 keys for 1 entry, so that reads in flight evict each other; TTLs 1 and 2 in 3 instants |
| `Clients` | Does each component of the clients keep what it promises? Are actions dispatched all or not at all? | see below |
| `GovernorStats`, `GovernorDepositSpent`, `SeedIds` | see Findings | smallest instance that shows it |

`GovernorLifecycle` follows one proposal because proposals meet only in the
allowlist, the roles and the token balance: `GovernorFunds` has two, and the
refinement theorem any number.

`TokenHistories` closes `delegate` (its state space with re-delegation does not
fit): vote histories are still written and pruned on every balance change, and
`TokenDelegation` moves them between accounts. With it open, pruning was
explored on two accounts and one token only.

`MCClients` puts thirteen small instances into one run. A behaviour is one component at
work, which `part` names; the others do nothing. Nothing is lost: they share no state,
and where one uses another the interface is an environment action of the user. Each has variables of its own;
those with liveness properties rest in states in which no fair action is enabled. All but `LiveView` and `AppEnv` are
instances of `Clients`, which the proofs are about. The run has 198,658 distinct states.

| Part | Properties | Bounds, and why they are enough |
|---|---|---|
| `SimulationBatcher` | `ReadsGetTheirOwn`, `EveryReadSettles` | 4 reads, envelopes of 2, 2 attempts: two chunks of one flush, a flush made during another, fallback in between |
| `WritePath` | `VerdictsAreTrue`, `SubmissionsEnd` | valid 1, request 1, poll 1, confirmation 4, the tightest that fit each other; 7 instants; one write, sent again; 2 attempts. The theorem covers any durations and any number of writes. |
| `LiveView` | `ViewCatchesUp` | 2 votes, 2 requests under way, so the older can answer last |
| `ProposalReads` | `AnswersWereTrue` | 2 proposals, created before or during a call; windows inside, across and beyond the count; patience 1 |
| `EventFeed` | `ReplayAgrees` | 2 proposals, a voter who changes sides, 5 events in pages of 2: cuts fall anywhere, a restart repeats pages |
| `WalletSession` | `PreviewIsOwn` | 2 accounts, 2 snapshots, 2 addresses remembered; each account has power at one snapshot only |
| `Notifications` | `BaselineIsReported` | 1 proposal with 3 stages, 2 wallets in 2 tabs, inbox of 2 |
| `Drafts` | `DraftIsKept` | 2 values per field, a template that no edit yields |
| `DemoSeed` | `SeededAsPromised` | window 2, timelock 1; grace 0 (no expiry) and 4 (met by a slow script); one stranger's proposal, before or during any call; 2 idle ledgers in all, outside waits |
| `AppEnv` | `LiveReadsTheDeployment`, `OneRunReportsAll` | IDs of 8 characters with every wrong, swapped, missing or doubled character, and blanks |
| `ListBench` | `RunsAreAsReported` | lists of 3 and 5, pages of 1, 2 and 4 (shorter, uneven, longer than a list), pools 0, 2 and 3, 2 runs |
| `ServiceWorker` | `OfflineIsAnswered` | 2 pages, one of them in the shell, 2 versions, 2 fetches under way |
| `ExecuteDispatch` | `AllOrNothing` | 2 proposals with 2 actions and 1, sharing a target: each can run inside the other, and fail before or after it |

### Fairness

`FairSpec` of `Governor` assumes that ledgers keep closing, and that somebody keeps
calling `finalize` and `mark_expired` when they would succeed (weak fairness for
each, per proposal). The code justifies it by requiring no authorisation for
either call (governance/src/lib.rs:622, :1178): any keeper can make them. Nothing is assumed of proposers,
voters, guardian or admin, and a pause may last for ever. `ActiveIsDecided` is
stated for windows that close, and `QueuedIsResolved` for grace periods that end,
before `MaxLedger`, with deadlines inside the ledger width. `CheckpointSearch` only assumes that
the loop runs on.

For the clients: `SimulationBatcher` assumes that microtasks run and that every
attempt ends, which `withTimeout` sees to. `WritePath` assumes that the event loop runs and
the clock does not stop; nothing of the network or the wallet. `LiveView` assumes
that the interval fires, that requests end one way or the other, and, as strong
fairness, that reads do not fail for ever; without that last one no page could catch up.

### Findings

- **`GovernorStats`**: the doc of `get_governance_stats` says the counters are maintained
  by create, vote, finalize, execute, cancel and expire. `open_proposal`, `execute`, `cancel`
  and `veto` do not touch them, so `active` is zero with an open proposal, and
  `queued` keeps counting what was executed or vetoed.
- **`SeedIds`**: `createProposal` of the seeding script is said to return "The id of the new proposal."
  (scripts/seed-demo-proposals.mjs:610) and returns the count it read before the call, plus one. A proposal that another
  opens in between has that number; the script then votes on it and finalizes it. `IdsAreOfTheirCalls`, a part of
  `SeededAsPromised`, holds: nothing but such an overtaking proposal can be mistaken for the script's own.
- **`GovernorDepositSpent`**: the governor holds deposits and treasury in one balance. Once
  the token is allowlisted, a passed proposal can spend the deposits of open ones, and
  those proposals can then be neither finalized nor cancelled, because
  their deposit cannot be moved. `DepositsAreHeld` holds (run `GovernorFunds`) as long as the token
  is not allowlisted.

### Seen while modelling

What follows came up while the code was read and is not given a run. Where a model
depends on it, the model does what the code does.

*Contracts.* `execute` and `mark_expired` add `queue_ledger + execution_grace_period`
unchecked and trap when it leaves u32, while `phase_of` saturates and reports
ReadyToExecute; so `PhaseMirrorsChecks` is about deadlines inside the width. Such a proposal stays queued for ever
(`StrandedForEver`). A carried one whose timelock leaves u32 when it is finalized stays Active for ever, with its deposit
(`UndecidableForEver`). A choice on a conviction proposal that is changed keeps the support it gave; the docs do not say otherwise.
Every accepted vote, of the other side and an abstention too, writes the conviction tally at its own ledger, and the part of a half-life that
had passed is forgotten: support given one half-life before the close counts whole if somebody abstains in between. A test is named
`abstaining_leaves_the_conviction_tally_unchanged` (governance/src/test.rs:3592), but abstains on an empty tally.
The note at the checked sum of
`finalize` says that honest tallies cannot exceed the supply (governance/src/lib.rs:630-631); with the boosts of stakes they can,
up to twice of it (`TurnoutIsBounded`), so the sum is safe while the supply is within half of i128 (`TalliesCanBeAdded`).

*SDK.*
- `buildCreateProposal` passes three arguments, the contract's `create_proposal` takes
  four. The error names in `buildVote`'s doc are not the contract's, and the mirror of
  `TokenError` lacks codes 10 to 13.
- `decodeStatus` throws on `Vetoed` and `Expired`, so one such proposal makes a
  whole listing fail, and with it `/api/proposals` and the live refresh; this is the `Readable` in `ViewCatchesUp`.
- `decodeEvents` throws on a foreign contract's event with a known topic; it does not
  decode `proposal_vetoed`, and the contract emits no event on expiry. A consumer keeps
  those proposals queued, as `ReplayAgrees` says. The counting example in the header adds a changed vote
  twice.
- `waitForProposalStatus` can step over the status it waits for, and then times out.
- `RpcTimeoutError` of a request means that the outcome is unknown, while a confirmation timeout is
  final (`VerdictsHold`); both are the same class.
- `FreighterErrorCode.WalletError` is documented as any other failure of Freighter, but an unknown failure of
  connecting or signing gets the code of a refusal.

*Front end.*
- Discarding or submitting a draft does not clear the pending save. A draft with neither title nor description is
  wiped after a second. Submitting empties the form, so the message that follows has no title. The restore
  banner comes back after each autosave, and the preview tab bypasses the required description.
- Notifications are kept for proposers in live mode only; the baseline of statuses is shared by
  the wallets of a browser, and two tabs overwrite each other (`BaselineIsReported` says what survives).
- The status badge of a proposal's page is not live, though its counts are. `isStale` of the RPC
  health is false when it was never read, is computed only when something else renders, and the lag is always zero; so
  "the stale indicator will naturally show when no successful reads occur" (useRpcHealthCheck.ts:35) does not come true. The navbar passes its click event as a wallet id.
- A start that corrects the fixture flag to 0 can fail a second time, for the contract ID that
  is only then required. Another contract's valid ID passes.
- A late copy can recreate a cache the worker deleted, and an older response can overwrite a
  newer one; offline pages may be older than the newest seen.

*Scripts.*
- The seeding script cannot complete with a voting period of 1 or less; its vote may be simulated in the
  creation's own ledger and be refused; unfunded voters fail on an existing deployment.
- With a pool of 0 the benchmark waits for ever and the process exits silently. Its rpc mode always throws, because
  its placeholder contract ID fails the checksum, though docs/proposal-list-performance.md:46 says it runs. The largest
  response of the page-all strategy is overstated when the list is shorter than a page.

## 4. The proofs

| Module | Theorem | Says |
|---|---|---|
| `CheckpointSearch_proofs` | `SearchTypeOK` | no probe leaves the vector |
| | `SearchFindsLastEntry` | a finished search is at the entry `LastUpTo` describes |
| `QuorumToken_proofs` | `TokenTypeOK` | amounts and ledgers stay in their widths, in every history |
| | `SearchesAreSafe` | histories stay in order, one entry per ledger: what the searches rely on |
| | `LiveValuesAreRecorded` | balances and supply are the newest entries of their histories |
| | `SnapshotsAreFinal`, `BoostsAreFinal` | answers about closed ledgers never change in the window; boosts are settled one ledger earlier |
| | `WeightsStandWhileVoting` | a voting period shorter than the retention is covered to its last vote |
| | `StakesStay`, `BoostNeedsTokens` | no call moves staked tokens; no boost exceeds what was held |
| | `AllowancesAddUp`, `LapsedStaysUndrawn` | no more is drawn than approved, nothing after expiry |
| | `VotesAreTallied`, `DelegationsAreFollowed` | at every step, each account's votes are the balances delegated to it |
| | `TokensAreCountedOnce` | at every ledger kept, votes and balances add up to the supply |
| | `PastSuppliesAreSupplies` | if the supply has never passed a bound, no past supply is answered above it |
| | `VotesNeverRefuse` | the checked arithmetic of votes never refuses a call that the unstaked balance covers |
| `ProposalLifecycle_proofs` | `LifecycleEarned`, `LifecycleIsFinal` | the abstract life has no unearned status, and final statuses are final |
| `Governor_proofs` | `GovernorTypeOK` | type correctness, all widths included |
| | `GovernorImplementsLifecycle` | the contract implements the abstract life |
| | `GovernorStatusesAreEarned`, `GovernorFinalStatusIsFinal` | and so inherits both its guarantees |
| | `ExecutionsAreDue` | executions come unpaused, after the captured timelock, in the grace period, with every target allowed |
| | `ResultsAreFinal` | after the window, whether a proposal passes does not change |
| | `BallotsAreTallied` | each tally is the snapshot weight of the voters whose recorded choice it is |
| | `StatusFollowsCount`, `OutcomesFollowVotes` | decided proposals are those whose count decides so; by the voters' last choices on a standard proposal, on a conviction proposal by the quorum of the last choices and the support left at the close, which changed choices stay part of |
| | `DepositIsTakenOnce`, `DepositsAreSettled` | a deposit's record goes once, with the whole amount to the proposer or to the burn |
| | `DepositsStayHeld` | while no action can call the token, the governor has the tokens of all deposits on record |
| | `CallsAreAnnounced` | whatever a call does to a proposal, the phase reported in the ledger of the call announced it |
| | `StrandedForEver`, `UndecidableForEver` | what becomes of a proposal whose deadline or timelock leaves the ledger numbers: nothing, ever |
| `QuorumSystem_proofs` | `TokenIsItself`, `GovernorIsImplemented` | together, each contract is still a behaviour of its own module, so that all of the above holds of the pair |
| | `WeightsAreFixed`, `OpenVotesCanBeWeighed` | a vote is weighed by what the token answered at the close of the snapshot, and that ledger is kept while votes are open |
| | `BallotsAreBacked` | all choices on a proposal weigh no more than the supply and the boosts of its snapshot |
| | `DepositsAreMovable` | while no action can call the token, each deposit on record can be refunded and can be burned |
| | `TurnoutIsBounded`, `TalliesCanBeAdded` | all tallies of a vote are within twice the supply at its snapshot; their checked sum is safe up to half of i128 |
| | `ClosedVotesCanBeDecided` | a closed vote can be finalized, either way, unless its timelock leaves the ledger numbers |
| `ReadCache_proofs` | `CacheTypeOK`, `CachedReadsAreFresh`, `NoReservationIsLeft`, `CacheIsBounded` | types; no read returns an answer given up before it; a pending entry's read is in flight; the limit holds |
| `Clients_proofs` | `WriteTypeOK`, `VerdictsHold` | types; what the caller of a write was told stays true |
| | `ActionsRunTogether` | a proposal's actions have run all, in order and once, or not at all |
| | `TransactionsAreCalls` | executions that call each other and fail inside one another leave what atomic calls in sequence would have |
| | `OfflineNavigationsAreAnswered` | a navigation the worker takes is answered, online or not, through any updates |
| | `ReadsAreAnsweredApart` | a batched read settles once, with the answer to its own transaction or an error |
| | `ListingsWereTrue` | a listing has its whole window, with statuses held during the call; a watch returns for a status reached |
| | `DraftsAreKept` | once saved, what was typed last is in the form and in the storage |
| | `BaselinesAreReported` | a status recorded as seen is in its proposer's inbox, unless the inbox is full; notifications are unique and true |
| | `RestartsLoseNothing` | a consumer that has read all events, in any pages and with any restarts, knows votes and statuses |
| | `ReportsAreRight` | a benchmark run reads each proposal of its list once, in the calls it prints, with the pool as full as it may be |
| | `DemosAreSeeded` | the seeding script is never early, and at its end the four different proposals it goes by are in the four states; each was opened by the call that returned its number, or by another while that call was under way |
| | `PreviewsAreOwn` | the voting power shown is that of account and proposal; a preview that waits has its read under way |

**Searches.** `TypeOK` says where the indexes are, and is inductive because
the probe lies strictly below `high` (`MidBetween`). It says nothing of what they
point at: `Bracketed` (everything left of `low` counts for the target, nothing from `high`
on) is the strengthening, inductive because histories increase. At the end
`low = high`, and `Bracketed` is the definition of `LastUpTo`.

**Histories.** The first section of `QuorumToken_proofs` is about one history, whatever it holds. An answer
depends only on the last entry at (or before) a ledger. That this entry
exists follows from the cardinality of an initial segment (`InitialSegment`, in
`Sums_proofs`), where one would expect an induction. From there: a write in
the open ledger touches no entry before it, so it changes no answer about a closed
one; pruning keeps the newest entry that is already stale, so it changes no
answer from the cutoff on.

**Token.** The inductive invariant is `AccountsOK /\ LocksOK`: every history is
sane (ordered, typed, nothing from the future), balances and supply are its
newest values, and stakes are within balances. Each write operator (`SetVotes`,
`SetBalance`, `RecordLock`) gets a lemma saying that it keeps sanity and every settled answer; an action
composes two or three of them. `Sound` is what one step gives: all of that, and the
settled answers. For boosts, a history variable is not needed: a lock that gives a boost in
the open ledger is still in force (`HeldBack`), since it can be released or replaced only
once it gives none; being in force it is within the balance (`LockedStaysInBalance`), and when the ledger
closes, both sides are settled (`ClosedCovered`). `SpansOK` bounds a lock's length by `MaxLock`, which makes the
boost at most the amount.

**Sums.** `SumFunctionOnSet` is a fold, and a fold adds in an order of its choosing.
`Sums_proofs` shows what it adds up to without an induction: the subsets on which a claim fails form a family
of finite sets; by cardinality a family that is not empty has a minimal member (`MinimalMember`), and a
minimal member contradicts the fold's own equation, which takes one element away. From that: any element
can be taken out first (`SumWithout`), one element more adds its value (`SumWith`), equal functions have equal sums
(`SumSame`), one changed value changes the sum by the difference (`SumChanged`), and a term is at most its sum
(`SumOfNaturals`).

**Votes.** The inductive invariant is `Tallied`: in the open ledger every account's votes are the
balances of those who delegate to it, and votes and balances add up to the supply. A
third part, `OwnHistories`, is needed because an account without a vote history reads its balance as its votes:
whoever has delegated away must have a history, or a later receipt would count for both. Each
balance change moves the votes of one delegatee by the same amount, so every action is one or two
steps from one `Tallied` state to another (in between, a transfer has debited and not yet credited). `VotesAddUp` is about closed
ledgers too: closing keeps the open one's sums (`ClosedAddUp`), `Sound` keeps every answer. Since votes are
part of the supply, and the supply is in range, no addition or subtraction of votes can overflow:
`VotesNeverRefuse`. That `Account` is finite is assumed for sums to mean anything.

**Lifecycle.** `StatusEarned` is inductive on the typed state. `FinalIsFinal` needs no
more than one case per action.

**Governor.** `TypeOK` is inductive by itself; one lemma per record constructor
(`VotedType`, `QueuedType`, ...) keeps each action's step short. The refinement
maps a proposal to its status, window end and queue ledger. It needs
`TypeOK` and `TimelockCaptured` (every proposal carries the configured timelock): the step
where a proposal passes uses its captured timelock, the abstract step the
configured one. Veto, execution and expiry map to their namesakes, calls about
deposits, votes, roles and tokens to stutters. The abstract theorems are then
instantiated (`Promises`); nothing is proved twice. `ExecutionsAreDue` is an action property:
an execution happens at or after the `queue` ledger, and `StatusEarned` bounds that from below by the
window end and the timelock. `CallsAreAnnounced` compares each call's own checks with `phase_of`, call by call; of the state it
needs only that no window ends before it opens (`FramesOK`), since `phase_of` asks for the start first.

`StrandedForEver` and `UndecidableForEver` are about the ends of the ledger numbers. `Stranded` and `Undecidable` are states
that no later ledger leaves, because ledgers only grow and results do not drift (`SettledCount`), and that
every call either refuses or does not touch (`StuckStep`, `StaysStuck`).

Results are counts of a proposal's record at the ledger of its close. `SettledCount` says
that after the close the count no longer depends on the ledger, `QueuedCount` that queueing
keeps it, and `SettlingCounts`, `VotingCounts` and `OtherCounts` that no call touches it. `ResultsAreFinal` and
`DecidedByCount` rest on these. The count is that of the tallies; that the tallies are the voters' is
`BallotsAreTallied`. Its invariant (`BallotOK`) adds that voting opens one ledger after the snapshot and nobody has
voted before: so the step at which weights settle finds no vote, and every later vote moves
the one weight the sums are made of. `OutcomesFollowVotes` puts both together. For a conviction proposal it ties the
quorum to the last choices and the majority to the accumulated tally: that tally is no function of the last choices.

`DepositsAreHeld` compares one balance with a sum over proposals. It is inductive: a new
proposal adds to both, a settled one takes its amount from both, and only the governor's own calls take from its balance. Those are its deposits and its proposals' actions, hence
the hypothesis that the token is no possible target. Without it the
statement is false, which is the finding of `GovernorDepositSpent`.

**The two together.** The invariant, `SystemInv`, is made of the parts' invariants (`TokenOK`, `GovernorOK`), of the governor
having no stake, and of `WeightsAreOfTheSnapshot`, which ties a history of the one to a record of the other. It is
inductive because `Sound`, of the token's proofs, keeps every answer about a closed ledger of the window, and because an open vote's snapshot is in the window
(`OpenVotes`): its start is one ledger after the snapshot and its end `VotingPeriod` later. That is where the hypothesis
`VotingPeriod < Retention` of these theorems is used. The code does not enforce it: `initialize` does not know the token's
`CHECKPOINT_RETENTION`, whose comment (token/src/lib.rs:163) asks for it to be raised with the voting
period. From `OpenVotes`, a vote weighed by a live answer (`CastVote`) is the vote of `Governor`; every other governance
call is `Governor`'s own with a token call that moves balances as `Governor` says, and every
call of the token is one of `Governor`'s `TokenTransfer`, `TokenBurn`, `TokenMint` or a stutter. One more part of `Governor`'s
invariant had to be named for this (`FramesOK`): when a proposal's window opens and ends relative to its snapshot, how large its deposit
can be; with it, that no call moves a proposal's snapshot, window or weights (`Reframed`).

`BallotsAreBacked` compares the tallies with sums over accounts. By `BallotsAreTallied` each tally is a sum of weights over the voters of one choice;
these sets are disjoint, weights are votes and boosts at the snapshot (`WeightsAreFixed`), and by
`TokensAreCountedOnce` all votes there add up to the supply. `DepositsAreMovable` adds to `DepositsStayHeld` that nothing of the
governor's balance is staked and that votes never refuse (`VotesNeverRefuse`'s argument for one account).
`TurnoutIsBounded` turns the bound into one of the supply alone: each boost is within what its owner held at the snapshot
(`BoostNeedsTokens`), and these holdings add up to the supply there. Past supplies are supplies that were
(`PastSuppliesAreSupplies`), so a supply that stays within half of i128 leaves room for both (`TalliesCanBeAdded`); and then nothing in
`finalize` but the timelock's sum is left to refuse (`ClosedVotesCanBeDecided`).

**Read cache.** `ReadsAreFresh` is about finished reads and says nothing of the entries
a later hit is served from. `EntriesAreFresh` adds that the read behind each entry was made
after the key was last given up, and `AnswersFollowReads` and `FloorsArePast` that answers, reads and floors
are in that order. With `PendingIsInFlight` they are inductive. Every
removal of entries is covered by `WithoutShrinks` and `ReservedShrinks`: whatever eviction removes can only help.
`Bounded` needs more: that a full cache has an oldest entry to evict (`LeastElement`), and that one less and one more
are no more than before.

**Write path.** The invariant follows a transaction from build to verdict (`TxOK`) and a
call from step to step (`CallOK`). Its heart is `Looks`: what is found nowhere by a look made after the
time bound was not applied and never will be. That the last look of a call is
such a look is what `Durations` is for: time bound, request timeout and poll interval together are shorter
than the confirmation time. The defaults are 30, 15, 1 and 60 seconds.

**Dispatch.** That a proposal's actions have run all or not at all is a statement between calls; during a call
it is false. The invariant (`DispatchOK`) says what is true instead, with any number of executions on the stack:
the proposals of the executions in progress are `Executed` and have had exactly their first `next - 1` actions,
every other one all of them or none (`Accounted`). A failure goes back to the world an
execution started from, so `Nested` adds that this world was itself accounted for, with the executions further
down the stack, and that no two executions on the stack are of one proposal: the status is committed first, so no
target can execute a proposal that is being executed.

`TransactionsAreCalls` compares executions that invoke their actions one by one with atomic calls. `Runs` relates two
worlds if some number of atomic calls lead from one to the other: as the smallest relation closed under them, which
needs no recursion. What is in progress is not such a world, but would be one with the executions of the stack finished
(`Finished`): that is `SerialOK`. An action that returns does not change this world, a nested call is an atomic call of
it, and a failure goes back to the world of an outer execution, for which the same was true.

**Service worker.** `WorkerOK`: the active version and the one waiting have the offline page in the cache of their own
version. Late copies only add to a cache (`CacheGrows`), and activation deletes those of other versions than
the new one's, which is why it needs the part about `waiting`.

**Batched reads.** A read is in one place at most: waiting for a flush, in one envelope, sent alone, or settled
(`Placed`), with its own answer or the error. That needs envelopes to be disjoint and without
repetitions (`RunsOK`). Most of the work is in positions: what an envelope leaves at index i must be paired with
the read at index i, whatever has been retried, cut into chunks or dropped in between (`ChunkAndRest`, `OneRemoved`).

**Listings.** `lived` collects what proposals were during the call, so a status read during the call is in it
(`StatusSeen`). The invariant says that of every status got so far, and that the
ids asked for are the whole window of the count that was read, although proposals are created meanwhile.

**Drafts.** What was typed last is about to be saved by the timer, or else is both in the form and in the storage.

**Notifications.** The storage and every tab's copy satisfy the same invariant (`CopyOK`), because either may
overwrite the other: each status recorded as seen was recorded while the proposer was not looking, or is in
the inbox, or the inbox is full; and an inbox has no repetition and nothing that has not happened. The one step that does
something is `record` (`RecordKeeps`): it puts new notifications before the old ones and cuts
the list off, and what it cuts off is covered by the inbox being full.

**Events.** `decodeEvents` and the consumer are folds over a page. That a fold over a sequence goes from its first
element to its last is shown with a greatest element in place of an induction; then the consumer's record after a page is that of
the page's last event about each entry. The invariant (`FeedOK`): the ledger is what the whole log tells, and an entry of the
record is right unless an event ahead of the cursor sets it. A restart goes back with cursor and record together.

**Load test.** `RunsAreAsReported` is about finished runs. `BenchOK` counts what has been started: so many requests of the
job, in their order, each either settled or in flight, and the pool has as many as it may have, or nothing waits
(`FullPool`). That the requests of each strategy are for the whole list, without overlap, is arithmetic of pages (`RequestsCover`).

**Seeding.** `SeedOK` says what the script has made of each of its proposals as a function of the step it is at, whatever
others do: the status, the votes, and that proposals the script does not know by name are as new. The last part is why
the four states are reached even with a wrong id: whatever is opened between reading the count and the creation is new, so the number the script
takes is of a new proposal in any case (`CreatedStillHolds`). `OfTheirCalls` and `CountWas` say whose: the count and everything
opened since it was read belong to the call under way. Proposals end in the order of their numbers, so having waited for the last of three is having waited
for all (`NeverEarly`).

**Wallet.** A read that is listened to is for the account and the proposal on the page, and where the answer is not
there, it is under way (`SessionOK`); every change of either goes through the same effect (`RenderKeeps`).

Assumptions: those the modules state on their constants (`TokenAssumption`, with a finite `Account`, `GovernorAssumption`,
`LedgerAssumption`, `HistoriesAssumption`, `CacheAssumption`, `KeyAssumption`, and `SystemAssumption`, which says that the governor is one of the accounts, nobody else acts for it,
and deposits are amounts), those of `Clients` for its parts
(`BatcherAssumption`: a batch has at least one read, batch.ts:27; `ListingsAssumption`: offsets and limits are naturals,
client.ts:299 and :302; `WriteAssumption`: `Durations`; `DispatchAssumption`: actions are sequences of targets;
`WorkerAssumption`: there is a version; `InboxAssumption`: finitely many proposals, each with
one proposer; `FeedAssumption`, `BenchAssumption`, `SeedAssumption`: page sizes, list sizes and
periods are naturals, and the load test's lists are positive and not empty, bench.mjs:84-93), and
`HalvingAssumption`, that 2^n is a positive natural, which is arithmetic the provers have no theory
of. TLC evaluates all of them in the runs of their modules.

**Model-checked only.** Liveness, which no prover here can do. `PhaseMirrorsChecks`, which is stated with ENABLED.
`LiveReadsTheDeployment` and `OneRunReportsAll`: the checksum of `AppEnv` is computed bit by bit, with operators the provers have no
theory of. These are all the properties of the runs that no theorem states. Induction over data is not
needed for what is proved: where a fold or a recursive function must be followed through, a least or greatest element (of a finite set, or of the
positions at which a claim fails) takes its place. Types, on the other hand, are proved and not run.

## 5. What is not modelled

- *Governor and token together.* Which error a caller gets: a partly staked proposer whose whole balance covers the deposit passes the
  governor's check and is then refused by the transfer. The call is refused either way, which is what `Propose` says. Executed
  actions make the token do payments only. Voting periods longer than the retention are possible and not covered by any
  theorem.
- Storage TTLs and archival; events other than their order and kind; token metadata, title and text
  validation, IPFS links: no modelled state depends on them.
- `upgrade`, which replaces the code. The Signaling kind, which no constructor sets. The delegate facade and the
  proposer index of the governor.
- Approvals granted by executed actions, and staking by the governor itself.
- SDK: reads of single values (one cached read each), `estimateFees`, the values in an event's
  payload, the wording of errors.
- Python SDK: synchronous, one request per method, no state of its own.
- Front end: RPC health and user settings (one value each), derived lists, formatting, markdown, translations, and
  components that render what they are given. Storage that cannot be read or written is left out of `Drafts`, and so is a
  second tab with a draft of its own.
- In `WritePath`, the delay before a retry, and the two copies that are in flight when a request is sent again while the
  network still has the first: they are modelled as one. A second copy that finds
  the first one pooled (`DUPLICATE`) is modelled when the first has arrived before it is sent.
- The seeding script's proposals being voted on, finalized or vetoed by others: others only open proposals in `DemoSeed`.
- Fuzz targets (drivers of what `Governor` models), repository metrics, icons, deployment and license scripts:
  straight-line tools.

## 6. Plan

Done: both contracts, alone and together, the abstract life, dispatch and its abstraction to one step, the SDK's reads, writes and events,
the stateful parts of the front end, the seeding and benchmark scripts, and the proofs above. Left:

1. Two proposals in `System`, if its state space can be cut down to fit.
2. What executed actions can make the token do beyond payments.
