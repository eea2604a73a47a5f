-------------------------------- MODULE Clients --------------------------------
(***************************************************************************)
(* The parts around the contracts whose promises are proved for every      *)
(* value of their constants, side by side: the reads and the writes of the *)
(* SDK, its events and its load test, the service worker, the create page, *)
(* the wallet and the notifications of the site, the seeding script, and   *)
(* the targets that the actions of a proposal call.  Each has variables of *)
(* its own and works without the others.                                   *)
(***************************************************************************)
EXTENDS Integers, Sequences, FiniteSets

CONSTANTS
  Attempts,                                                  \* of a read, batched or polling
  Reads, Size,                                               \* SimulationBatcher
  MaxProposals, Windows, Patience,                           \* ProposalReads
  ValidFor, RequestTimeout, PollEvery, ConfirmFor, Writes, LastInstant,  \* WritePath
  Ids, Actions, Target,                                      \* ExecuteDispatch
  Pages, Shell, MaxVersion, MaxInFlight,                     \* ServiceWorker
  Titles, Descriptions, Others, Templates,                   \* Drafts
  Proposals, Addresses, Proposers, Tabs, Logins, MaxStage, MAX_NOTIFICATIONS_PER_WALLET, \* Notifications
  FeedProposals, Voters, Supports, PageSize, MaxEvents,      \* EventFeed
  Sizes, PageSizes, Pools, RunsPerJob,                       \* ListBench
  VotingPeriod, TimelockPeriod, GracePeriods, MaxStrangers, MaxIdle, \* DemoSeed
  Accounts, Snapshots, Holders, Cap                          \* WalletSession

VARIABLES
  supported, pending, flushes, single, settled,              \* SimulationBatcher
  proposals, listing, watch, lived,                          \* ProposalReads
  now, sequence, txs, call,                                  \* WritePath
  status, allowed, paused, effects, age, stack,              \* ExecuteDispatch
  online, deployed, active, waiting, caches, fetches, copies, shown,  \* ServiceWorker
  disk, savedDraft, form, step, banner, timer, last,         \* Drafts
  stage, behind, storage, tabs,                              \* Notifications
  statuses, choice, log, cursor, view, saved,                \* EventFeed
  mode, concurrency, jobs, run, counted, queue, inFlight, landed, answers, calls, thrown, \* ListBench
  deployment, ledger, opened, pc, invoked, before, seeded, ended, idle,  \* DemoSeed
  loggedInAs, connectedAddresses, activeWalletId, connecting, alert, snapshotLedger,
  reads, read                                                \* WalletSession

Batcher  == INSTANCE SimulationBatcher
Listings == INSTANCE ProposalReads WITH status <- proposals
Write    == INSTANCE WritePath
Dispatch == INSTANCE ExecuteDispatch
Worker   == INSTANCE ServiceWorker
Draft    == INSTANCE Drafts
Inbox    == INSTANCE Notifications
Feed     == INSTANCE EventFeed WITH Proposals <- FeedProposals, status <- statuses
Bench    == INSTANCE ListBench WITH Runs <- RunsPerJob, settled <- landed
Seed     == INSTANCE DemoSeed WITH proposals <- opened, call <- invoked, thrown <- ended, ids <- seeded
Session  == INSTANCE WalletSession WITH address <- loggedInAs, pending <- connecting, error <- alert

(* A batch has 1 to 100 reads (batch.ts:27).                               *)
ASSUME BatcherAssumption == Size \in Nat \ {0}

(* Other offsets and limits are refused (client.ts:299, :302).             *)
ASSUME ListingsAssumption == MaxProposals \in Nat /\ Windows \subseteq Nat \X Nat

ASSUME WriteAssumption == Write!Durations

ASSUME DispatchAssumption == Actions \in [Ids -> Seq(Target)]

ASSUME WorkerAssumption == MaxVersion \in Nat \ {0}

(* A proposal has one proposer.                                            *)
ASSUME InboxAssumption ==
  /\ IsFiniteSet(Proposals)
  /\ Proposers \subseteq Proposals \X Addresses
  /\ \A m, n \in Proposers : m[1] = n[1] => m = n
  /\ MaxStage \in Nat
  /\ MAX_NOTIFICATIONS_PER_WALLET \in Nat

ASSUME FeedAssumption == PageSize \in Nat

(* Lists of positive numbers, none empty (bench.mjs:84-93); whole ones, as *)
(* pages and proposals are counted.                                        *)
ASSUME BenchAssumption ==
  /\ Sizes \in Seq(Nat \ {0}) /\ Sizes # << >>
  /\ PageSizes \in Seq(Nat \ {0}) /\ PageSizes # << >>
  /\ Pools \subseteq Nat

ASSUME SeedAssumption == VotingPeriod \in Nat /\ TimelockPeriod \in Nat

------------------------------------------------------------------------------
(* What each promises.                                                     *)

(* SimulationBatcher: a read gets the answer to its own transaction.       *)
ReadsGetTheirOwn == Batcher!ReadsGetTheirOwn

(* ProposalReads: listings and watches return what was so.                 *)
AnswersWereTrue == Listings!AnswersWereTrue

(* WritePath: what the caller of a write is told stays true.               *)
VerdictsAreTrue == Write!VerdictsAreTrue

(* ExecuteDispatch: a proposal's actions run all or not at all.            *)
AllOrNothing == Dispatch!AllOrNothing

(* ServiceWorker: a navigation offline is answered.                        *)
OfflineIsAnswered == Worker!OfflineIsAnswered

(* Drafts: what was typed is kept.                                         *)
DraftIsKept == Draft!DraftIsKept

(* Notifications: a status recorded as seen is in its proposer's inbox.    *)
BaselineIsReported == Inbox!BaselineIsReported

(* EventFeed: a consumer of all events knows the state.                    *)
ReplayAgrees == Feed!ReplayAgrees

(* ListBench: what is reported is what was measured.                       *)
RunsAreAsReported == Bench!RunsAreAsReported

(* DemoSeed: a script that ends has made what it promises.                 *)
SeededAsPromised == Seed!SeededAsPromised

(* WalletSession: the voting power shown is that of account and proposal.  *)
PreviewIsOwn == Session!PreviewIsOwn
==============================================================================
