------------------------------- MODULE DemoSeed -------------------------------
(***************************************************************************)
(* The seeding script (scripts/seed-demo-proposals.mjs) against the        *)
(* governance contract: it drives four proposals into one state each, call *)
(* by call, while ledgers close and, on a deployment that others use too,  *)
(* others open proposals.                                                  *)
(*                                                                         *)
(* A call is simulated first, at the last closed ledger or for the next    *)
(* one; what the contract refuses there, or on chain, ends the script.  So *)
(* does any request that fails, which here is just where a behaviour ends. *)
(***************************************************************************)
EXTENDS Integers, Sequences, FiniteSets, Functions

CONSTANTS
  VotingPeriod, TimelockPeriod,
  GracePeriods,  \* of the deployments there are; zero: executable for ever
  MaxStrangers,  \* bound: proposals others open
  MaxIdle        \* bound: ledgers closed while the script waits for none

VARIABLES
  deployment,  \* what the script was pointed at
  ledger,      \* the last closed one
  proposals,   \* of the contract, by id
  pc,          \* step of main under way
  call,        \* what invoke does, or that no call is under way
  before,      \* proposal count createProposal read
  ids,         \* the proposals the script believes it made
  thrown,      \* why it ended early
  idle         \* ledgers closed while the script waited for none

vars == <<deployment, ledger, proposals, pc, call, before, ids, thrown, idle>>

(* A fresh deployment, or an existing one: with the token admin's key or   *)
(* without, with a window short enough to wait out or not, with a supply   *)
(* its votes are a quorum of or not, with an expiry or not.                *)
Init ==
  /\ deployment \in
       {d \in [existing : BOOLEAN, adminKey : BOOLEAN, waitable : BOOLEAN,
               reachesQuorum : BOOLEAN, grace : GracePeriods] :
          ~d.existing => d.reachesQuorum /\ d.waitable /\ ~d.adminKey /\ d.grace > 0}
  /\ ledger = 1
  /\ proposals \in {<< >>} \cup
       (IF deployment.existing
        THEN {<<[start |-> 1, end |-> VotingPeriod, queue |-> 0, status |-> "Active",
                 for |-> 0, against |-> 0, own |-> FALSE, during |-> "none"]>>}
        ELSE {})
  /\ pc = 1
  /\ call = "none"
  /\ before = 0
  /\ ids = [name \in {"queued", "failed", "executed", "active"} |-> 0]
  /\ thrown = "none"
  /\ idle = 0

------------------------------------------------------------------------------
(* The contract.                                                           *)

Known(id) == id \in DOMAIN proposals

(* Why each call is refused in a ledger, or "none".                        *)
VoteRefused(id, seq) ==
  IF ~Known(id) THEN "ProposalNotFound"
  ELSE IF seq > proposals[id].end THEN "VotingPeriodEnded"
  ELSE IF proposals[id].status # "Active" THEN "VotingNotActive"
  ELSE IF seq < proposals[id].start THEN "VotingNotStarted"
  ELSE IF deployment.existing /\ ~deployment.adminKey THEN "NoVotingPower" ELSE "none"

FinalizeRefused(id, seq) ==
  IF ~Known(id) THEN "ProposalNotFound"
  ELSE IF seq <= proposals[id].end THEN "VotingStillOpen"
  ELSE IF proposals[id].status # "Active" THEN "VotingNotActive" ELSE "none"

(* A grace period of zero never ends.  A deadline beyond the ledger        *)
(* numbers traps, which is a request that fails.                           *)
ExecuteRefused(id, seq) ==
  IF ~Known(id) THEN "ProposalNotFound"
  ELSE IF proposals[id].status # "Queued" THEN "ProposalNotPassed"
  ELSE IF seq < proposals[id].queue THEN "TimelockNotExpired"
  ELSE IF deployment.grace > 0 /\ seq > proposals[id].queue + deployment.grace
       THEN "ExecutionExpired" ELSE "none"

(* Of a proposal the properties remember whose it is and the creation of   *)
(* the script that was under way, which no call looks at.                  *)
Opened(seq, own, during) ==
  [start |-> seq + 1, end |-> seq + 1 + VotingPeriod, queue |-> 0, status |-> "Active",
   for |-> 0, against |-> 0, own |-> own, during |-> during]

(* A vote by one of the two voters.                                        *)
Voted(id, support) ==
  [proposals EXCEPT ![id].for = IF support = "FOR" THEN @ + 1 ELSE @,
                    ![id].against = IF support = "AGAINST" THEN @ + 1 ELSE @]

Finalized(id, seq) ==
  IF deployment.reachesQuorum /\ proposals[id].for > proposals[id].against
  THEN [proposals EXCEPT ![id].status = "Queued", ![id].queue = seq + TimelockPeriod]
  ELSE [proposals EXCEPT ![id].status = "Failed"]

------------------------------------------------------------------------------
(* The script.                                                             *)

Step(do, on, with) == [do |-> do, on |-> on, with |-> with]

(* Mutant: the first proposal that passes is executed.                     *)
FirstPassing == "queued"

ToExecute == "executed"

(* main, after the accounts are funded.                                    *)
Main == <<
  Step("contracts", "", ""), Step("distribute", "", ""), Step("threshold", "", ""),
  Step("create", "queued", ""),   Step("vote", "queued", "FOR"),
  Step("create", "failed", ""),   Step("vote", "failed", "AGAINST"),
  Step("create", "executed", ""), Step("vote", "executed", "FOR"),
  Step("wait", "executed", "end"),
  Step("finalize", "queued", ""), Step("finalize", "failed", ""), Step("finalize", "executed", ""),
  Step("wait", "executed", "queue"),
  Step("execute", ToExecute, ""),
  Step("create", "active", ""),
  Step("wait", "active", "start"),
  Step("vote", "active", "FOR"), Step("vote", "active", "ABSTAIN") >>

Done == pc > Len(Main)
Running(do) == thrown = "none" /\ ~Done /\ Main[pc].do = do
Now == Main[pc]

GoOn == pc' = pc + 1

(* fundAccount, deployContract, the two calls of initialize; a contract    *)
(* whose window is too long to wait out is refused.                        *)
Contracts ==
  /\ Running("contracts")
  /\ IF ~deployment.waitable
     THEN thrown' = "period" /\ UNCHANGED pc
     ELSE GoOn /\ UNCHANGED thrown
  /\ UNCHANGED <<deployment, ledger, proposals, call, before, ids, idle>>

(* Mint and transfers, if the script can; the rest follows from whether    *)
(* the voters have tokens.                                                 *)
Distribute ==
  /\ Running("distribute")
  /\ GoOn
  /\ UNCHANGED <<deployment, ledger, proposals, call, before, ids, thrown, idle>>

(* An unfunded proposer is below any threshold but zero.                   *)
Threshold ==
  /\ Running("threshold")
  /\ \/ GoOn /\ UNCHANGED thrown
     \/ /\ deployment.existing
        /\ thrown' = "threshold"
        /\ UNCHANGED pc
  /\ UNCHANGED <<deployment, ledger, proposals, call, before, ids, idle>>

(* createProposal: the count is read before the call.                      *)
CountRead ==
  /\ Running("create")
  /\ call = "none"
  /\ before' = Len(proposals)
  /\ call' = "counted"
  /\ UNCHANGED <<deployment, ledger, proposals, pc, ids, thrown, idle>>

NewId == before + 1

(* The creation under way since its count was read, if one is.             *)
Creating == IF Running("create") /\ call # "none" THEN Now.on ELSE "none"

Refused(seq) ==
  LET id == ids[Now.on]
  IN  CASE Now.do = "create"   -> "none"
        [] Now.do = "vote"     -> VoteRefused(id, seq)
        [] Now.do = "finalize" -> FinalizeRefused(id, seq)
        [] Now.do = "execute"  -> ExecuteRefused(id, seq)

Effect(seq) ==
  LET id == ids[Now.on]
  IN  CASE Now.do = "create"   -> Append(proposals, Opened(seq, TRUE, Now.on))
        [] Now.do = "vote"     -> Voted(id, Now.with)
        [] Now.do = "finalize" -> Finalized(id, seq)
        [] Now.do = "execute"  -> [proposals EXCEPT ![id].status = "Executed"]

(* invoke: simulated; the authorisations and the transaction signed; sent. *)
Simulate ==
  /\ \/ Running("create") /\ call = "counted"
     \/ (Running("vote") \/ Running("finalize") \/ Running("execute")) /\ call = "none"
  /\ \E seq \in {ledger, ledger + 1} :
       IF Refused(seq) = "none"
       THEN call' = "sent" /\ UNCHANGED thrown
       ELSE thrown' = Refused(seq) /\ UNCHANGED call
  /\ UNCHANGED <<deployment, ledger, proposals, pc, before, ids, idle>>

(* The transaction is in the ledger that closes, and then is polled as     *)
(* SUCCESS or FAILED.                                                      *)
Included ==
  /\ call = "sent"
  /\ thrown = "none"
  /\ ledger' = ledger + 1
  /\ call' = "none"
  /\ before' = 0
  /\ IF Refused(ledger') = "none"
     THEN /\ proposals' = Effect(ledger')
          /\ ids' = IF Now.do = "create" THEN [ids EXCEPT ![Now.on] = NewId] ELSE ids
          /\ GoOn
          /\ UNCHANGED thrown
     ELSE thrown' = Refused(ledger') /\ UNCHANGED <<proposals, ids, pc>>
  /\ UNCHANGED <<deployment, idle>>

(* waitForLedger, with what getProposal read before.                       *)
LedgerWaitedFor(p) ==
  CASE Now.with = "end"   -> p.end + 1
    [] Now.with = "queue" -> p.queue
    [] Now.with = "start" -> p.start

TargetReached == ledger >= LedgerWaitedFor(proposals[ids[Now.on]])

Reached ==
  /\ Running("wait")
  /\ TargetReached
  /\ GoOn
  /\ UNCHANGED <<deployment, ledger, proposals, call, before, ids, thrown, idle>>

------------------------------------------------------------------------------
(* A ledger closes without the script's transaction, maybe with another's. *)
CloseLedger ==
  /\ thrown = "none"
  /\ ~Done
  /\ ledger' = ledger + 1
  /\ idle' = IF Running("wait") /\ ~TargetReached THEN idle ELSE idle + 1
  /\ idle' <= MaxIdle
  /\ \/ UNCHANGED proposals
     \/ /\ deployment.existing
        /\ Cardinality({id \in DOMAIN proposals : ~proposals[id].own}) < MaxStrangers
        /\ proposals' = Append(proposals, Opened(ledger', FALSE, Creating))
  /\ UNCHANGED <<deployment, pc, call, before, ids, thrown>>

Next ==
  \/ Contracts \/ Distribute \/ Threshold \/ CountRead \/ Simulate \/ Included \/ Reached
  \/ CloseLedger

Spec == Init /\ [][Next]_vars

------------------------------------------------------------------------------
(* Properties.                                                             *)

(* The number createProposal derives from the count is that of a proposal  *)
(* opened after it read the count and before it returned, and so of its    *)
(* own, or of one that others opened in that time: never of an earlier     *)
(* proposal, and never of one that is not there.                           *)
IdsAreOfTheirCalls ==
  \A name \in DOMAIN ids :
    ids[name] # 0 => Known(ids[name]) /\ proposals[ids[name]].during = name

(* A script that gets to the end has left what its header promises: one    *)
(* proposal queued, one failed, one executed, one active, and four of      *)
(* them.  It waits long enough: nothing it finalizes or executes is        *)
(* refused for being early, wherever its proposals' windows ended up.  And *)
(* the ids it goes by are those of its calls.                              *)
SeededAsPromised ==
  /\ thrown \notin {"VotingStillOpen", "TimelockNotExpired"}
  /\ IdsAreOfTheirCalls
  /\ Done =>
       /\ proposals[ids["queued"]].status = "Queued"
       /\ proposals[ids["failed"]].status = "Failed"
       /\ proposals[ids["executed"]].status = "Executed"
       /\ proposals[ids["active"]].status = "Active"
       /\ IsInjective(ids)

(* createProposal (seed-demo-proposals.mjs) is said to return "the id of   *)
(* the new proposal", which the script then votes on and finalizes: never  *)
(* a proposal of somebody else.                                            *)
IdsAreOfTheNew ==
  \A name \in DOMAIN ids : ids[name] # 0 => proposals[ids[name]].own
==============================================================================
