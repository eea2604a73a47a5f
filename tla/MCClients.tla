------------------------------ MODULE MCClients ------------------------------
(***************************************************************************)
(* Small instances of the clients of the contracts: those of Clients, and  *)
(* the rest of the SDK, the website and the scripts.  A behaviour is one   *)
(* component at work, which "part" names; the others do nothing in it.     *)
(* Those with fairness rest in a state with no fair action to take: no     *)
(* read made, the clock stopped, the page hidden.                          *)
(***************************************************************************)
EXTENDS Clients

VARIABLES
  part,
  proposal, visible, interval, flights, state,   \* LiveView
  input, problems, env, failures                 \* AppEnv

batcherVars == <<supported, pending, flushes, single, settled>>
listingVars == <<proposals, listing, watch, lived>>
writeVars   == <<now, sequence, txs, call>>
dispatchVars == <<status, allowed, paused, effects, age, stack>>
workerVars  == <<online, deployed, active, waiting, caches, fetches, copies, shown>>
draftVars   == <<disk, savedDraft, form, step, banner, timer, last>>
inboxVars   == <<stage, behind, storage, tabs>>
feedVars    == <<statuses, choice, log, cursor, view, saved>>
benchVars   == <<mode, concurrency, jobs, run, counted, queue, inFlight, landed, answers, calls, thrown>>
seedVars    == <<deployment, ledger, opened, pc, invoked, before, seeded, ended, idle>>
viewVars    == <<proposal, visible, interval, flights, state>>
sessionVars == <<loggedInAs, connectedAddresses, activeWalletId, connecting, alert, snapshotLedger,
                 reads, read>>
configVars  == <<input, problems, env, failures>>

(* Two proposals that share a target.                                      *)
TwoProposals == <<<<"a", "b">>, <<"b">>>>

(* Listings whole, cut, beyond the end, and of nothing.                    *)
SomeWindows == {<<0, 3>>, <<0, 1>>, <<1, 1>>, <<2, 2>>, <<0, 0>>}

OneTemplate == {<<2, 1>>}

(* One proposal of one of two accounts, both of which one tab knows.       *)
OneProposer == {<<1, "a">>}
ThreeLogins == {<<1, "a">>, <<1, "b">>, <<2, "a">>}

(* Lists that whole pages make up, and that none do.                       *)
TwoSizes   == <<3, 5>>
ThreePages == <<1, 2, 4>>

View == INSTANCE LiveView WITH MaxVotes <- 2, MaxFlights <- 2, timer <- interval,
  fetches <- flights

Config == INSTANCE AppEnv WITH IdLength <- 8

(* Each account has a weight at one of two snapshots.                      *)
TwoHolders == {<<"a", 1>>, <<"b", 2>>}

------------------------------------------------------------------------------
Init ==
  /\ part \in {"batcher", "reads", "write", "dispatch", "worker", "draft", "inbox", "feed", "bench",
               "seed", "session", "view", "config"}
  /\ Batcher!Init
  /\ IF part = "write" THEN Write!Init
     ELSE now = 7 /\ sequence = 0 /\ txs = << >> /\ call = Write!Idle
  /\ Listings!Init
  /\ Dispatch!Init
  /\ Worker!Init
  /\ Draft!Init
  /\ Inbox!Init
  /\ Feed!Init
  /\ IF part = "bench" THEN Bench!Init
     ELSE /\ mode = "stub" /\ concurrency = 0 /\ jobs = << >> /\ run = 1 /\ counted = FALSE
          /\ queue = << >> /\ inFlight = {} /\ landed = {} /\ answers = << >> /\ calls = 0
          /\ thrown = FALSE
  /\ IF part = "seed" THEN Seed!Init
     ELSE /\ deployment = [existing |-> FALSE] /\ ledger = 1 /\ opened = << >> /\ pc = 1
          /\ invoked = "none" /\ before = 0 /\ seeded = << >> /\ ended = "none" /\ idle = 0
  /\ IF part = "session" THEN Session!Init
     ELSE /\ loggedInAs = Session!Null /\ connectedAddresses = << >> /\ activeWalletId = Session!Null
          /\ connecting = FALSE /\ alert = Session!Null /\ snapshotLedger = 1 /\ reads = {}
          /\ read = Session!NoRead
  /\ IF part = "config" THEN Config!Init
     ELSE input = << >> /\ problems = << >> /\ env = << >> /\ failures = 0
  /\ View!Init
  /\ visible => part = "view"

Next ==
  /\ UNCHANGED part
  /\ \/ /\ part = "batcher" /\ Batcher!Next
        /\ UNCHANGED <<listingVars, writeVars, dispatchVars, workerVars, draftVars,
                       inboxVars, feedVars, benchVars, seedVars, sessionVars, viewVars,
                       configVars>>
     \/ /\ part = "reads" /\ Listings!Next
        /\ UNCHANGED <<batcherVars, writeVars, dispatchVars, workerVars, draftVars,
                       inboxVars, feedVars, benchVars, seedVars, sessionVars, viewVars,
                       configVars>>
     \/ /\ part = "write" /\ Write!Next
        /\ UNCHANGED <<batcherVars, listingVars, dispatchVars, workerVars, draftVars,
                       inboxVars, feedVars, benchVars, seedVars, sessionVars, viewVars,
                       configVars>>
     \/ /\ part = "dispatch" /\ Dispatch!Next
        /\ UNCHANGED <<batcherVars, listingVars, writeVars, workerVars, draftVars,
                       inboxVars, feedVars, benchVars, seedVars, sessionVars, viewVars,
                       configVars>>
     \/ /\ part = "worker" /\ Worker!Next
        /\ UNCHANGED <<batcherVars, listingVars, writeVars, dispatchVars, draftVars,
                       inboxVars, feedVars, benchVars, seedVars, sessionVars, viewVars,
                       configVars>>
     \/ /\ part = "draft" /\ Draft!Next
        /\ UNCHANGED <<batcherVars, listingVars, writeVars, dispatchVars, workerVars,
                       inboxVars, feedVars, benchVars, seedVars, sessionVars, viewVars,
                       configVars>>
     \/ /\ part = "inbox" /\ Inbox!Next
        /\ UNCHANGED <<batcherVars, listingVars, writeVars, dispatchVars, workerVars,
                       draftVars, feedVars, benchVars, seedVars, sessionVars, viewVars,
                       configVars>>
     \/ /\ part = "feed" /\ Feed!Next
        /\ UNCHANGED <<batcherVars, listingVars, writeVars, dispatchVars, workerVars,
                       draftVars, inboxVars, benchVars, seedVars, sessionVars, viewVars,
                       configVars>>
     \/ /\ part = "bench" /\ Bench!Next
        /\ UNCHANGED <<batcherVars, listingVars, writeVars, dispatchVars, workerVars,
                       draftVars, inboxVars, feedVars, seedVars, sessionVars, viewVars,
                       configVars>>
     \/ /\ part = "seed" /\ Seed!Next
        /\ UNCHANGED <<batcherVars, listingVars, writeVars, dispatchVars, workerVars,
                       draftVars, inboxVars, feedVars, benchVars, sessionVars, viewVars,
                       configVars>>
     \/ /\ part = "session" /\ Session!Next
        /\ UNCHANGED <<batcherVars, listingVars, writeVars, dispatchVars, workerVars,
                       draftVars, inboxVars, feedVars, benchVars, seedVars, viewVars,
                       configVars>>
     \/ /\ part = "view" /\ View!Next
        /\ UNCHANGED <<batcherVars, listingVars, writeVars, dispatchVars, workerVars,
                       draftVars, inboxVars, feedVars, benchVars, seedVars, sessionVars,
                       configVars>>
     \/ /\ part = "config" /\ Config!Next
        /\ UNCHANGED <<batcherVars, listingVars, writeVars, dispatchVars, workerVars,
                       draftVars, inboxVars, feedVars, benchVars, seedVars, sessionVars,
                       viewVars>>

Spec ==
  /\ Init
  /\ [][Next]_<<part, batcherVars, listingVars, writeVars, dispatchVars, workerVars, draftVars,
               inboxVars, feedVars, benchVars, seedVars, sessionVars, viewVars, configVars>>
  /\ Batcher!Fairness
  /\ Write!Fairness
  /\ View!Fairness

------------------------------------------------------------------------------
(* The other components' properties, each where its component is at work.  *)

(* SimulationBatcher: every read settles.                                  *)
EveryReadSettles == Batcher!EveryReadSettles

(* WritePath: every submission ends.                                       *)
SubmissionsEnd == Write!SubmissionsEnd

(* LiveView: a page in view catches up with the ledger.                    *)
ViewCatchesUp == View!ViewCatchesUp

(* AppEnv: a live server reads the deployed contracts.                     *)
LiveReadsTheDeployment == part = "config" => Config!LiveReadsTheDeployment

(* AppEnv: one failed start names all there is to correct.                 *)
OneRunReportsAll == part = "config" => Config!OneRunReportsAll

==============================================================================
