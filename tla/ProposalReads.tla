----------------------------- MODULE ProposalReads -----------------------------
(***************************************************************************)
(* Calls of the TypeScript client that take several reads of proposals     *)
(* (sdk/src/client.ts): a listing reads the count, then every proposal of  *)
(* its window, concurrently; waitForProposalStatus polls one proposal.     *)
(* The proposals live on meanwhile.                                        *)
(*                                                                         *)
(* A read is answered from the contract as it stands when the node looks;  *)
(* options that bypass the cache are assumed.  The client keeps nothing    *)
(* from one call to the next, so a behaviour has one.                      *)
(***************************************************************************)
EXTENDS Integers, Sequences, FiniteSets, FiniteSetsExt

CONSTANTS
  MaxProposals,  \* bound: proposals created
  Windows,       \* offsets and limits asked for; a limit beyond MaxProposals
                 \* stands for its absence
  Patience       \* timeoutMs of waitForProposalStatus, in polls

VARIABLES
  status,    \* of every proposal, on the ledger
  listing,   \* the call of getProposals or getAllProposals
  watch,     \* the call of waitForProposalStatus
  lived      \* history: the statuses each proposal has had since the call began

vars == <<status, listing, watch, lived>>

ContractStatus == {"Active", "Queued", "Failed", "Cancelled", "Executed", "Vetoed", "Expired"}

(* What the governance contract may make of a status.                      *)
Successors(s) ==
  CASE s = "Active" -> {"Queued", "Failed", "Cancelled"}
    [] s = "Queued" -> {"Executed", "Vetoed", "Expired"}
    [] OTHER        -> {}

NoListing == [at |-> "idle", offset |-> 0, limit |-> 0, total |-> 0, got |-> << >>]
NoWatch   == [at |-> "idle", id |-> 0, target |-> "none", last |-> "none", polls |-> 0]

Init ==
  /\ status = << >>
  /\ listing = NoListing
  /\ watch = NoWatch
  /\ lived = [i \in 1..MaxProposals |-> {}]

Uncalled == listing.at = "idle" /\ watch.at = "idle"
Idle == listing.at \notin {"counting", "reading"} /\ watch.at \notin {"asking", "waiting"}

(* While a call is on, what its proposals become is remembered.            *)
Lives(i, s) == IF Idle THEN lived ELSE [lived EXCEPT ![i] = @ \cup {s}]

(* A call begins: only what is true from here on may be reported.          *)
Since == [i \in 1..MaxProposals |-> IF i \in DOMAIN status THEN {status[i]} ELSE {}]

------------------------------------------------------------------------------
(* The contract.                                                           *)

Create ==
  /\ Len(status) < MaxProposals
  /\ status' = Append(status, "Active")
  /\ lived' = Lives(Len(status) + 1, "Active")
  /\ UNCHANGED <<listing, watch>>

Move(i) ==
  /\ \E s \in Successors(status[i]) :
       /\ status' = [status EXCEPT ![i] = s]
       /\ lived' = Lives(i, s)
  /\ UNCHANGED <<listing, watch>>

------------------------------------------------------------------------------
(* Listings.                                                               *)

(* Proposals are numbered from 1.                                          *)
WindowEnd(offset, limit, total) == Min({total, offset + limit})
Window(offset, limit, total) == (offset + 1)..WindowEnd(offset, limit, total)

(* A limit of zero needs no read at all.                                   *)
List(offset, limit) ==
  /\ Uncalled
  /\ listing' = [NoListing EXCEPT !.at = IF limit = 0 THEN "done" ELSE "counting",
                                  !.offset = offset, !.limit = limit]
  /\ lived' = Since
  /\ UNCHANGED <<status, watch>>

Fanned(ids) == [i \in ids |-> "asked"]

Count ==
  /\ listing.at = "counting"
  /\ LET ids == Window(listing.offset, listing.limit, Len(status))
     IN  listing' = [listing EXCEPT !.total = Len(status), !.got = Fanned(ids),
                                    !.at = IF ids = {} THEN "done" ELSE "reading"]
  /\ UNCHANGED <<status, watch, lived>>

PROPOSAL_STATUSES ==
  {"Pending", "Active", "Passed", "Failed", "Queued", "Executed", "Cancelled"}

(* decodeStatus throws at a name it does not know; no proposal, no status. *)
Decodes(s) == s \in PROPOSAL_STATUSES \cup {"null"}

(* One getProposal of the window: the first to fail fails the listing.     *)
Got(i) ==
  /\ listing.at = "reading"
  /\ i \in DOMAIN listing.got
  /\ listing.got[i] = "asked"
  /\ LET s   == IF i \in DOMAIN status THEN status[i] ELSE "null"
         got == [listing.got EXCEPT ![i] = s]
     IN  listing' = [listing EXCEPT
           !.got = got,
           !.at = IF ~Decodes(s) THEN "failed"
                  ELSE IF \A j \in DOMAIN got : got[j] # "asked" THEN "done"
                  ELSE @]
  /\ UNCHANGED <<status, watch, lived>>

(* What the caller gets, in the order of the ids.                          *)
Listed == {i \in DOMAIN listing.got : listing.got[i] # "null"}

------------------------------------------------------------------------------
(* waitForProposalStatus.                                                  *)

Watch(i, target) ==
  /\ Uncalled
  /\ watch' = [NoWatch EXCEPT !.at = "asking", !.id = i, !.target = target]
  /\ lived' = Since
  /\ UNCHANGED <<status, listing>>

(* Mutant: any status but Active will do.                                  *)
Settled(s, target) == s # "Active"

Reached(s, target) == s = target

(* One poll: its answer, and what the loop makes of it.                    *)
Poll ==
  /\ watch.at = "asking"
  /\ LET s == IF watch.id \in DOMAIN status THEN status[watch.id] ELSE "null"
     IN  watch' = [watch EXCEPT
           !.last = s,
           !.at = IF s = "null" THEN "not_found"
                  ELSE IF ~Decodes(s) THEN "failed"
                  ELSE IF Reached(s, watch.target) THEN "returned"
                  ELSE IF watch.polls >= Patience THEN "timeout" ELSE "waiting"]
  /\ UNCHANGED <<status, listing, lived>>

Delay ==
  /\ watch.at = "waiting"
  /\ watch' = [watch EXCEPT !.at = "asking", !.polls = @ + 1]
  /\ UNCHANGED <<status, listing, lived>>

Next ==
  \/ Create
  \/ \E i \in DOMAIN status : Move(i)
  \/ \E w \in Windows : List(w[1], w[2])
  \/ Count
  \/ \E i \in 1..MaxProposals : Got(i)
  \/ \E i \in 1..MaxProposals, target \in ContractStatus : Watch(i, target)
  \/ Poll
  \/ Delay

Spec == Init /\ [][Next]_vars

------------------------------------------------------------------------------
(* Properties.                                                             *)

(* A listing that succeeds holds exactly the proposals of its window among *)
(* those that existed when it began or were created meanwhile, and each    *)
(* with a status it had during the call; a watch returns only a status     *)
(* the proposal did reach.                                                 *)
AnswersWereTrue ==
  /\ listing.at = "done" /\ listing.limit > 0 =>
       /\ Listed = {i \in 1..listing.total : i > listing.offset /\ i <= listing.offset + listing.limit}
       /\ \A i \in Listed : listing.got[i] \in lived[i]
  /\ watch.at = "returned" => watch.last = watch.target /\ watch.last \in lived[watch.id]
==============================================================================
