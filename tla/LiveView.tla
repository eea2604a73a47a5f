------------------------------- MODULE LiveView -------------------------------
(***************************************************************************)
(* A proposal's page and the counts it keeps fresh: useLiveProposal and    *)
(* LiveVoteResults in the browser, the API route and lib/proposals.ts on   *)
(* the server, the proposal on the ledger.                                 *)
(*                                                                         *)
(* Requests are not ordered: two may be under way, and the older may       *)
(* answer last.                                                            *)
(***************************************************************************)
EXTENDS Integers

CONSTANTS
  MaxVotes,   \* bound: votes cast in a behaviour
  MaxFlights  \* bound: requests under way at once

VARIABLES
  proposal,  \* on the ledger: its status and the votes on it
  visible,   \* document.visibilityState of the tab
  timer,     \* the interval is set
  fetches,   \* requests under way: answer of the server, or that it is to come
  state      \* the proposal on the page

vars == <<proposal, visible, timer, fetches, state>>

Flights == 1..MaxFlights
Free == [at |-> "free"]

ContractStatus == {"Active", "Queued", "Failed", "Cancelled", "Executed", "Vetoed", "Expired"}

Successors(s) ==
  CASE s = "Active" -> {"Queued", "Failed", "Cancelled"}
    [] s = "Queued" -> {"Executed", "Vetoed", "Expired"}
    [] OTHER        -> {}

(* A queued proposal is shown as passed, others under their own name.      *)
UiStatus(s) == IF s = "Queued" THEN "Passed" ELSE s
toUiProposal(p) == [status |-> UiStatus(p.status), votes |-> p.votes]

Failure == [status |-> "500", votes |-> 0]

(* The client cannot decode these two.                                     *)
Readable == proposal.status \notin {"Vetoed", "Expired"}

(* The page is rendered on the server with what it reads.                  *)
Init ==
  /\ proposal = [status |-> "Active", votes |-> 0]
  /\ visible \in BOOLEAN
  /\ timer = visible
  /\ fetches = [n \in Flights |-> Free]
  /\ state = toUiProposal(proposal)

------------------------------------------------------------------------------
(* The ledger.                                                             *)

Vote ==
  /\ proposal.status = "Active"
  /\ proposal.votes < MaxVotes
  /\ proposal' = [proposal EXCEPT !.votes = @ + 1]
  /\ UNCHANGED <<visible, timer, fetches, state>>

Move ==
  /\ \E s \in Successors(proposal.status) : proposal' = [proposal EXCEPT !.status = s]
  /\ UNCHANGED <<visible, timer, fetches, state>>

------------------------------------------------------------------------------
(* The tab.                                                                *)

refresh ==
  \E n \in Flights : /\ fetches[n] = Free
                     /\ fetches' = [fetches EXCEPT ![n] = [at |-> "asked"]]

TimerFires ==
  /\ timer
  /\ refresh
  /\ UNCHANGED <<proposal, visible, timer, state>>

(* Mutant: the tab that comes back reads once and does not resume.         *)
NotResumed == timer

(* start, whatever the timer was.                                          *)
Resumed == TRUE

Shown ==
  /\ ~visible
  /\ visible' = TRUE
  /\ refresh
  /\ timer' = Resumed
  /\ UNCHANGED <<proposal, state>>

Hidden ==
  /\ visible
  /\ visible' = FALSE
  /\ timer' = FALSE
  /\ UNCHANGED <<proposal, fetches, state>>

(* The page is left for another and opened again: its requests are         *)
(* cancelled, which drops their answers, and its state begins anew.        *)
Reopened ==
  /\ Readable
  /\ state' = toUiProposal(proposal)
  /\ timer' = visible
  /\ fetches' = [n \in Flights |-> Free]
  /\ UNCHANGED <<proposal, visible>>

(* A response that is not ok changes nothing.                              *)
Kept(answer) == IF answer = Failure THEN state ELSE answer

Answered(n) ==
  /\ fetches[n].at = "served"
  /\ state' = Kept(fetches[n].answer)
  /\ fetches' = [fetches EXCEPT ![n] = Free]
  /\ UNCHANGED <<proposal, visible, timer>>

Lost(n) ==
  /\ fetches[n].at # "free"
  /\ fetches' = [fetches EXCEPT ![n] = Free]
  /\ UNCHANGED <<proposal, visible, timer, state>>

------------------------------------------------------------------------------
(* The server: GET and getProposalById.                                    *)

Served(n) ==
  /\ fetches[n].at = "asked"
  /\ \E answer \in {Failure} \cup (IF Readable THEN {toUiProposal(proposal)} ELSE {}) :
       fetches' = [fetches EXCEPT ![n] = [at |-> "served", answer |-> answer]]
  /\ UNCHANGED <<proposal, visible, timer, state>>

Next ==
  \/ Vote \/ Move
  \/ TimerFires \/ Shown \/ Hidden \/ Reopened
  \/ \E n \in Flights : Served(n) \/ Answered(n) \/ Lost(n)

(* The interval fires, a request ends one way or the other, and reads do   *)
(* not fail for ever.                                                      *)
Good(n) == fetches[n].at = "served" /\ fetches[n].answer # Failure /\ Answered(n)
Fairness ==
  /\ WF_vars(TimerFires)
  /\ \A n \in Flights : WF_vars(Served(n) \/ Answered(n) \/ Lost(n))
  /\ SF_vars(\E n \in Flights : fetches[n].at = "asked" /\ Served(n) /\ fetches'[n].answer # Failure)
  /\ SF_vars(\E n \in Flights : Good(n))

------------------------------------------------------------------------------
(* Property.                                                               *)

(* Whatever reads fail and in whatever order answers come, a page that     *)
(* stays in view shows in the end what the ledger holds, for good, once    *)
(* votes and status are settled (and unless the client cannot decode it).  *)
ViewCatchesUp ==
  <>[](visible /\ Readable) => <>[](state = toUiProposal(proposal))
==============================================================================
