------------------------------- MODULE EventFeed -------------------------------
(***************************************************************************)
(* What a consumer of the contracts' events learns through decodeEvents    *)
(* (sdk/src/events.ts).  The contracts append events to a log; the         *)
(* consumer reads pages of it from a cursor, decodes them, and keeps the   *)
(* status of each proposal and each voter's choice.  It saves its view     *)
(* with the cursor of an earlier page or this one, and may restart.        *)
(***************************************************************************)
EXTENDS Integers, Sequences, SequencesExt, FiniteSets

CONSTANTS
  Proposals, Voters,
  Supports,   \* choices cast, of 0..2
  PageSize,  \* limit of a getEvents call
  MaxEvents  \* bound: events in a behaviour

VARIABLES
  status,   \* of every proposal, on the ledger
  choice,   \* recorded choice of every voter on every proposal
  log,      \* the events emitted
  cursor,   \* events the consumer has been through
  view,     \* the consumer's record: statuses and choices
  saved     \* the cursor it restarts from

vars == <<status, choice, log, cursor, view, saved>>

NoChoice == 3
NoView == [status |-> [p \in Proposals |-> "none"],
           choice |-> [p \in Proposals |-> [v \in Voters |-> NoChoice]]]

Init ==
  /\ status = NoView.status
  /\ choice = NoView.choice
  /\ log = << >>
  /\ cursor = 0
  /\ view = NoView
  /\ saved = 0

------------------------------------------------------------------------------
(* The contracts.                                                          *)

Event(topic, p, rest) == [topic |-> topic, id |-> p, rest |-> rest]
Emit(events) == log' = log \o events /\ Len(log') <= MaxEvents

Becomes(p, s, events) ==
  /\ status' = [status EXCEPT ![p] = s]
  /\ Emit(events)
  /\ UNCHANGED <<choice, cursor, view, saved>>

Create(p) ==
  status[p] = "none" /\ Becomes(p, "Active", <<Event("proposal_created", p, << >>)>>)

(* A voter may choose again: there is an event every time.                 *)
Vote(p, v, support) ==
  /\ status[p] = "Active"
  /\ choice' = [choice EXCEPT ![p][v] = support]
  /\ Emit(<<Event("vote_cast", p, <<v, support>>)>>)
  /\ UNCHANGED <<status, cursor, view, saved>>

Finalize(p, s) ==
  /\ status[p] = "Active"
  /\ Becomes(p, s, <<Event("proposal_finalized", p, <<s>>)>> \o
                   (IF s = "Queued" THEN <<Event("proposal_queued", p, << >>)>> ELSE << >>))

Execute(p) ==
  status[p] = "Queued" /\ Becomes(p, "Executed", <<Event("proposal_executed", p, << >>)>>)

Cancel(p) ==
  status[p] = "Active" /\ Becomes(p, "Cancelled", <<Event("proposal_cancelled", p, << >>)>>)

Veto(p) ==
  status[p] = "Queued" /\ Becomes(p, "Vetoed", <<Event("proposal_vetoed", p, << >>)>>)

(* mark_expired emits nothing.                                             *)
Expire(p) ==
  status[p] = "Queued" /\ Becomes(p, "Expired", << >>)

------------------------------------------------------------------------------
(* The decoder.                                                            *)

EVENT_TOPICS ==
  {"proposal_created", "vote_cast", "proposal_finalized", "proposal_queued",
   "proposal_executed", "proposal_cancelled"}

(* decodeEvent of an event of these contracts: topics it does not know are *)
(* null, and dropped; all others keep their fields.                        *)
Known(event) == event.topic \in EVENT_TOPICS

(* Mutant: a page ends at the first unknown topic.                         *)
DecodedUpTo(page) ==
  LET n == SelectInSeq(page, LAMBDA e : ~Known(e))
  IN  IF n = 0 THEN page ELSE SubSeq(page, 1, n - 1)

decodeEvents(page) ==
  FoldLeft(LAMBDA decoded, e : IF Known(e) THEN Append(decoded, e) ELSE decoded, << >>, page)

------------------------------------------------------------------------------
(* The consumer.                                                           *)

Applied(event, v) ==
  CASE event.topic = "proposal_created"   -> [v EXCEPT !.status[event.id] = "Active"]
    [] event.topic = "vote_cast"          -> [v EXCEPT !.choice[event.id][event.rest[1]] = event.rest[2]]
    [] event.topic = "proposal_finalized" -> [v EXCEPT !.status[event.id] = event.rest[1]]
    [] event.topic = "proposal_queued"    -> [v EXCEPT !.status[event.id] = "Queued"]
    [] event.topic = "proposal_executed"  -> [v EXCEPT !.status[event.id] = "Executed"]
    [] event.topic = "proposal_cancelled" -> [v EXCEPT !.status[event.id] = "Cancelled"]

PageEnd == IF Len(log) < cursor + PageSize THEN Len(log) ELSE cursor + PageSize

ReadPage ==
  /\ cursor < Len(log)
  /\ view' = FoldLeft(LAMBDA v, e : Applied(e, v), view,
                      decodeEvents(SubSeq(log, cursor + 1, PageEnd)))
  /\ cursor' = PageEnd
  /\ saved' \in {saved, cursor, PageEnd}
  /\ UNCHANGED <<status, choice, log>>

(* What was applied after the saved cursor is applied again.               *)
Restart ==
  /\ saved < cursor
  /\ cursor' = saved
  /\ UNCHANGED <<status, choice, log, view, saved>>

Next ==
  \/ \E p \in Proposals :
       \/ Create(p) \/ Execute(p) \/ Cancel(p) \/ Veto(p) \/ Expire(p)
       \/ \E s \in {"Queued", "Failed"} : Finalize(p, s)
       \/ \E v \in Voters, support \in Supports : Vote(p, v, support)
  \/ ReadPage
  \/ Restart

Spec == Init /\ [][Next]_vars
------------------------------------------------------------------------------
(* Properties.                                                             *)

(* However the log is cut into pages and read again after restarts, a      *)
(* consumer that has read all of it knows every voter's last choice and    *)
(* every proposal's status; only a veto or an expiry it cannot see, and    *)
(* keeps those proposals queued.                                           *)
ReplayAgrees ==
  cursor = Len(log) =>
    /\ view.choice = choice
    /\ \A p \in Proposals :
         view.status[p] = IF status[p] \in {"Vetoed", "Expired"} THEN "Queued" ELSE status[p]
==============================================================================
