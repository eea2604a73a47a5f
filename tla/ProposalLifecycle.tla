--------------------------- MODULE ProposalLifecycle ---------------------------
(***************************************************************************)
(* What the governance contract promises of a proposal, whatever the       *)
(* votes, deposits, roles and actions behind it: a voting window, one      *)
(* decision after it closes, a timelock in which it can be vetoed, a       *)
(* period in which it can be executed, and one final status.  Governor is  *)
(* shown to implement this specification (Governor!Lifecycle).             *)
(***************************************************************************)
EXTENDS Integers, Sequences

CONSTANTS VotingPeriod, TimelockPeriod, GracePeriod

(* What the periods have to be; the governance contract refuses to be      *)
(* initialized without a timelock.                                         *)
Periods ==
  /\ VotingPeriod \in Nat
  /\ TimelockPeriod \in Nat \ {0}
  /\ GracePeriod \in Nat

VARIABLES
  now,     \* the current ledger
  history  \* the proposals in order of opening: status, last ledger to vote
           \* in, and the ledger the timelock ends at (0 until queued)

vars == <<now, history>>

Final == {"Failed", "Executed", "Cancelled", "Expired", "Vetoed"}

Entry == [status : {"Active", "Queued"} \cup Final, closes : Nat, ready : Nat]

Init == now = 1 /\ history = << >>

Open ==
  /\ history' = Append(history, [status |-> "Active",
                                 closes |-> now + 1 + VotingPeriod, ready |-> 0])
  /\ UNCHANGED now

Becomes(id, status) ==
  /\ history' = [history EXCEPT ![id].status = status]
  /\ UNCHANGED now

Pass(id) ==
  /\ history[id].status = "Active"
  /\ now > history[id].closes
  /\ history' = [history EXCEPT ![id] = [status |-> "Queued", closes |-> history[id].closes,
                                         ready |-> now + TimelockPeriod]]
  /\ UNCHANGED now

Fail(id)   == history[id].status = "Active" /\ now > history[id].closes /\ Becomes(id, "Failed")
Cancel(id) == history[id].status = "Active" /\ now <= history[id].closes /\ Becomes(id, "Cancelled")
Veto(id)   == history[id].status = "Queued" /\ now < history[id].ready /\ Becomes(id, "Vetoed")

Lapsed(id) == GracePeriod > 0 /\ now > history[id].ready + GracePeriod

Execute(id) ==
  /\ history[id].status = "Queued"
  /\ now >= history[id].ready
  /\ ~Lapsed(id)
  /\ Becomes(id, "Executed")

Expire(id) == history[id].status = "Queued" /\ Lapsed(id) /\ Becomes(id, "Expired")

Tick == now' = now + 1 /\ UNCHANGED history

Next ==
  \/ Open
  \/ Tick
  \/ \E id \in DOMAIN history :
       Pass(id) \/ Fail(id) \/ Cancel(id) \/ Veto(id) \/ Execute(id) \/ Expire(id)

Spec == Init /\ [][Next]_vars

------------------------------------------------------------------------------

TypeOK == now \in Nat /\ history \in Seq(Entry)

(* Every status was earned: no decision before the window closed, no       *)
(* timelock shorter than promised, no execution inside it, no expiry       *)
(* before the grace period was over.                                       *)
StatusEarned ==
  \A id \in DOMAIN history :
    LET p == history[id]
    IN  /\ p.status \in {"Queued", "Executed", "Expired", "Vetoed"} =>
             p.closes + TimelockPeriod < p.ready
        /\ p.status = "Failed" => p.closes < now
        /\ p.status = "Executed" => p.ready <= now
        /\ p.status = "Expired" => GracePeriod > 0 /\ p.ready + GracePeriod < now

(* A final status is final, and the history only grows.                    *)
FinalIsFinal ==
  [][\A id \in DOMAIN history :
       /\ id \in DOMAIN history'
       /\ history[id].status \in Final => history'[id] = history[id]]_vars
==============================================================================
