------------------------------- MODULE WritePath -------------------------------
(***************************************************************************)
(* A write of the TypeScript client: build (client.ts), sign with the      *)
(* wallet (freighter.ts), submitAndWait (client.ts).                       *)
(*                                                                         *)
(* The caller makes one write at a time, of one account.  After a verdict  *)
(* it may build anew, or send the signed transaction again.  The network   *)
(* takes a transaction whose sequence number is the account's next and     *)
(* whose time bound has not passed, and applies it in its own time.  A     *)
(* request ends by its timeout; its message may arrive later all the same. *)
(* Instants are coarse: only the order of the durations matters.           *)
(***************************************************************************)
EXTENDS Integers, Sequences

CONSTANTS
  ValidFor,        \* setTimeout of the built transaction
  RequestTimeout,  \* requestTimeoutMs
  Attempts,        \* readRetryAttempts + 1
  PollEvery,       \* pollIntervalMs
  ConfirmFor,      \* confirmationTimeoutMs
  Writes,          \* bound: transactions built in a behaviour
  LastInstant      \* bound: the clock of a behaviour

VARIABLES
  now,       \* Date.now(), and the network's clock
  sequence,  \* the account's sequence number on the ledger
  txs,       \* the transactions built, in order
  call       \* the caller's call: its step, and what it waits for

vars == <<now, sequence, txs, call>>

FreighterErrorCode ==
  {"NOT_INSTALLED", "LOCKED", "ACCESS_DENIED", "SIGNING_REJECTED", "WALLET_ERROR"}

Transaction ==
  [seq : Nat, built : Nat, sends : 0..2, under_way : BOOLEAN,
   fate : {"none", "pooled", "applied", "failed"},
   verdict : FreighterErrorCode \cup
     {"none", "refused", "success", "failed", "unconfirmed", "unknown"}]

Call ==
  [at : {"idle", "signing", "connected", "sending", "waiting", "polling"},
   since : Int, deadline : Int, attempt : Nat,
   seen : {"none", "PENDING", "DUPLICATE", "TRY_AGAIN_LATER", "ERROR",
           "SUCCESS", "FAILED", "NOT_FOUND"}]

TypeOK ==
  /\ now \in Nat
  /\ sequence \in Nat
  /\ txs \in Seq(Transaction)
  /\ call \in Call

(* The durations are such that what may still be applied is looked for.    *)
(* So they are by default: 30, 15, 1 and 60 seconds.                       *)
Durations ==
  /\ {ValidFor, RequestTimeout, PollEvery, ConfirmFor} \subseteq Nat
  /\ ValidFor + RequestTimeout + PollEvery < ConfirmFor

Idle == [at |-> "idle", since |-> 0, deadline |-> 0, seen |-> "none", attempt |-> 1]
Last == Len(txs)
Tx   == txs[Last]

Init ==
  /\ now = 0
  /\ sequence = 0
  /\ txs = << >>
  /\ call = Idle

(* The call goes on to another step, at this instant.                      *)
At(step) ==
  [at |-> step, since |-> now, deadline |-> call.deadline, seen |-> "none", attempt |-> 1]

(* It ends, telling the caller what became of the transaction.             *)
Tell(verdict) ==
  /\ call' = Idle
  /\ txs' = [txs EXCEPT ![Last] = [@ EXCEPT !.verdict = verdict]]

------------------------------------------------------------------------------
(* Build and sign.                                                         *)

(* Mutant: no time bound.                                                  *)
Unbounded(tx) == LastInstant + 1

(* The network refuses a transaction after this instant.                   *)
ValidUntil(tx) == tx.built + ValidFor

(* getAccount, then prepareTransaction: either may fail, and then nothing  *)
(* has happened.  Which contract is called, how and by whom is the choice  *)
(* of the builder (buildVote and so on); nothing here depends on it.       *)
Build ==
  /\ call.at = "idle"
  /\ Last < Writes
  /\ txs' = Append(txs, [seq |-> sequence + 1, built |-> now, sends |-> 0,
                         under_way |-> FALSE, fate |-> "none", verdict |-> "none"])
  /\ call' = At("signing")
  /\ UNCHANGED <<now, sequence>>

(* What the wallet's message means.                                        *)
CodeFor(message, phase) ==
  CASE message = "locked"  -> "LOCKED"
    [] message = "missing" -> "NOT_INSTALLED"
    [] OTHER -> IF phase = "sign" THEN "SIGNING_REJECTED" ELSE "ACCESS_DENIED"

Connected ==
  /\ call.at = "signing"
  /\ call' = At("connected")
  /\ UNCHANGED <<now, sequence, txs>>

(* No browser, no package, a wallet that is locked or declines, or one     *)
(* that answers without an address (as if access was denied) or without a  *)
(* signature (which has a code of its own).                                *)
WalletFails ==
  /\ \/ /\ call.at \in {"signing", "connected"}
        /\ \E message \in {"locked", "missing", "declined", "other"} :
             Tell(CodeFor(message, IF call.at = "signing" THEN "access" ELSE "sign"))
     \/ /\ call.at = "connected"
        /\ Tell("WALLET_ERROR")
  /\ UNCHANGED <<now, sequence>>

(* The signed transaction goes out.                                        *)
SentOut(tx) == [tx EXCEPT !.sends = @ + 1, !.under_way = TRUE, !.verdict = "none"]

Send ==
  /\ call.at = "connected"
  /\ txs' = [txs EXCEPT ![Last] = SentOut(@)]
  /\ call' = At("sending")
  /\ UNCHANGED <<now, sequence>>

(* submitAndWait again with the same XDR, after any verdict on it.         *)
Resend ==
  /\ call.at = "idle"
  /\ Last > 0
  /\ Tx.sends = 1
  /\ txs' = [txs EXCEPT ![Last] = SentOut(@)]
  /\ call' = At("sending")
  /\ UNCHANGED <<now, sequence>>

------------------------------------------------------------------------------
(* The network.                                                            *)

Acceptable(tx) == tx.seq = sequence + 1 /\ now <= ValidUntil(tx)

Arrived(tx, status) ==
  [tx EXCEPT !.under_way = FALSE, !.fate = IF status = "PENDING" THEN "pooled" ELSE @]

(* What the node answers to sendTransaction is decided as the message      *)
(* arrives; the caller hears of it unless it has stopped waiting.          *)
Arrive(i, status) ==
  /\ txs[i].under_way
  /\ CASE status = "PENDING" -> txs[i].fate = "none" /\ Acceptable(txs[i])
       [] status = "DUPLICATE" -> txs[i].fate = "pooled"
       [] status = "TRY_AGAIN_LATER" -> TRUE
       [] status = "ERROR" -> txs[i].fate # "pooled"
  /\ txs' = [txs EXCEPT ![i] = Arrived(@, status)]
  /\ call' = IF call.at = "sending" /\ i = Last THEN [call EXCEPT !.seen = status] ELSE call
  /\ UNCHANGED <<now, sequence>>

Apply(i) ==
  /\ txs[i].fate = "pooled"
  /\ Acceptable(txs[i])
  /\ \E fate \in {"applied", "failed"} : txs' = [txs EXCEPT ![i] = [@ EXCEPT !.fate = fate]]
  /\ sequence' = sequence + 1
  /\ UNCHANGED <<now, call>>

------------------------------------------------------------------------------
(* submitAndWait.                                                          *)

SendRefused(status) == status = "ERROR"

Sent ==
  /\ call.at = "sending"
  /\ call.seen # "none"
  /\ IF SendRefused(call.seen)
     THEN Tell("refused")
     ELSE /\ call' = [At("waiting") EXCEPT !.since = now - PollEvery, !.deadline = now + ConfirmFor]
          /\ UNCHANGED txs
  /\ UNCHANGED <<now, sequence>>

(* Mutant: polling for ever.                                               *)
NoDeadline == LastInstant + 1

Deadline == call.deadline

Poll ==
  /\ call.at = "waiting"
  /\ now >= call.since + PollEvery
  /\ now < Deadline
  /\ call' = At("polling")
  /\ UNCHANGED <<now, sequence, txs>>

(* The node looks the transaction up.                                      *)
Look ==
  /\ call.at = "polling"
  /\ call.seen = "none"
  /\ call' = [call EXCEPT !.seen =
       CASE Tx.fate = "applied" -> "SUCCESS"
         [] Tx.fate = "failed"  -> "FAILED"
         [] OTHER               -> "NOT_FOUND"]
  /\ UNCHANGED <<now, sequence, txs>>

(* Its answer reaches the caller.                                          *)
Polled ==
  /\ call.at = "polling"
  /\ call.seen # "none"
  /\ CASE call.seen = "SUCCESS"   -> Tell("success")
       [] call.seen = "FAILED"    -> Tell("failed")
       [] call.seen = "NOT_FOUND" -> call' = At("waiting") /\ UNCHANGED txs
  /\ UNCHANGED <<now, sequence>>

(* Instead of the answer, a transient error: read asks once more.          *)
PollRetried ==
  /\ call.at = "polling"
  /\ call.attempt < Attempts
  /\ call' = [call EXCEPT !.seen = "none", !.since = now, !.attempt = @ + 1]
  /\ UNCHANGED <<now, sequence, txs>>

(* "transaction confirmation timed out".                                   *)
GiveUp ==
  /\ call.at = "waiting"
  /\ now >= Deadline
  /\ Tell("unconfirmed")
  /\ UNCHANGED <<now, sequence>>

(* A request times out, or fails for good.                                 *)
RequestFails ==
  /\ call.at \in {"sending", "polling"}
  /\ Tell("unknown")
  /\ UNCHANGED <<now, sequence>>

(* Time passes, but no request outlasts its timeout, and timers fire.      *)
Tick ==
  /\ now < LastInstant
  /\ call.at \in {"sending", "polling"} => now < call.since + RequestTimeout
  /\ call.at = "waiting" => now < call.deadline /\ now < call.since + PollEvery
  /\ now' = now + 1
  /\ UNCHANGED <<sequence, txs, call>>

Next ==
  \/ Build \/ Connected \/ WalletFails \/ Send \/ Resend
  \/ \E i \in DOMAIN txs :
       \/ \E status \in {"PENDING", "DUPLICATE", "TRY_AGAIN_LATER", "ERROR"} : Arrive(i, status)
       \/ Apply(i)
  \/ Sent \/ Poll \/ Look \/ Polled \/ PollRetried \/ GiveUp \/ RequestFails
  \/ Tick

(* The event loop runs and the clock does not stop.                        *)
Fairness ==
  /\ WF_vars(Sent \/ Poll \/ Polled \/ GiveUp)
  /\ WF_vars(RequestFails)
  /\ WF_vars(Tick)

Spec == Init /\ [][Next]_vars /\ Fairness

------------------------------------------------------------------------------
(* Properties.                                                             *)

(* What the caller is told of a write is true for good, however late       *)
(* messages, answers and timeouts are: success means applied; failed means *)
(* that it was applied and reverted; and once the network refused it, or   *)
(* it stayed unconfirmed, it will never be applied, so that building it    *)
(* anew cannot do the thing twice.  (A refusal says nothing when the same  *)
(* transaction was sent before.)                                           *)
VerdictsAreTrue ==
  \A i \in DOMAIN txs :
    /\ txs[i].verdict = "success" => txs[i].fate = "applied"
    /\ txs[i].verdict = "failed" => txs[i].fate = "failed"
    /\ txs[i].verdict = "refused" /\ txs[i].sends = 1 => txs[i].fate \notin {"applied", "failed"}
    /\ txs[i].verdict = "unconfirmed" => txs[i].fate \notin {"applied", "failed"}

(* Every submission ends, whatever the network does with it, within the    *)
(* time of a request, the confirmation time and that of one poll.          *)
SubmissionsEnd ==
  call.at = "sending" /\ now + ConfirmFor + (1 + Attempts) * RequestTimeout <= LastInstant
    ~> call.at = "idle"
==============================================================================
