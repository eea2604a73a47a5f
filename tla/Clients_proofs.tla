------------------------------ MODULE Clients_proofs ------------------------------
(***************************************************************************)
(* What the clients and the targets of a proposal promise holds for every  *)
(* number of reads, writes, actions, pages, versions and tabs, and for all *)
(* durations that fit each other (WritePath!Durations).                    *)
(*                                                                         *)
(* Eleven specifications, one after the other: writes, the actions of a    *)
(* proposal, the service worker, batched reads, listings, drafts,          *)
(* notifications, events, the load test, the seeding script and the        *)
(* wallet.  Each has its inductive invariant (WriteOK, DispatchOK,         *)
(* WorkerOK, BatcherOK, ListingsOK, DraftOK, NotificationsOK, FeedOK,      *)
(* BenchOK, SeedOK, SessionOK), lemmas that it holds at the start and is   *)
(* kept by every action, and one that it suffices.  The actions of a       *)
(* proposal have a second one, SerialOK: as they end, nested or failed,    *)
(* they are calls of the governance contract one after the other.          *)
(***************************************************************************)
EXTENDS Clients, Sums_proofs, FiniteSetTheorems, TLAPS

------------------------------------------------------------------------------
(* Writes.                                                                 *)

Done(tx) == tx.fate \in {"applied", "failed"}

(* What holds of a transaction at an instant.  Only what is under way or   *)
(* in the pool can still be applied, and that not past its time bound.     *)
TxOK(tx, instant) ==
  /\ tx.built <= instant
  /\ tx.sends = 0 => tx.fate = "none" /\ ~tx.under_way
  /\ tx.sends = 1 /\ tx.under_way => tx.fate = "none"
  /\ tx.verdict = "success" => tx.fate = "applied"
  /\ tx.verdict = "failed" => tx.fate = "failed"
  /\ tx.verdict = "refused" /\ tx.sends = 1 => tx.fate = "none" /\ ~tx.under_way
  /\ tx.verdict = "unconfirmed" => ~Done(tx) /\ instant > Write!ValidUntil(tx)

(* What a call knows of its transaction, step by step.  The last look at   *)
(* the ledger comes after the time bound: what was applied is found.       *)
Unsent(tx) == tx.sends = 0 /\ tx.verdict = "none"

Answered(c, tx) ==
  /\ c.seen \in {"none", "PENDING", "DUPLICATE", "TRY_AGAIN_LATER", "ERROR"}
  /\ c.seen = "ERROR" /\ tx.sends = 1 => tx.fate = "none" /\ ~tx.under_way

Waits(c, tx, instant) ==
  /\ c.since <= instant
  /\ instant <= c.since + PollEvery
  /\ c.deadline >= tx.built + ConfirmFor
  /\ Done(tx) => c.since + PollEvery < c.deadline

Looks(c, tx, instant) ==
  /\ c.since <= instant
  /\ instant <= c.since + RequestTimeout
  /\ c.deadline >= tx.built + ConfirmFor
  /\ c.seen \in {"none", "SUCCESS", "FAILED", "NOT_FOUND"}
  /\ c.seen = "SUCCESS" => tx.fate = "applied"
  /\ c.seen = "FAILED" => tx.fate = "failed"
  /\ c.seen = "NOT_FOUND" /\ Done(tx) => c.since <= Write!ValidUntil(tx)

CallOK(c, tx, instant) ==
  /\ c.at \in {"signing", "connected"} => Unsent(tx)
  /\ c.at = "sending" => Answered(c, tx)
  /\ c.at = "waiting" => Waits(c, tx, instant)
  /\ c.at = "polling" => Looks(c, tx, instant)

AllOK == \A i \in DOMAIN txs : TxOK(txs[i], now)

WriteOK ==
  /\ Write!TypeOK
  /\ AllOK
  /\ call.at # "idle" => txs # << >> /\ CallOK(call, Write!Tx, now)

------------------------------------------------------------------------------
(* How the steps change the transactions: one of them, or one more.        *)

(* Only the call goes on.                                                  *)
LEMMA CallGoesOn ==
  ASSUME WriteOK, UNCHANGED <<now, sequence, txs>>, call' \in Write!Call,
         call'.at # "idle" => txs # << >> /\ CallOK(call', Write!Tx, now)
  PROVE  WriteOK'
  BY DEF WriteOK, Write!TypeOK, AllOK, Write!Tx, Write!Last

(* A transaction goes on, and maybe the call and the ledger.               *)
LEMMA TxGoesOn ==
  ASSUME WriteOK, NEW i \in DOMAIN txs, NEW tx \in Write!Transaction,
         txs' = [txs EXCEPT ![i] = tx], now' = now, sequence' \in Nat, call' \in Write!Call,
         TxOK(tx, now),
         call'.at # "idle" => CallOK(call', IF i = Write!Last THEN tx ELSE Write!Tx, now)
  PROVE  WriteOK'
<1>1. /\ txs' \in Seq(Write!Transaction)
      /\ txs' # << >>
      /\ AllOK'
      /\ Write!Tx' = IF i = Write!Last THEN tx ELSE Write!Tx
  BY DEF WriteOK, Write!TypeOK, AllOK, Write!Tx, Write!Last
<1> QED  BY <1>1 DEF WriteOK, Write!TypeOK

LEMMA LastIsThere ==
  ASSUME Write!TypeOK, txs # << >>
  PROVE  /\ Write!Last \in DOMAIN txs
         /\ Write!Tx \in Write!Transaction
  BY DEF Write!TypeOK, Write!Last, Write!Tx

------------------------------------------------------------------------------
(* Each action keeps the invariant.                                        *)

LEMMA BuildKeeps ==
  ASSUME WriteOK, Write!Build
  PROVE  WriteOK'
<1> DEFINE new == [seq |-> sequence + 1, built |-> now, sends |-> 0,
                   under_way |-> FALSE, fate |-> "none", verdict |-> "none"]
<1>1. /\ txs' = Append(txs, new)
      /\ now' = now
      /\ sequence' = sequence
      /\ call' = Write!At("signing")
  BY DEF Write!Build
<1>2. new \in Write!Transaction
  BY DEF WriteOK, Write!TypeOK, Write!Transaction
<1>3. TxOK(new, now) /\ Unsent(new)
  BY DEF TxOK, Unsent, WriteOK, Write!TypeOK
<1> HIDE DEF new
<1>4. /\ txs' \in Seq(Write!Transaction)
      /\ Len(txs') = Len(txs) + 1
      /\ DOMAIN txs' = 1..Len(txs')
      /\ txs'[Len(txs')] = new
      /\ \A j \in DOMAIN txs : txs'[j] = txs[j]
  BY <1>1, <1>2 DEF WriteOK, Write!TypeOK
<1>5. call' \in Write!Call /\ call'.at = "signing"
  BY <1>1 DEF Write!At, WriteOK, Write!TypeOK, Write!Call
<1>6. Write!TypeOK'
  BY <1>1, <1>4, <1>5 DEF WriteOK, Write!TypeOK
<1>7. \A i \in DOMAIN txs' : i \in DOMAIN txs \/ i = Len(txs')
  BY <1>4 DEF WriteOK, Write!TypeOK
<1>8. AllOK'
  BY <1>1, <1>3, <1>4, <1>7 DEF AllOK, WriteOK
<1>9. Write!Tx' = new /\ txs' # << >>
  BY <1>4 DEF Write!Tx, Write!Last, WriteOK, Write!TypeOK
<1>10. CallOK(call', Write!Tx', now')
  BY <1>3, <1>5, <1>9 DEF CallOK
<1> QED  BY <1>6, <1>8, <1>9, <1>10 DEF WriteOK

LEMMA ConnectedKeeps ==
  ASSUME WriteOK, Write!Connected
  PROVE  WriteOK'
<1>1. call' \in Write!Call /\ call'.at = "connected"
  BY DEF Write!Connected, Write!At, WriteOK, Write!TypeOK, Write!Call
<1>2. txs # << >> /\ Unsent(Write!Tx)
  BY DEF Write!Connected, WriteOK, CallOK
<1>3. CallOK(call', Write!Tx, now)
  BY <1>1, <1>2 DEF CallOK
<1> QED  BY <1>1, <1>2, <1>3, CallGoesOn DEF Write!Connected

LEMMA ToldKeeps ==
  ASSUME WriteOK, txs # << >>, NEW verdict, Write!Tell(verdict), UNCHANGED <<now, sequence>>,
         [Write!Tx EXCEPT !.verdict = verdict] \in Write!Transaction,
         TxOK([Write!Tx EXCEPT !.verdict = verdict], now)
  PROVE  WriteOK'
<1>1. Write!Last \in DOMAIN txs /\ sequence \in Nat
  BY LastIsThere DEF WriteOK, Write!TypeOK
<1>2. txs' = [txs EXCEPT ![Write!Last] = [Write!Tx EXCEPT !.verdict = verdict]]
  BY DEF Write!Tell, Write!Tx
<1>3. call' \in Write!Call /\ call'.at = "idle"
  BY DEF Write!Tell, Write!Idle, Write!Call
<1> QED  BY <1>1, <1>2, <1>3, TxGoesOn

LEMMA WalletFailsKeeps ==
  ASSUME WriteOK, Write!WalletFails
  PROVE  WriteOK'
<1>1. txs # << >> /\ Unsent(Write!Tx) /\ Write!Tx \in Write!Transaction /\ TxOK(Write!Tx, now)
  BY LastIsThere DEF Write!WalletFails, WriteOK, CallOK, AllOK, Write!Tx
<1>2. PICK code \in Write!FreighterErrorCode : Write!Tell(code)
  BY DEF Write!WalletFails, Write!CodeFor, Write!FreighterErrorCode
<1>3. [Write!Tx EXCEPT !.verdict = code] \in Write!Transaction
  BY <1>1 DEF Write!Transaction
<1>4. TxOK([Write!Tx EXCEPT !.verdict = code], now)
  BY <1>1 DEF TxOK, Unsent, Write!Transaction, Write!FreighterErrorCode
<1> QED  BY <1>1, <1>2, <1>3, <1>4, ToldKeeps DEF Write!WalletFails

LEMMA SentOutFields ==
  ASSUME NEW tx \in Write!Transaction, tx.sends \in 0..1
  PROVE  /\ Write!SentOut(tx) \in Write!Transaction
         /\ Write!SentOut(tx).built = tx.built
         /\ Write!SentOut(tx).sends = tx.sends + 1
         /\ Write!SentOut(tx).fate = tx.fate
         /\ Write!SentOut(tx).verdict = "none"
<1>1. Write!SentOut(tx) \in Write!Transaction
  <2>1. tx.sends + 1 \in 0..2
    OBVIOUS
  <2>2. [tx EXCEPT !.sends = tx.sends + 1] \in Write!Transaction
    BY <2>1 DEF Write!Transaction
  <2>3. Write!SentOut(tx) = [[tx EXCEPT !.sends = tx.sends + 1] EXCEPT !.under_way = TRUE, !.verdict = "none"]
    BY Zenon DEF Write!SentOut
  <2> QED  BY <2>2, <2>3 DEF Write!Transaction
<1>2. Write!SentOut(tx).built = tx.built
  BY DEF Write!SentOut, Write!Transaction
<1>3. Write!SentOut(tx).sends = tx.sends + 1
  BY DEF Write!SentOut, Write!Transaction
<1>4. Write!SentOut(tx).fate = tx.fate
  BY DEF Write!SentOut, Write!Transaction
<1>5. Write!SentOut(tx).verdict = "none"
  BY DEF Write!SentOut, Write!Transaction
<1> QED  BY <1>1, <1>2, <1>3, <1>4, <1>5

LEMMA ArrivedFields ==
  ASSUME NEW tx \in Write!Transaction, NEW reply
  PROVE  /\ Write!Arrived(tx, reply) \in Write!Transaction
         /\ Write!Arrived(tx, reply).built = tx.built
         /\ Write!Arrived(tx, reply).sends = tx.sends
         /\ ~Write!Arrived(tx, reply).under_way
         /\ Write!Arrived(tx, reply).fate = IF reply = "PENDING" THEN "pooled" ELSE tx.fate
         /\ Write!Arrived(tx, reply).verdict = tx.verdict
<1>1. Write!Arrived(tx, reply) \in Write!Transaction
  BY DEF Write!Arrived, Write!Transaction
<1>2. Write!Arrived(tx, reply).built = tx.built
  BY DEF Write!Arrived, Write!Transaction
<1>3. Write!Arrived(tx, reply).sends = tx.sends
  BY DEF Write!Arrived, Write!Transaction
<1>4. ~Write!Arrived(tx, reply).under_way
  BY Zenon DEF Write!Arrived, Write!Transaction
<1>5. Write!Arrived(tx, reply).fate = IF reply = "PENDING" THEN "pooled" ELSE tx.fate
  BY DEF Write!Arrived, Write!Transaction
<1>6. Write!Arrived(tx, reply).verdict = tx.verdict
  BY DEF Write!Arrived, Write!Transaction
<1> QED  BY <1>1, <1>2, <1>3, <1>4, <1>5, <1>6

LEMMA SendKeeps ==
  ASSUME WriteOK, Write!Send \/ Write!Resend
  PROVE  WriteOK'
<1>1. txs # << >>
  BY DEF Write!Send, Write!Resend, WriteOK, Write!TypeOK, CallOK, Write!Last
<1>2. Write!Last \in DOMAIN txs /\ Write!Tx \in Write!Transaction /\ TxOK(Write!Tx, now) /\ sequence \in Nat
  BY <1>1, LastIsThere DEF WriteOK, AllOK, Write!Tx, Write!TypeOK
<1>3. /\ call' = Write!At("sending")
      /\ txs' = [txs EXCEPT ![Write!Last] = Write!SentOut(Write!Tx)]
      /\ UNCHANGED <<now, sequence>>
  BY DEF Write!Send, Write!Resend, Write!Tx
<1>4. call' \in Write!Call /\ call'.at = "sending" /\ call'.seen = "none"
  BY <1>3 DEF Write!At, WriteOK, Write!TypeOK, Write!Call
<1>5. Write!Tx.sends = 0 \/ Write!Tx.sends = 1
  BY DEF Write!Send, Write!Resend, WriteOK, CallOK, Unsent
<1>6. Write!SentOut(Write!Tx) \in Write!Transaction
  BY <1>2, <1>5, SentOutFields
<1>7. TxOK(Write!SentOut(Write!Tx), now)
  BY <1>2, <1>5, SentOutFields DEF TxOK
<1>8. CallOK(call', Write!SentOut(Write!Tx), now)
  BY <1>4 DEF CallOK, Answered
<1> QED  BY <1>2, <1>3, <1>4, <1>6, <1>7, <1>8, TxGoesOn

LEMMA ArriveKeeps ==
  ASSUME WriteOK, NEW i \in DOMAIN txs,
         NEW reply \in {"PENDING", "DUPLICATE", "TRY_AGAIN_LATER", "ERROR"},
         Write!Arrive(i, reply)
  PROVE  WriteOK'
<1> DEFINE tx == Write!Arrived(txs[i], reply)
<1>1. txs[i] \in Write!Transaction /\ TxOK(txs[i], now) /\ sequence \in Nat
  BY DEF WriteOK, Write!TypeOK, AllOK
<1>2. /\ txs[i].under_way
      /\ txs' = [txs EXCEPT ![i] = tx]
      /\ UNCHANGED <<now, sequence>>
      /\ reply = "PENDING" => txs[i].fate = "none"
      /\ reply = "ERROR" => txs[i].fate # "pooled"
  BY DEF Write!Arrive
<1>3. tx \in Write!Transaction
  BY <1>1, ArrivedFields
<1>4. TxOK(tx, now)
  BY <1>1, <1>2, ArrivedFields DEF TxOK, Done, Write!ValidUntil
<1>5. call' = IF call.at = "sending" /\ i = Write!Last THEN [call EXCEPT !.seen = reply] ELSE call
  BY DEF Write!Arrive
<1>6. call' \in Write!Call /\ call'.at = call.at
  BY <1>5 DEF WriteOK, Write!TypeOK, Write!Call
<1>7. ASSUME call.at # "idle"
      PROVE  CallOK(call', IF i = Write!Last THEN tx ELSE Write!Tx, now)
  <2>1. CallOK(call, Write!Tx, now)
    BY <1>7 DEF WriteOK
  <2>2. CASE i # Write!Last
    BY <1>5, <2>1, <2>2
  <2>3. CASE i = Write!Last /\ call.at # "sending"
    <3>1. tx.built = Write!Tx.built /\ (Done(tx) <=> Done(Write!Tx))
      BY <1>1, <1>2, <2>3, ArrivedFields DEF Done, Write!Tx
    <3>2. ~Unsent(Write!Tx)
      BY <1>1, <1>2, <2>3 DEF Unsent, TxOK, Write!Tx
    <3>3. call.seen \in {"SUCCESS", "FAILED"} /\ call.at = "polling" => tx.fate = Write!Tx.fate
      BY <1>1, <1>2, <2>1, <2>3, ArrivedFields DEF CallOK, Looks, Write!Tx
    <3> QED  BY <1>5, <2>1, <2>3, <3>1, <3>2, <3>3 DEF CallOK, Waits, Looks, Write!ValidUntil
  <2>4. CASE i = Write!Last /\ call.at = "sending"
    <3>1. call'.seen = reply /\ call'.at = "sending"
      BY <1>5, <2>4 DEF WriteOK, Write!TypeOK, Write!Call
    <3>2. reply = "ERROR" /\ tx.sends = 1 => tx.fate = "none" /\ ~tx.under_way
      BY <1>1, <1>2, ArrivedFields DEF TxOK
    <3> QED  BY <2>4, <3>1, <3>2 DEF CallOK, Answered
  <2> QED  BY <2>2, <2>3, <2>4
<1> QED  BY <1>1, <1>2, <1>3, <1>4, <1>6, <1>7, TxGoesOn

LEMMA ApplyKeeps ==
  ASSUME WriteOK, NEW i \in DOMAIN txs, Write!Apply(i)
  PROVE  WriteOK'
<1>1. PICK fate \in {"applied", "failed"} : txs' = [txs EXCEPT ![i] = [txs[i] EXCEPT !.fate = fate]]
  BY DEF Write!Apply
<1> DEFINE tx == [txs[i] EXCEPT !.fate = fate]
<1>2. txs[i] \in Write!Transaction /\ TxOK(txs[i], now) /\ sequence' \in Nat /\ now \in Nat
  BY DEF WriteOK, Write!TypeOK, AllOK, Write!Apply
<1>3. /\ txs[i].fate = "pooled"
      /\ now <= Write!ValidUntil(txs[i])
      /\ call' = call
      /\ now' = now
  BY DEF Write!Apply, Write!Acceptable
<1>4. tx \in Write!Transaction
  BY <1>2 DEF Write!Transaction
<1>5. /\ tx.built = txs[i].built /\ tx.sends = txs[i].sends /\ tx.verdict = txs[i].verdict
      /\ tx.fate = fate
  BY <1>2 DEF Write!Transaction
<1>6. tx.under_way = txs[i].under_way
  BY <1>2, Zenon DEF Write!Transaction
<1>7. Write!ValidUntil(txs[i]) \in Nat
  BY <1>2, WriteAssumption DEF Write!ValidUntil, Write!Durations, Write!Transaction
<1> HIDE DEF tx
<1>8. TxOK(tx, now)
  <2>1. txs[i].sends # 0 /\ ~(txs[i].sends = 1 /\ txs[i].under_way)
    BY <1>2, <1>3 DEF TxOK
  <2>2. txs[i].verdict \notin {"success", "failed", "unconfirmed"}
    BY <1>2, <1>3, <1>7 DEF TxOK
  <2>3. ~(txs[i].verdict = "refused" /\ txs[i].sends = 1)
    BY <1>2, <1>3 DEF TxOK
  <2> QED  BY <1>2, <1>5, <1>6, <2>1, <2>2, <2>3 DEF TxOK
<1>9. ASSUME call.at # "idle"
      PROVE  CallOK(call', IF i = Write!Last THEN tx ELSE Write!Tx, now)
  <2>1. CallOK(call, Write!Tx, now)
    BY <1>9 DEF WriteOK
  <2>2. CASE i # Write!Last
    BY <1>3, <2>1, <2>2
  <2>3. CASE i = Write!Last
    <3>1. Write!Tx = txs[i]
      BY <2>3 DEF Write!Tx
    <3>2. ~Unsent(Write!Tx)
      BY <1>2, <1>3, <3>1 DEF Unsent, TxOK
    <3>3. ~(call.at = "sending" /\ call.seen = "ERROR" /\ Write!Tx.sends = 1)
      BY <1>3, <2>1, <3>1 DEF CallOK, Answered
    <3>4. call.at = "waiting" => Waits(call, tx, now)
      BY <1>2, <1>3, <1>5, <2>1, <3>1, WriteAssumption DEF CallOK, Waits, Write!ValidUntil, Write!Durations, WriteOK, Write!TypeOK, Write!Call, Write!Transaction
    <3>5. call.at = "polling" => Looks(call, tx, now)
      <4>1. call.at = "polling" => call.seen \notin {"SUCCESS", "FAILED"}
        BY <1>3, <2>1, <3>1 DEF CallOK, Looks
      <4>2. Write!ValidUntil(tx) = Write!ValidUntil(Write!Tx) /\ now <= Write!ValidUntil(tx)
        BY <1>3, <1>5, <3>1 DEF Write!ValidUntil
      <4> QED  BY <1>2, <1>5, <1>7, <2>1, <3>1, <4>1, <4>2 DEF CallOK, Looks, WriteOK, Write!TypeOK, Write!Call
    <3> QED  BY <1>3, <1>5, <2>1, <2>3, <3>1, <3>2, <3>3, <3>4, <3>5 DEF CallOK, Answered
  <2> QED  BY <2>2, <2>3
<1> QED  BY <1>1, <1>2, <1>3, <1>4, <1>8, <1>9, TxGoesOn DEF tx, WriteOK, Write!TypeOK

LEMMA SentKeeps ==
  ASSUME WriteOK, Write!Sent
  PROVE  WriteOK'
<1>1. /\ txs # << >> /\ Write!Tx \in Write!Transaction /\ TxOK(Write!Tx, now) /\ Answered(call, Write!Tx)
      /\ UNCHANGED <<now, sequence>>
  BY LastIsThere DEF Write!Sent, WriteOK, AllOK, Write!Tx, CallOK
<1>2. CASE Write!SendRefused(call.seen)
  <2>1. Write!Tell("refused") /\ call.seen = "ERROR"
    BY <1>2 DEF Write!Sent, Write!SendRefused
  <2>2. [Write!Tx EXCEPT !.verdict = "refused"] \in Write!Transaction
    BY <1>1 DEF Write!Transaction
  <2>3. TxOK([Write!Tx EXCEPT !.verdict = "refused"], now)
    BY <1>1, <2>1 DEF Answered, TxOK, Write!Transaction
  <2> QED  BY <1>1, <2>1, <2>2, <2>3, ToldKeeps
<1>3. CASE ~Write!SendRefused(call.seen)
  <2>1. /\ call' = [Write!At("waiting") EXCEPT !.since = now - PollEvery, !.deadline = now + ConfirmFor]
        /\ txs' = txs
    BY <1>3 DEF Write!Sent
  <2>2. /\ call' \in Write!Call /\ call'.at = "waiting"
        /\ call'.since = now - PollEvery /\ call'.deadline = now + ConfirmFor
    <3> DEFINE w == Write!At("waiting")
    <3>1. w \in Write!Call /\ w.at = "waiting"
      BY DEF Write!At, Write!Call, WriteOK, Write!TypeOK
    <3>2. now - PollEvery \in Int /\ now + ConfirmFor \in Int
      BY WriteAssumption DEF Write!Durations, WriteOK, Write!TypeOK
    <3> HIDE DEF w
    <3>3. call' = [w EXCEPT !.since = now - PollEvery, !.deadline = now + ConfirmFor]
      BY <2>1 DEF w
    <3> QED  BY <3>1, <3>2, <3>3 DEF Write!Call
  <2>3. Waits(call', Write!Tx, now)
    BY <1>1, <2>2, WriteAssumption DEF Waits, TxOK, Write!Durations, WriteOK, Write!TypeOK, Write!Transaction
  <2>4. CallOK(call', Write!Tx, now)
    BY <2>2, <2>3 DEF CallOK
  <2> QED  BY <1>1, <2>1, <2>2, <2>4, CallGoesOn
<1> QED  BY <1>2, <1>3

LEMMA PollKeeps ==
  ASSUME WriteOK, Write!Poll
  PROVE  WriteOK'
<1>1. txs # << >> /\ Waits(call, Write!Tx, now) /\ UNCHANGED <<now, sequence, txs>>
  BY DEF Write!Poll, WriteOK, CallOK
<1>2. /\ call' \in Write!Call /\ call'.at = "polling" /\ call'.since = now
      /\ call'.deadline = call.deadline /\ call'.seen = "none"
  BY DEF Write!Poll, Write!At, Write!Call, WriteOK, Write!TypeOK
<1>3. Looks(call', Write!Tx, now)
  BY <1>1, <1>2, WriteAssumption DEF Waits, Looks, WriteOK, Write!TypeOK, Write!Durations
<1> QED  BY <1>1, <1>2, <1>3, CallGoesOn DEF CallOK

LEMMA LookKeeps ==
  ASSUME WriteOK, Write!Look
  PROVE  WriteOK'
<1>1. /\ txs # << >> /\ Write!Tx \in Write!Transaction /\ Looks(call, Write!Tx, now)
      /\ UNCHANGED <<now, sequence, txs>>
  BY LastIsThere DEF Write!Look, WriteOK, CallOK
<1> DEFINE answer == CASE Write!Tx.fate = "applied" -> "SUCCESS"
                       [] Write!Tx.fate = "failed"  -> "FAILED"
                       [] OTHER               -> "NOT_FOUND"
<1>2. /\ call' = [call EXCEPT !.seen = answer]
      /\ call.at = "polling"
  BY DEF Write!Look
<1>3. /\ answer \in {"SUCCESS", "FAILED", "NOT_FOUND"}
      /\ answer = "SUCCESS" => Write!Tx.fate = "applied"
      /\ answer = "FAILED" => Write!Tx.fate = "failed"
      /\ answer = "NOT_FOUND" => ~Done(Write!Tx)
  BY DEF Done
<1> HIDE DEF answer
<1>4. /\ call' \in Write!Call /\ call'.at = "polling" /\ call'.since = call.since
      /\ call'.deadline = call.deadline /\ call'.seen = answer
  BY <1>2, <1>3 DEF Write!Call, WriteOK, Write!TypeOK
<1>5. Looks(call', Write!Tx, now)
  BY <1>1, <1>3, <1>4 DEF Looks
<1> QED  BY <1>1, <1>4, <1>5, CallGoesOn DEF CallOK

LEMMA PolledKeeps ==
  ASSUME WriteOK, Write!Polled
  PROVE  WriteOK'
<1>1. /\ txs # << >> /\ Write!Tx \in Write!Transaction /\ TxOK(Write!Tx, now) /\ Looks(call, Write!Tx, now)
      /\ UNCHANGED <<now, sequence>>
  BY LastIsThere DEF Write!Polled, WriteOK, AllOK, Write!Tx, CallOK
<1>2. call.seen \in {"SUCCESS", "FAILED", "NOT_FOUND"}
  BY <1>1 DEF Write!Polled, Looks
<1>3. CASE call.seen = "SUCCESS"
  <2>1. Write!Tell("success") /\ Write!Tx.fate = "applied"
    BY <1>1, <1>3 DEF Write!Polled, Looks
  <2>2. [Write!Tx EXCEPT !.verdict = "success"] \in Write!Transaction
    BY <1>1 DEF Write!Transaction
  <2>3. TxOK([Write!Tx EXCEPT !.verdict = "success"], now)
    BY <1>1, <2>1 DEF TxOK, Write!Transaction
  <2> QED  BY <1>1, <2>1, <2>2, <2>3, ToldKeeps
<1>4. CASE call.seen = "FAILED"
  <2>1. Write!Tell("failed") /\ Write!Tx.fate = "failed"
    BY <1>1, <1>4 DEF Write!Polled, Looks
  <2>2. [Write!Tx EXCEPT !.verdict = "failed"] \in Write!Transaction
    BY <1>1 DEF Write!Transaction
  <2>3. TxOK([Write!Tx EXCEPT !.verdict = "failed"], now)
    BY <1>1, <2>1 DEF TxOK, Write!Transaction
  <2> QED  BY <1>1, <2>1, <2>2, <2>3, ToldKeeps
<1>5. CASE call.seen = "NOT_FOUND"
  <2>1. call' = Write!At("waiting") /\ txs' = txs
    BY <1>5 DEF Write!Polled
  <2>2. /\ call' \in Write!Call /\ call'.at = "waiting"
        /\ call'.since = now /\ call'.deadline = call.deadline
    BY <2>1 DEF Write!At, Write!Call, WriteOK, Write!TypeOK
  <2>3. Done(Write!Tx) => call.since <= Write!ValidUntil(Write!Tx)
    BY <1>1, <1>5 DEF Looks
  <2>4. Waits(call', Write!Tx, now)
    <3>1. /\ now \in Int /\ call.since \in Int /\ call.deadline \in Int /\ Write!Tx.built \in Int
          /\ {ValidFor, RequestTimeout, PollEvery, ConfirmFor} \subseteq Nat
          /\ ValidFor + RequestTimeout + PollEvery < ConfirmFor
      BY <1>1, WriteAssumption DEF WriteOK, Write!TypeOK, Write!Call, Write!Transaction, Write!Durations
    <3>2. /\ now <= call.since + RequestTimeout
          /\ call.deadline >= Write!Tx.built + ConfirmFor
      BY <1>1 DEF Looks
    <3>3. Done(Write!Tx) => now + PollEvery < call.deadline
      BY <2>3, <3>1, <3>2 DEF Write!ValidUntil
    <3> QED  BY <2>2, <3>1, <3>2, <3>3 DEF Waits
  <2>5. CallOK(call', Write!Tx, now)
    BY <2>2, <2>4 DEF CallOK
  <2> QED  BY <1>1, <2>1, <2>2, <2>5, CallGoesOn
<1> QED  BY <1>2, <1>3, <1>4, <1>5

LEMMA PollRetriedKeeps ==
  ASSUME WriteOK, Write!PollRetried
  PROVE  WriteOK'
<1>1. txs # << >> /\ Looks(call, Write!Tx, now) /\ UNCHANGED <<now, sequence, txs>>
  BY DEF Write!PollRetried, WriteOK, CallOK
<1>2. /\ call' = [call EXCEPT !.seen = "none", !.since = now, !.attempt = call.attempt + 1]
      /\ call.at = "polling"
  BY DEF Write!PollRetried
<1>3. call \in Write!Call /\ now \in Int /\ call.attempt + 1 \in Nat
  BY DEF WriteOK, Write!TypeOK, Write!Call
<1>4. /\ call' \in Write!Call /\ call'.at = "polling" /\ call'.since = now
      /\ call'.deadline = call.deadline /\ call'.seen = "none"
  BY <1>2, <1>3 DEF Write!Call
<1>5. Looks(call', Write!Tx, now)
  BY <1>1, <1>4, WriteAssumption DEF Looks, WriteOK, Write!TypeOK, Write!Durations
<1> QED  BY <1>1, <1>4, <1>5, CallGoesOn DEF CallOK

(* A confirmation that times out comes after the time bound.               *)
LEMMA GiveUpKeeps ==
  ASSUME WriteOK, Write!GiveUp
  PROVE  WriteOK'
<1>1. /\ txs # << >> /\ Write!Tx \in Write!Transaction /\ TxOK(Write!Tx, now) /\ Waits(call, Write!Tx, now)
      /\ UNCHANGED <<now, sequence>>
      /\ Write!Tell("unconfirmed")
      /\ now >= call.deadline
  BY LastIsThere DEF Write!GiveUp, Write!Deadline, WriteOK, AllOK, Write!Tx, CallOK
<1>2. ~Done(Write!Tx)
  BY <1>1, WriteAssumption DEF Waits, Write!Durations, WriteOK, Write!TypeOK, Write!Call
<1>3. now > Write!Tx.built + ValidFor
  BY <1>1, WriteAssumption DEF Waits, Write!Durations, WriteOK, Write!TypeOK, Write!Call, Write!Transaction
<1>4. [Write!Tx EXCEPT !.verdict = "unconfirmed"] \in Write!Transaction
  BY <1>1 DEF Write!Transaction
<1>5. TxOK([Write!Tx EXCEPT !.verdict = "unconfirmed"], now)
  BY <1>1, <1>2, <1>3 DEF TxOK, Write!Transaction, Done, Write!ValidUntil
<1> QED  BY <1>1, <1>4, <1>5, ToldKeeps

LEMMA RequestFailsKeeps ==
  ASSUME WriteOK, Write!RequestFails
  PROVE  WriteOK'
<1>1. /\ txs # << >> /\ Write!Tx \in Write!Transaction /\ TxOK(Write!Tx, now)
      /\ UNCHANGED <<now, sequence>> /\ Write!Tell("unknown")
  BY LastIsThere DEF Write!RequestFails, WriteOK, AllOK, Write!Tx
<1>2. [Write!Tx EXCEPT !.verdict = "unknown"] \in Write!Transaction
  BY <1>1 DEF Write!Transaction
<1>3. TxOK([Write!Tx EXCEPT !.verdict = "unknown"], now)
  BY <1>1 DEF TxOK, Write!Transaction
<1> QED  BY <1>1, <1>2, <1>3, ToldKeeps

LEMMA TickKeeps ==
  ASSUME WriteOK, Write!Tick
  PROVE  WriteOK'
<1>1. now' = now + 1 /\ UNCHANGED <<sequence, txs, call>> /\ now \in Nat
  BY DEF Write!Tick, WriteOK, Write!TypeOK
<1>2. Write!TypeOK'
  BY <1>1 DEF WriteOK, Write!TypeOK
<1>3. AllOK'
  <2>1. ASSUME NEW tx \in Write!Transaction, TxOK(tx, now)
        PROVE  TxOK(tx, now + 1)
    BY <1>1, <2>1, WriteAssumption DEF TxOK, Write!Transaction, Write!ValidUntil, Write!Durations
  <2> QED  BY <1>1, <2>1 DEF AllOK, WriteOK, Write!TypeOK
<1>4. ASSUME call.at # "idle"
      PROVE  txs # << >> /\ CallOK(call, Write!Tx, now + 1)
  <2>1. txs # << >> /\ CallOK(call, Write!Tx, now)
    BY <1>4 DEF WriteOK
  <2>2. call.at = "waiting" => Waits(call, Write!Tx, now + 1)
    BY <1>1, <2>1, WriteAssumption DEF Write!Tick, CallOK, Waits, Write!Durations, WriteOK, Write!TypeOK, Write!Call
  <2>3. call.at = "polling" => Looks(call, Write!Tx, now + 1)
    BY <1>1, <2>1, WriteAssumption DEF Write!Tick, CallOK, Looks, Write!Durations, WriteOK, Write!TypeOK, Write!Call
  <2> QED  BY <2>1, <2>2, <2>3 DEF CallOK
<1> QED  BY <1>1, <1>2, <1>3, <1>4 DEF WriteOK, Write!Tx, Write!Last

------------------------------------------------------------------------------

LEMMA WriteStarts ==
  ASSUME Write!Init
  PROVE  WriteOK
BY DEF Write!Init, Write!Idle, WriteOK, Write!TypeOK, AllOK, Write!Call

LEMMA WriteKeeps ==
  ASSUME WriteOK, [Write!Next]_(Write!vars)
  PROVE  WriteOK'
<1>1. ASSUME NEW i \in DOMAIN txs,
             NEW reply \in {"PENDING", "DUPLICATE", "TRY_AGAIN_LATER", "ERROR"},
             Write!Arrive(i, reply)
      PROVE  WriteOK'
  BY <1>1, ArriveKeeps
<1>2. ASSUME NEW i \in DOMAIN txs, Write!Apply(i)
      PROVE  WriteOK'
  BY <1>2, ApplyKeeps
<1>3. CASE UNCHANGED Write!vars
  BY <1>3 DEF Write!vars, WriteOK, Write!TypeOK, AllOK, Write!Tx, Write!Last
<1> QED  BY <1>1, <1>2, <1>3, BuildKeeps, ConnectedKeeps, WalletFailsKeeps, SendKeeps, SentKeeps,
            PollKeeps, LookKeeps, PolledKeeps, PollRetriedKeeps, GiveUpKeeps, RequestFailsKeeps,
            TickKeeps
        DEF Write!Next

LEMMA WriteSuffices ==
  ASSUME WriteOK
  PROVE  VerdictsAreTrue
BY DEF WriteOK, AllOK, TxOK, VerdictsAreTrue, Write!VerdictsAreTrue, Done

(* The records are what they should be, at every step of a write.          *)
THEOREM WriteTypeOK == Write!Spec => []Write!TypeOK
<1>1. WriteOK => Write!TypeOK
  BY DEF WriteOK
<1> QED  BY <1>1, WriteStarts, WriteKeeps, PTL DEF Write!Spec

(* Whatever the caller is told of a write stays true, however the network  *)
(* delays, drops and answers, for all durations that fit each other.       *)
THEOREM VerdictsHold == Write!Spec => []VerdictsAreTrue
  BY WriteStarts, WriteKeeps, WriteSuffices, PTL DEF Write!Spec

------------------------------------------------------------------------------
(* The actions of a proposal.                                              *)

Statuses == {"Queued", "Executed", "Vetoed", "Expired"}
Worlds   == [status : [Ids -> Statuses], allowed : SUBSET Target, paused : BOOLEAN,
             effects : [Ids -> Seq(Nat)]]
Execution == [id : Ids, next : Nat, running : BOOLEAN, before : Worlds]

DispatchTypeOK ==
  /\ status \in [Ids -> Statuses]
  /\ allowed \in SUBSET Target
  /\ paused \in BOOLEAN
  /\ effects \in [Ids -> Seq(Nat)]
  /\ stack \in Seq(Execution)

(* A proposal's status "st" and effects "ef" agree, with the first "n"     *)
(* executions of "s" in progress.                                          *)
Accounted(st, ef, s, n) ==
  /\ \A i \in 1..n : st[s[i].id] = "Executed" /\ ef[s[i].id] = Dispatch!UpTo(s[i].next - 1)
  /\ \A id \in Ids :
       (\A i \in 1..n : s[i].id # id)
         => ef[id] = IF st[id] = "Executed" THEN Dispatch!UpTo(Len(Actions[id])) ELSE << >>

(* An execution has run no more than there is, is of a proposal no other   *)
(* is of, and goes back, if it fails, to a world where all was well with   *)
(* those it is nested in.                                                  *)
Nested(s, i) ==
  /\ s[i].next \in 1 .. Len(Actions[s[i].id]) + 1
  /\ s[i].running => s[i].next <= Len(Actions[s[i].id])
  /\ \A j \in 1 .. i - 1 : s[j].id # s[i].id
  /\ Accounted(s[i].before.status, s[i].before.effects, s, i - 1)

DispatchOK ==
  /\ DispatchTypeOK
  /\ Accounted(status, effects, stack, Len(stack))
  /\ \A i \in DOMAIN stack : Nested(stack, i)

LEMMA UpToNothing == Dispatch!UpTo(0) = << >>
  BY DEF Dispatch!UpTo

LEMMA UpToNext ==
  ASSUME NEW n \in Nat \ {0}
  PROVE  /\ Dispatch!UpTo(n - 1) \in Seq(Nat)
         /\ Append(Dispatch!UpTo(n - 1), n) = Dispatch!UpTo(n)
  BY DEF Dispatch!UpTo

LEMMA WithoutLast ==
  ASSUME NEW S, NEW s \in Seq(S), s # << >>
  PROVE  /\ SubSeq(s, 1, Len(s) - 1) \in Seq(S)
         /\ Len(SubSeq(s, 1, Len(s) - 1)) = Len(s) - 1
         /\ DOMAIN SubSeq(s, 1, Len(s) - 1) = 1 .. Len(s) - 1
         /\ \A i \in 1 .. Len(s) - 1 : SubSeq(s, 1, Len(s) - 1)[i] = s[i]
<1> DEFINE n == Len(s) - 1
           f == SubSeq(s, 1, Len(s) - 1)
<1>1. n \in Nat /\ \A i \in 1..n : i \in 1 .. Len(s) /\ s[i] \in S
  OBVIOUS
<1>2. f = [i \in 1..n |-> s[i]]
  BY <1>1
<1> HIDE DEF f
<1>3. f \in Seq(S) /\ Len(f) = n /\ DOMAIN f = 1..n /\ \A i \in 1..n : f[i] = s[i]
  BY <1>1, <1>2
<1> QED  BY <1>3 DEF f

LEMMA LengthOfActions ==
  ASSUME NEW id \in Ids
  PROVE  Len(Actions[id]) \in Nat
  BY DispatchAssumption

LEMMA DispatchTypes ==
  ASSUME DispatchOK
  PROVE  /\ stack \in Seq(Execution) /\ Len(stack) \in Nat /\ DOMAIN stack = 1 .. Len(stack)
         /\ \A i \in DOMAIN stack :
              /\ i \in Nat \ {0}
              /\ stack[i] \in Execution /\ stack[i].id \in Ids /\ stack[i].next \in Nat
              /\ stack[i].before \in Worlds
<1>1. stack \in Seq(Execution)
  BY DEF DispatchOK, DispatchTypeOK
<1>2. /\ Len(stack) \in Nat /\ DOMAIN stack = 1 .. Len(stack)
      /\ \A i \in DOMAIN stack : i \in Nat \ {0} /\ stack[i] \in Execution
  BY <1>1
<1>3. \A e \in Execution : e.id \in Ids /\ e.next \in Nat /\ e.before \in Worlds
  BY DEF Execution
<1> QED  BY <1>1, <1>2, <1>3

(* What is accounted for depends on the ids and positions of executions.   *)
LEMMA AccountedBySame ==
  ASSUME NEW st, NEW ef, NEW s, NEW z, NEW n \in Nat,
         \A i \in 1..n : z[i].id = s[i].id /\ z[i].next = s[i].next,
         Accounted(st, ef, s, n)
  PROVE  Accounted(st, ef, z, n)
  BY DEF Accounted

LEMMA NestedBySame ==
  ASSUME NEW s, NEW z, NEW i \in Nat \ {0}, Nested(s, i), z[i] = s[i],
         \A j \in 1 .. i - 1 : z[j].id = s[j].id /\ z[j].next = s[j].next
  PROVE  Nested(z, i)
  BY AccountedBySame, i - 1 \in Nat DEF Nested

LEMMA TopIsThere ==
  ASSUME DispatchOK, stack # << >>
  PROVE  /\ Len(stack) \in DOMAIN stack
         /\ Len(stack) \in Nat \ {0}
         /\ Dispatch!Top = stack[Len(stack)]
         /\ Dispatch!Top \in Execution
         /\ Nested(stack, Len(stack))
  BY DEF DispatchOK, DispatchTypeOK, Dispatch!Top

(* The innermost execution ends, with the world "st" and "ef".             *)
LEMMA Popped ==
  ASSUME DispatchOK, stack # << >>, stack' = Dispatch!Outer,
         status' \in [Ids -> Statuses], allowed' \in SUBSET Target, paused' \in BOOLEAN,
         effects' \in [Ids -> Seq(Nat)],
         Accounted(status', effects', stack, Len(stack) - 1)
  PROVE  DispatchOK'
<1>1. /\ stack' \in Seq(Execution)
      /\ Len(stack') = Len(stack) - 1
      /\ DOMAIN stack' = 1 .. Len(stack) - 1
      /\ \A i \in DOMAIN stack' : i \in DOMAIN stack /\ i \in Nat \ {0}
      /\ \A i \in 1 .. Len(stack) - 1 : stack'[i] = stack[i]
      /\ Len(stack) - 1 \in Nat
  <2>1. stack \in Seq(Execution)
    BY DispatchTypes
  <2> QED  BY <2>1, WithoutLast DEF Dispatch!Outer
<1>2. Accounted(status', effects', stack', Len(stack'))
  BY <1>1, AccountedBySame
<1>3. ASSUME NEW i \in DOMAIN stack'
      PROVE  Nested(stack', i)
  <2>1. Nested(stack, i)
    BY <1>1, <1>3 DEF DispatchOK
  <2>2. i \in Nat \ {0} /\ stack'[i] = stack[i] /\ i \in 1 .. Len(stack) - 1
    BY <1>1, <1>3
  <2>3. \A j \in 1 .. i - 1 : j \in 1 .. Len(stack) - 1
    BY <1>1, <2>2
  <2>4. \A j \in 1 .. i - 1 : stack'[j] = stack[j]
    BY <1>1, <2>3
  <2> QED  BY <2>1, <2>2, <2>4, NestedBySame
<1> QED  BY <1>1, <1>2, <1>3 DEF DispatchOK, DispatchTypeOK

(* The innermost execution goes on.                                        *)
LEMMA TopGoesOn ==
  ASSUME DispatchOK, stack # << >>, NEW e \in Execution,
         stack' = [stack EXCEPT ![Len(stack)] = e],
         e.id = Dispatch!Top.id, e.before = Dispatch!Top.before,
         e.next \in 1 .. Len(Actions[e.id]) + 1,
         e.running => e.next <= Len(Actions[e.id]),
         UNCHANGED <<status, allowed, paused>>,
         effects' = [effects EXCEPT ![e.id] = Dispatch!UpTo(e.next - 1)]
  PROVE  DispatchOK'
<1> DEFINE n == Len(stack)
<1>1. n \in DOMAIN stack /\ n \in Nat \ {0} /\ Dispatch!Top = stack[n] /\ Nested(stack, n)
  BY TopIsThere
<1>2. /\ stack' \in Seq(Execution) /\ Len(stack') = n /\ DOMAIN stack' = DOMAIN stack
      /\ stack'[n] = e
      /\ \A i \in 1 .. n - 1 : stack'[i] = stack[i]
      /\ DOMAIN stack = 1..n
  <2>1. stack \in Seq(Execution) /\ DOMAIN stack = 1..n
    BY DispatchTypes
  <2> DEFINE z == [stack EXCEPT ![n] = e]
  <2>2. DOMAIN z = DOMAIN stack /\ z[n] = e /\ \A i \in DOMAIN stack \ {n} : z[i] = stack[i]
    BY <1>1
  <2>3. z \in Seq(Execution) /\ Len(z) = n
    BY <1>1, <2>1
  <2>4. stack' = z
    OBVIOUS
  <2> HIDE DEF z
  <2>5. /\ stack' \in Seq(Execution) /\ Len(stack') = n /\ DOMAIN stack' = DOMAIN stack
        /\ stack'[n] = e /\ DOMAIN stack = 1..n
    BY <2>1, <2>2, <2>3, <2>4
  <2> HIDE DEF n
  <2>6. ASSUME NEW i \in 1 .. n - 1
        PROVE  stack'[i] = stack[i]
    <3>1. i \in DOMAIN stack \ {n}
      BY <1>1, <2>1
    <3> QED  BY <2>2, <2>4, <3>1
  <2> QED  BY <2>5, <2>6 DEF n
<1> HIDE DEF n
<1>3. \A i \in 1..n : stack'[i].id = stack[i].id
  BY <1>1, <1>2
<1>4. e.id \in Ids /\ effects \in [Ids -> Seq(Nat)] /\ Dispatch!UpTo(e.next - 1) \in Seq(Nat)
  <2>1. e.id \in Ids
    BY DEF Execution
  <2>2. e.next \in Nat \ {0}
    BY <2>1, LengthOfActions
  <2> QED  BY <2>1, <2>2, UpToNext DEF DispatchOK, DispatchTypeOK
<1>5. /\ effects' \in [Ids -> Seq(Nat)]
      /\ effects'[e.id] = Dispatch!UpTo(e.next - 1)
      /\ \A id \in Ids \ {e.id} : effects'[id] = effects[id]
  BY <1>4
<1>6. Accounted(status', effects', stack', n)
  <2>1. Accounted(status, effects, stack, n)
    BY DEF DispatchOK, n
  <2>2. \A i \in 1 .. n - 1 : stack[i].id # e.id /\ stack[i].id \in Ids
    BY <1>1, <1>2, DispatchTypes DEF Nested
  <2>3. \A i \in 1..n : status[stack[i].id] = "Executed"
    BY <2>1 DEF Accounted
  <2>4. ASSUME NEW i \in 1..n
        PROVE  status'[stack'[i].id] = "Executed" /\ effects'[stack'[i].id] = Dispatch!UpTo(stack'[i].next - 1)
    <3>1. CASE i = n
      BY <1>1, <1>2, <1>5, <2>3, <3>1
    <3>2. CASE i \in 1 .. n - 1
      BY <1>2, <1>5, <2>1, <2>2, <3>2 DEF Accounted
    <3> QED  BY <1>1, <3>1, <3>2
  <2>5. ASSUME NEW id \in Ids, \A i \in 1..n : stack'[i].id # id
        PROVE  effects'[id] = IF status'[id] = "Executed" THEN Dispatch!UpTo(Len(Actions[id])) ELSE << >>
    <3>1. id # e.id /\ \A i \in 1..n : stack[i].id # id
      BY <1>1, <1>2, <1>3, <2>5
    <3> QED  BY <1>5, <2>1, <3>1 DEF Accounted
  <2> QED  BY <2>4, <2>5 DEF Accounted
<1>7. ASSUME NEW i \in DOMAIN stack
      PROVE  Nested(stack', i)
  <2>1. Nested(stack, i) /\ i \in Nat \ {0} /\ i \in 1..n
    BY <1>2 DEF DispatchOK
  <2>2. CASE i = n
    <3>1. Accounted(e.before.status, e.before.effects, stack, n - 1) /\ n - 1 \in Nat
      BY <1>1 DEF Nested
    <3>2. Accounted(e.before.status, e.before.effects, stack', n - 1)
      BY <1>2, <3>1, AccountedBySame
    <3>3. \A j \in 1 .. n - 1 : stack'[j].id # e.id
      BY <1>1, <1>2 DEF Nested
    <3> QED  BY <1>2, <2>2, <3>2, <3>3 DEF Nested
  <2>3. CASE i # n
    <3>1. stack'[i] = stack[i] /\ \A j \in 1 .. i - 1 : stack'[j] = stack[j]
      BY <1>1, <1>2, <2>1, <2>3
    <3> QED  BY <2>1, <3>1, NestedBySame
  <2> QED  BY <2>2, <2>3
<1> QED  BY <1>2, <1>5, <1>6, <1>7 DEF DispatchOK, DispatchTypeOK, n

(* Statuses and effects keep what is accounted for, and the stack stays.   *)
LEMMA StackStays ==
  ASSUME DispatchOK, stack' = stack, effects' = effects,
         status' \in [Ids -> Statuses], allowed' \in SUBSET Target, paused' \in BOOLEAN,
         \A id \in Ids :
           status'[id] = status[id] \/ (status[id] = "Queued" /\ status'[id] # "Executed")
  PROVE  DispatchOK'
<1>1. Accounted(status, effects, stack, Len(stack))
  BY DEF DispatchOK
<1>2. \A i \in DOMAIN stack : status'[stack[i].id] = status[stack[i].id]
  BY <1>1, DispatchTypes DEF Accounted
<1>3. Accounted(status', effects, stack, Len(stack))
  BY <1>1, <1>2, DispatchTypes DEF Accounted
<1> QED  BY <1>3 DEF DispatchOK, DispatchTypeOK

LEMMA ExecuteKeeps ==
  ASSUME DispatchOK, NEW id \in Ids, Dispatch!Execute(id)
  PROVE  DispatchOK'
<1> DEFINE e == [id |-> id, next |-> 1, running |-> FALSE, before |-> Dispatch!World]
           n == Len(stack)
<1>1. /\ status[id] = "Queued"
      /\ status' = [status EXCEPT ![id] = "Executed"]
      /\ stack' = Append(stack, e)
      /\ UNCHANGED <<allowed, paused, effects>>
  BY DEF Dispatch!Execute, Dispatch!settings
<1>2. Dispatch!World \in Worlds /\ e \in Execution
  BY DEF Dispatch!World, Worlds, Execution, DispatchOK, DispatchTypeOK
<1>3. e.id = id /\ e.next = 1 /\ ~e.running /\ e.before.status = status /\ e.before.effects = effects
  BY DEF Dispatch!World
<1> HIDE DEF e
<1>4. /\ stack' \in Seq(Execution) /\ Len(stack') = n + 1 /\ DOMAIN stack' = 1 .. n + 1
      /\ n \in Nat /\ DOMAIN stack = 1..n
      /\ stack'[n + 1] = e
      /\ \A i \in 1..n : stack'[i] = stack[i]
  <2>1. stack \in Seq(Execution)
    BY DispatchTypes
  <2> QED  BY <1>1, <1>2, <2>1
<1>5. Accounted(status, effects, stack, n)
  BY DEF DispatchOK
<1>6. /\ status' \in [Ids -> Statuses] /\ status'[id] = "Executed"
      /\ \A x \in Ids \ {id} : status'[x] = status[x]
  BY <1>1 DEF DispatchOK, DispatchTypeOK, Statuses
<1>7. \A i \in 1..n : stack[i].id # id /\ stack[i].id \in Ids
  BY <1>1, <1>4, <1>5, DispatchTypes DEF Accounted
<1> HIDE DEF n
<1>8. effects[id] = Dispatch!UpTo(0)
  BY <1>1, <1>5, <1>7, UpToNothing DEF Accounted
<1>9. Accounted(status', effects', stack', n + 1)
  <2>1. ASSUME NEW i \in 1 .. n + 1
        PROVE  status'[stack'[i].id] = "Executed" /\ effects'[stack'[i].id] = Dispatch!UpTo(stack'[i].next - 1)
    <3>1. CASE i = n + 1
      BY <1>1, <1>3, <1>4, <1>6, <1>8, <3>1
    <3>2. CASE i \in 1..n
      BY <1>1, <1>4, <1>5, <1>6, <1>7, <3>2 DEF Accounted
    <3> QED  BY <1>4, <3>1, <3>2
  <2>2. ASSUME NEW x \in Ids, \A i \in 1 .. n + 1 : stack'[i].id # x
        PROVE  effects'[x] = IF status'[x] = "Executed" THEN Dispatch!UpTo(Len(Actions[x])) ELSE << >>
    <3>1. n + 1 \in 1 .. n + 1 /\ \A i \in 1..n : i \in 1 .. n + 1
      BY <1>4
    <3>2. x # id /\ \A i \in 1..n : stack[i].id # x
      BY <1>3, <1>4, <2>2, <3>1
    <3> QED  BY <1>1, <1>5, <1>6, <3>2 DEF Accounted
  <2> QED  BY <2>1, <2>2 DEF Accounted
<1>10. ASSUME NEW i \in 1 .. n + 1
       PROVE  Nested(stack', i)
  <2>1. CASE i \in 1..n
    <3>1. Nested(stack, i) /\ i \in Nat \ {0}
      BY <1>4, <2>1 DEF DispatchOK
    <3>2. stack'[i] = stack[i] /\ \A j \in 1 .. i - 1 : stack'[j] = stack[j]
      BY <1>4, <2>1
    <3> QED  BY <3>1, <3>2, NestedBySame
  <2>2. CASE i = n + 1
    <3>1. Accounted(status, effects, stack', n)
      BY <1>4, <1>5, AccountedBySame
    <3>2. \A j \in 1..n : stack'[j].id # id
      BY <1>4, <1>7
    <3>3. 1 \in 1 .. Len(Actions[id]) + 1
      BY LengthOfActions
    <3>4. (n + 1) - 1 = n
      BY <1>4
    <3> QED  BY <1>3, <1>4, <2>2, <3>1, <3>2, <3>3, <3>4 DEF Nested
  <2> QED  BY <1>4, <2>1, <2>2
<1> QED  BY <1>1, <1>4, <1>6, <1>9, <1>10 DEF DispatchOK, DispatchTypeOK

LEMMA InvokeKeeps ==
  ASSUME DispatchOK, Dispatch!Invoke
  PROVE  DispatchOK'
<1> DEFINE n == Len(stack)
           e == [stack[n] EXCEPT !.running = TRUE]
<1>1. /\ stack # << >> /\ stack[n].next <= Len(Actions[stack[n].id])
      /\ stack' = [stack EXCEPT ![n] = e]
      /\ UNCHANGED <<status, allowed, paused, effects>>
  BY TopIsThere DEF Dispatch!Invoke, Dispatch!settings
<1>2. n \in DOMAIN stack /\ Dispatch!Top = stack[n] /\ stack[n] \in Execution /\ Nested(stack, n)
  BY <1>1, TopIsThere
<1>3. e \in Execution /\ e.id = stack[n].id /\ e.before = stack[n].before /\ e.next = stack[n].next
  BY <1>2 DEF Execution
<1>4. effects[e.id] = Dispatch!UpTo(e.next - 1) /\ effects' = [effects EXCEPT ![e.id] = effects[e.id]]
  BY <1>1, <1>2, <1>3, DispatchTypes DEF DispatchOK, DispatchTypeOK, Accounted
<1>5. e.next \in 1 .. Len(Actions[e.id]) + 1
  BY <1>2, <1>3 DEF Nested
<1> HIDE DEF e
<1> QED  BY <1>1, <1>2, <1>3, <1>4, <1>5, TopGoesOn DEF n

LEMMA SucceedKeeps ==
  ASSUME DispatchOK, Dispatch!Succeed
  PROVE  DispatchOK'
<1> DEFINE n == Len(stack)
           e == [stack[n] EXCEPT !.running = FALSE, !.next = stack[n].next + 1]
<1>1. stack # << >> /\ stack[n].running
  BY TopIsThere DEF Dispatch!Succeed
<1>2. n \in DOMAIN stack /\ Dispatch!Top = stack[n] /\ stack[n] \in Execution /\ Nested(stack, n)
  BY <1>1, TopIsThere
<1>3. /\ stack' = [stack EXCEPT ![n] = e]
      /\ effects' = [effects EXCEPT ![stack[n].id] = Append(effects[stack[n].id], stack[n].next)]
      /\ UNCHANGED <<status, allowed, paused>>
  BY <1>2 DEF Dispatch!Succeed, Dispatch!settings
<1>4. /\ e \in Execution /\ e.id = stack[n].id /\ e.before = stack[n].before
      /\ e.next = stack[n].next + 1 /\ ~e.running
  <2>1. ASSUME NEW x \in Execution, NEW k \in Nat
        PROVE  LET y == [x EXCEPT !.running = FALSE, !.next = k]
               IN  /\ y \in Execution /\ y.id = x.id /\ y.before = x.before
                   /\ y.next = k /\ ~y.running
    BY DEF Execution
  <2>2. stack[n].next + 1 \in Nat
    BY <1>2, DispatchTypes
  <2> QED  BY <1>2, <2>1, <2>2
<1>5. /\ stack[n].next \in Nat \ {0} /\ Len(Actions[e.id]) \in Nat
      /\ stack[n].next <= Len(Actions[e.id]) /\ e.next \in 1 .. Len(Actions[e.id]) + 1
  <2>1. e.id \in Ids
    BY <1>4 DEF Execution
  <2> HIDE DEF e
  <2> QED  BY <1>1, <1>2, <1>4, <2>1, LengthOfActions DEF Nested
<1> HIDE DEF e
<1>6. effects[e.id] = Dispatch!UpTo(stack[n].next - 1)
  BY <1>2, <1>4, DispatchTypes DEF DispatchOK, Accounted
<1>7. Append(effects[e.id], stack[n].next) = Dispatch!UpTo(e.next - 1)
  <2>1. e.next - 1 = stack[n].next
    BY <1>4, <1>5
  <2> QED  BY <1>5, <1>6, <2>1, UpToNext
<1> QED  BY <1>1, <1>2, <1>3, <1>4, <1>5, <1>7, TopGoesOn DEF n

LEMMA FailKeeps ==
  ASSUME DispatchOK, Dispatch!Fail
  PROVE  DispatchOK'
<1> DEFINE b == stack[Len(stack)].before
<1>1. stack # << >> /\ stack' = Dispatch!Outer
  BY DEF Dispatch!Fail
<1>2. /\ Dispatch!Top = stack[Len(stack)] /\ Nested(stack, Len(stack))
      /\ Len(stack) \in DOMAIN stack /\ b \in Worlds
  BY <1>1, TopIsThere, DispatchTypes
<1>3. status' = b.status /\ allowed' = b.allowed /\ paused' = b.paused /\ effects' = b.effects
  BY <1>2 DEF Dispatch!Fail
<1>4. /\ b.status \in [Ids -> Statuses] /\ b.allowed \in SUBSET Target /\ b.paused \in BOOLEAN
      /\ b.effects \in [Ids -> Seq(Nat)]
  BY <1>2 DEF Worlds
<1>5. Accounted(b.status, b.effects, stack, Len(stack) - 1)
  BY <1>2 DEF Nested
<1> HIDE DEF b
<1> QED  BY <1>1, <1>3, <1>4, <1>5, Popped

LEMMA ReturnKeeps ==
  ASSUME DispatchOK, Dispatch!Return
  PROVE  DispatchOK'
<1> DEFINE n == Len(stack)
<1>1. /\ stack # << >> /\ stack' = Dispatch!Outer
      /\ UNCHANGED <<status, allowed, paused, effects>>
  BY DEF Dispatch!Return, Dispatch!settings
<1>2. /\ Dispatch!Top = stack[n] /\ Nested(stack, n) /\ n \in DOMAIN stack /\ n \in Nat \ {0}
      /\ stack[n].id \in Ids /\ stack[n].next \in Nat
  BY <1>1, TopIsThere, DispatchTypes
<1>3. stack[n].next - 1 = Len(Actions[stack[n].id])
  BY <1>2, LengthOfActions DEF Dispatch!Return, Nested
<1>4. Accounted(status, effects, stack, n)
  BY DEF DispatchOK
<1> HIDE DEF n
<1>5. /\ status[stack[n].id] = "Executed"
      /\ effects[stack[n].id] = Dispatch!UpTo(Len(Actions[stack[n].id]))
  BY <1>2, <1>3, <1>4 DEF Accounted
<1>6. \A i \in 1..n : i = n \/ i \in 1 .. n - 1
  BY <1>2
<1>7. \A i \in 1 .. n - 1 : i \in 1..n
  BY <1>2
<1>8. Accounted(status, effects, stack, n - 1)
  <2>1. ASSUME NEW id \in Ids, \A i \in 1 .. n - 1 : stack[i].id # id
        PROVE  effects[id] = IF status[id] = "Executed" THEN Dispatch!UpTo(Len(Actions[id])) ELSE << >>
    <3>1. CASE id = stack[n].id
      BY <1>5, <3>1
    <3>2. CASE id # stack[n].id
      <4>1. \A i \in 1..n : stack[i].id # id
        BY <1>6, <2>1, <3>2
      <4> QED  BY <1>4, <4>1 DEF Accounted
    <3> QED  BY <3>1, <3>2
  <2>2. \A i \in 1 .. n - 1 : status[stack[i].id] = "Executed" /\ effects[stack[i].id] = Dispatch!UpTo(stack[i].next - 1)
    BY <1>4, <1>7 DEF Accounted
  <2> QED  BY <2>1, <2>2 DEF Accounted
<1>9. /\ status' \in [Ids -> Statuses] /\ allowed' \in SUBSET Target /\ paused' \in BOOLEAN
      /\ effects' \in [Ids -> Seq(Nat)]
  BY <1>1 DEF DispatchOK, DispatchTypeOK
<1> QED  BY <1>1, <1>8, <1>9, Popped DEF n

LEMMA DispatchKeeps ==
  ASSUME DispatchOK, [Dispatch!Next]_(Dispatch!vars)
  PROVE  DispatchOK'
<1>1. ASSUME NEW id \in Ids, Dispatch!Veto(id) \/ Dispatch!MarkExpired(id)
      PROVE  DispatchOK'
  <2>1. /\ status[id] = "Queued"
        /\ status' = [status EXCEPT ![id] = "Vetoed"] \/ status' = [status EXCEPT ![id] = "Expired"]
        /\ UNCHANGED <<allowed, paused, effects, stack>>
    BY <1>1 DEF Dispatch!Veto, Dispatch!MarkExpired, Dispatch!settings
  <2>2. /\ status' \in [Ids -> Statuses]
        /\ \A x \in Ids : \/ status'[x] = status[x]
                          \/ status[x] = "Queued" /\ status'[x] # "Executed"
    BY <2>1 DEF DispatchOK, DispatchTypeOK, Statuses
  <2>3. allowed' \in SUBSET Target /\ paused' \in BOOLEAN
    BY <2>1 DEF DispatchOK, DispatchTypeOK
  <2> QED  BY <2>1, <2>2, <2>3, StackStays
<1>2. CASE \/ \E id \in Ids : Dispatch!Age(id)
           \/ \E t \in Target, isAllowed \in BOOLEAN : Dispatch!SetTargetAllowed(t, isAllowed)
           \/ \E isPaused \in BOOLEAN : Dispatch!Pause(isPaused)
           \/ UNCHANGED Dispatch!vars
  <2>1. UNCHANGED <<status, effects, stack>>
    BY <1>2 DEF Dispatch!Age, Dispatch!SetTargetAllowed, Dispatch!Pause, Dispatch!vars, Dispatch!settings
  <2>2. allowed' \in SUBSET Target /\ paused' \in BOOLEAN
    BY <1>2 DEF Dispatch!Age, Dispatch!SetTargetAllowed, Dispatch!Pause, Dispatch!vars,
                Dispatch!settings, DispatchOK, DispatchTypeOK
  <2> QED  BY <2>1, <2>2, StackStays DEF DispatchOK, DispatchTypeOK
<1> QED  BY <1>1, <1>2, ExecuteKeeps, InvokeKeeps, SucceedKeeps, FailKeeps, ReturnKeeps
         DEF Dispatch!Next

LEMMA DispatchStarts ==
  ASSUME Dispatch!Init
  PROVE  DispatchOK
<1>1. DispatchTypeOK
  <2>1. status \in [Ids -> Statuses]
    BY DEF Dispatch!Init, Statuses
  <2>2. effects \in [Ids -> Seq(Nat)]
    BY DEF Dispatch!Init
  <2>3. allowed \in SUBSET Target /\ paused \in BOOLEAN
    BY DEF Dispatch!Init
  <2>4. stack \in Seq(Execution)
    BY DEF Dispatch!Init
  <2> QED  BY <2>1, <2>2, <2>3, <2>4 DEF DispatchTypeOK
<1>2. stack = << >> /\ Len(stack) = 0 /\ \A i \in 1..0 : FALSE
  BY DEF Dispatch!Init
<1>3. \A id \in Ids : status[id] = "Queued" /\ effects[id] = << >>
  BY DEF Dispatch!Init
<1> QED  BY <1>1, <1>2, <1>3 DEF DispatchOK, Accounted

LEMMA DispatchSuffices ==
  ASSUME DispatchOK
  PROVE  AllOrNothing
<1>1. Accounted(status, effects, stack, Len(stack)) /\ DOMAIN stack = 1 .. Len(stack)
  BY DispatchTypes DEF DispatchOK
<1>2. \A id \in Ids \ {stack[i].id : i \in DOMAIN stack} : \A i \in 1 .. Len(stack) : stack[i].id # id
  BY <1>1
<1> QED  BY <1>1, <1>2 DEF Accounted, AllOrNothing, Dispatch!AllOrNothing

(* However many executions call each other, in whatever order they fail or *)
(* return, and whatever is vetoed, paused or taken off the allowlist       *)
(* meanwhile: the actions of a proposal have run all, in order and once,   *)
(* if it is Executed, and none if it is not.                               *)
THEOREM ActionsRunTogether == Dispatch!Spec => []AllOrNothing
  BY DispatchStarts, DispatchKeeps, DispatchSuffices, PTL DEF Dispatch!Spec

(***************************************************************************)
(* A transaction is a sequence of calls made one after the other, each in  *)
(* one step, as Governor makes them.                                       *)
(***************************************************************************)

(* What one call that is not nested in another does to a world.            *)
AtomicCall(w, v, ages) ==
  \/ \E id \in Ids :
       /\ ~w.paused /\ w.status[id] = "Queued" /\ ages[id] = "due"
       /\ Dispatch!Range(Actions[id]) \subseteq w.allowed
       /\ v = [w EXCEPT !.status[id] = "Executed",
                        !.effects[id] = Dispatch!UpTo(Len(Actions[id]))]
  \/ \E id \in Ids :
       w.status[id] = "Queued" /\ ages[id] = "early" /\ v = [w EXCEPT !.status[id] = "Vetoed"]
  \/ \E id \in Ids :
       w.status[id] = "Queued" /\ ages[id] = "late" /\ v = [w EXCEPT !.status[id] = "Expired"]
  \/ \E t \in Target :
       \/ v = [w EXCEPT !.allowed = w.allowed \cup {t}]
       \/ v = [w EXCEPT !.allowed = w.allowed \ {t}]
  \/ \E isPaused \in BOOLEAN : v = [w EXCEPT !.paused = isPaused]

(* Some number of such calls leads from w to v: v is in every set of       *)
(* worlds that has w and is closed under calls.                            *)
ClosedUnderCalls(R, ages) ==
  \A u \in R, v \in Worlds : AtomicCall(u, v, ages) => v \in R

Runs(w, v, ages) ==
  /\ w \in Worlds /\ v \in Worlds
  /\ \A R \in SUBSET Worlds : w \in R /\ ClosedUnderCalls(R, ages) => v \in R

LEMMA RunsNothing == ASSUME NEW w \in Worlds, NEW ages PROVE Runs(w, w, ages)
  BY DEF Runs

LEMMA RunsOnce ==
  ASSUME NEW w, NEW u, NEW v \in Worlds, NEW ages, Runs(w, u, ages), AtomicCall(u, v, ages)
  PROVE  Runs(w, v, ages)
  BY DEF Runs, ClosedUnderCalls

(* World w, had the executions in progress in it, of the ids S, finished.  *)
Finished(w, S) ==
  [status |-> w.status, allowed |-> w.allowed, paused |-> w.paused,
   effects |-> [id \in Ids |-> IF id \in S THEN Dispatch!UpTo(Len(Actions[id]))
                               ELSE w.effects[id]]]

(* What the host keeps, should the running transaction fail altogether.    *)
Committed == IF stack = << >> THEN Dispatch!World ELSE stack[1].before

Executing(s, n)  == {s[i].id : i \in 1..n}
Serial           == Finished(Dispatch!World, Executing(stack, Len(stack)))
SerialBefore(i)  == Finished(stack[i].before, Executing(stack, i - 1))

(* The running calls have done what calls one after the other do, and so   *)
(* had, before it, each of them that may still fail.                       *)
SerialOK ==
  /\ Runs(Committed, Serial, age)
  /\ \A i \in DOMAIN stack : Runs(Committed, SerialBefore(i), age)

LEMMA FinishedWorld ==
  ASSUME NEW w \in Worlds, NEW S
  PROVE  Finished(w, S) \in Worlds
<1> DEFINE f == [id \in Ids |-> IF id \in S THEN Dispatch!UpTo(Len(Actions[id]))
                               ELSE w.effects[id]]
<1>1. \A id \in Ids : Dispatch!UpTo(Len(Actions[id])) \in Seq(Nat)
  BY LengthOfActions DEF Dispatch!UpTo
<1>2. w.effects \in [Ids -> Seq(Nat)]
  BY DEF Worlds
<1>3. f \in [Ids -> Seq(Nat)]
  BY <1>1, <1>2
<1> HIDE DEF f
<1>4. [status |-> w.status, allowed |-> w.allowed, paused |-> w.paused, effects |-> f] \in Worlds
  BY <1>3 DEF Worlds
<1> QED  BY <1>4 DEF Finished, f

(* With nothing in progress nothing is left to finish.                     *)
LEMMA FinishedNothing ==
  ASSUME NEW w \in Worlds
  PROVE  Finished(w, {}) = w
<1>1. w.effects \in [Ids -> Seq(Nat)]
  BY DEF Worlds
<1>2. w.effects = [id \in Ids |-> w.effects[id]]
  BY <1>1
<1>3. w = [status |-> w.status, allowed |-> w.allowed, paused |-> w.paused, effects |-> w.effects]
  BY DEF Worlds
<1>4. Finished(w, {}) = [status |-> w.status, allowed |-> w.allowed, paused |-> w.paused,
                         effects |-> [id \in Ids |-> w.effects[id]]]
  BY DEF Finished
<1> QED  BY <1>2, <1>3, <1>4

LEMMA WorldIs ==
  ASSUME DispatchOK
  PROVE  /\ Dispatch!World \in Worlds
         /\ Dispatch!World.status = status /\ Dispatch!World.allowed = allowed
         /\ Dispatch!World.paused = paused /\ Dispatch!World.effects = effects
  BY DEF Dispatch!World, Worlds, DispatchOK, DispatchTypeOK

(* The first execution starts from what is committed.                      *)
LEMMA CommittedIs ==
  ASSUME DispatchOK
  PROVE  /\ Committed \in Worlds
         /\ stack = << >> => Committed = Dispatch!World /\ Serial = Committed
<1>1. Dispatch!World \in Worlds
  BY WorldIs
<1>2. CASE stack = << >>
  <2>1. Executing(stack, Len(stack)) = {}
    BY <1>2 DEF Executing
  <2> QED  BY <1>1, <1>2, <2>1, FinishedNothing DEF Committed, Serial
<1>3. CASE stack # << >>
  <2>1. 1 \in DOMAIN stack
    BY <1>3, DispatchTypes
  <2> QED  BY <1>3, <2>1, DispatchTypes DEF Committed
<1> QED  BY <1>2, <1>3

(* The executions in progress are of Executed proposals.                   *)
LEMMA ExecutingIsExecuted ==
  ASSUME DispatchOK, NEW id \in Executing(stack, Len(stack))
  PROVE  id \in Ids /\ status[id] = "Executed"
<1>1. Accounted(status, effects, stack, Len(stack)) /\ DOMAIN stack = 1 .. Len(stack)
  BY DispatchTypes DEF DispatchOK
<1> QED  BY <1>1, DispatchTypes DEF Executing, Accounted

LEMMA SerialIs ==
  ASSUME DispatchOK
  PROVE  /\ Serial \in Worlds
         /\ Serial.status = status /\ Serial.allowed = allowed /\ Serial.paused = paused
         /\ \A id \in Ids : Serial.effects[id] =
              IF id \in Executing(stack, Len(stack)) THEN Dispatch!UpTo(Len(Actions[id]))
              ELSE effects[id]
<1>1. Serial \in Worlds
  BY WorldIs, FinishedWorld DEF Serial
<1> QED  BY <1>1, WorldIs DEF Serial, Finished

(* The same of the next state.                                             *)
LEMMA DispatchTypesAfter ==
  ASSUME DispatchOK'
  PROVE  Len(stack') \in Nat /\ DOMAIN stack' = 1 .. Len(stack')
<1>1. stack' \in Seq(Execution)
  BY DEF DispatchOK, DispatchTypeOK
<1> QED  BY <1>1

LEMMA CommittedAfter ==
  ASSUME DispatchOK', stack' = << >>
  PROVE  Committed' \in Worlds /\ Committed' = Serial'
<1>1. Dispatch!World' \in Worlds
  BY DEF Dispatch!World, Worlds, DispatchOK, DispatchTypeOK
<1>2. Executing(stack', Len(stack')) = {}
  BY DEF Executing
<1>3. Finished(Dispatch!World', {}) = Dispatch!World'
  BY <1>1, FinishedNothing
<1> QED  BY <1>1, <1>2, <1>3 DEF Committed, Serial, Finished

(* Worlds are told apart by what they hold.                                *)
LEMMA SameWorld ==
  ASSUME NEW w \in Worlds, NEW v \in Worlds,
         v.status = w.status, v.allowed = w.allowed, v.paused = w.paused,
         \A id \in Ids : v.effects[id] = w.effects[id]
  PROVE  v = w
<1>1. w.effects \in [Ids -> Seq(Nat)] /\ v.effects \in [Ids -> Seq(Nat)]
  BY DEF Worlds
<1>2. v.effects = w.effects
  BY <1>1
<1> QED  BY <1>2 DEF Worlds

(* Nothing is in progress after a step: what was done is committed.        *)
LEMMA SerialEnds ==
  ASSUME DispatchOK', stack' = << >>
  PROVE  SerialOK' /\ Committed' = Serial'
<1>1. Committed' \in Worlds /\ Committed' = Serial'
  BY CommittedAfter
<1>2. DOMAIN stack' = {}
  OBVIOUS
<1> QED  BY <1>1, <1>2, RunsNothing DEF SerialOK

(* A step that keeps the calls in progress, or ends the innermost.         *)
LEMMA SerialGoesOn ==
  ASSUME DispatchOK, DispatchOK', SerialOK, age' = age,
         Len(stack') <= Len(stack),
         \A i \in DOMAIN stack' : stack'[i].id = stack[i].id /\ stack'[i].before = stack[i].before,
         Runs(Committed, Serial', age)
  PROVE  SerialOK' /\ Runs(Committed, Committed', age)
<1>1. CASE stack' = << >>
  BY <1>1, SerialEnds
<1>2. CASE stack' # << >>
  <2>1. Committed' = Committed /\ Committed \in Worlds
    <3>1. 1 \in DOMAIN stack' /\ stack # << >>
      BY <1>2, DispatchTypes, DispatchTypesAfter
    <3> QED  BY <1>2, <3>1, CommittedIs DEF Committed
  <2>2. ASSUME NEW i \in DOMAIN stack'
        PROVE  Runs(Committed, SerialBefore(i)', age)
    <3>1. /\ i \in DOMAIN stack /\ i \in Nat \ {0}
          /\ \A j \in 1 .. i - 1 : j \in DOMAIN stack'
      BY <2>2, DispatchTypesAfter, DispatchTypes
    <3>2. Executing(stack', i - 1) = Executing(stack, i - 1)
      BY <3>1 DEF Executing
    <3>3. SerialBefore(i)' = SerialBefore(i)
      BY <2>2, <3>2 DEF SerialBefore, Finished
    <3> QED  BY <3>1, <3>3 DEF SerialOK
  <2> QED  BY <2>1, <2>2, RunsNothing DEF SerialOK
<1> QED  BY <1>1, <1>2

LEMMA SerialIsAfter ==
  ASSUME DispatchOK'
  PROVE  /\ Serial' \in Worlds
         /\ Serial'.status = status' /\ Serial'.allowed = allowed' /\ Serial'.paused = paused'
         /\ \A id \in Ids : Serial'.effects[id] =
              IF id \in Executing(stack', Len(stack')) THEN Dispatch!UpTo(Len(Actions[id]))
              ELSE effects'[id]
<1> DEFINE w == Dispatch!World'
           S == Executing(stack', Len(stack'))
<1>1. /\ w \in Worlds
      /\ w.status = status' /\ w.allowed = allowed' /\ w.paused = paused' /\ w.effects = effects'
  BY DEF Dispatch!World, Worlds, DispatchOK, DispatchTypeOK
<1>2. Serial' = Finished(w, S)
  BY DEF Serial, Finished
<1> HIDE DEF w, S
<1>3. Serial' \in Worlds
  BY <1>1, <1>2, FinishedWorld
<1> QED  BY <1>1, <1>2, <1>3 DEF Finished, S

(* A step that only reports progress of what is taken for finished.        *)
LEMMA SerialStays ==
  ASSUME DispatchOK, DispatchOK', UNCHANGED <<status, allowed, paused>>,
         \A id \in Ids :
           LET ran(ef, s) == IF id \in Executing(s, Len(s)) THEN Dispatch!UpTo(Len(Actions[id]))
                             ELSE ef[id]
           IN  ran(effects', stack') = ran(effects, stack)
  PROVE  Serial' = Serial
  BY SerialIs, SerialIsAfter, SameWorld

(* The other calls of the contract, made by anyone or by a target.         *)
LEMMA SettingsAreSerial ==
  ASSUME DispatchOK, DispatchOK', SerialOK,
         \/ \E id \in Ids : Dispatch!Veto(id) \/ Dispatch!MarkExpired(id)
         \/ \E t \in Target, isAllowed \in BOOLEAN : Dispatch!SetTargetAllowed(t, isAllowed)
         \/ \E isPaused \in BOOLEAN : Dispatch!Pause(isPaused)
  PROVE  SerialOK' /\ Runs(Committed, Committed', age)
<1> DEFINE w == Serial
           v == Serial'
<1>1. /\ stack' = stack /\ effects' = effects /\ age' = age
  BY DEF Dispatch!Veto, Dispatch!MarkExpired, Dispatch!SetTargetAllowed, Dispatch!Pause,
         Dispatch!settings
<1>2. /\ w \in Worlds /\ v \in Worlds
      /\ w.status = status /\ w.allowed = allowed /\ w.paused = paused
      /\ v.status = status' /\ v.allowed = allowed' /\ v.paused = paused'
      /\ \A id \in Ids : v.effects[id] = w.effects[id]
  BY <1>1, SerialIs, SerialIsAfter
<1> HIDE DEF w, v
<1>3. /\ w.status \in [Ids -> Statuses] /\ w.allowed \in SUBSET Target /\ w.paused \in BOOLEAN
      /\ w.effects \in [Ids -> Seq(Nat)]
  BY <1>2 DEF Worlds
<1>4. AtomicCall(w, v, age)
  <2>1. ASSUME NEW id \in Ids, Dispatch!Veto(id) PROVE AtomicCall(w, v, age)
    <3>1. /\ w.status[id] = "Queued" /\ age[id] = "early" /\ UNCHANGED <<allowed, paused>>
          /\ v.status = [w.status EXCEPT ![id] = "Vetoed"]
      BY <1>2, <2>1 DEF Dispatch!Veto, Dispatch!settings
    <3>2. [w EXCEPT !.status[id] = "Vetoed"] \in Worlds
      BY <1>2, <1>3 DEF Worlds, Statuses
    <3>3. v = [w EXCEPT !.status[id] = "Vetoed"]
      BY <1>2, <3>1, <3>2, SameWorld DEF Worlds
    <3> QED  BY <3>1, <3>3 DEF AtomicCall
  <2>2. ASSUME NEW id \in Ids, Dispatch!MarkExpired(id) PROVE AtomicCall(w, v, age)
    <3>1. /\ w.status[id] = "Queued" /\ age[id] = "late" /\ UNCHANGED <<allowed, paused>>
          /\ v.status = [w.status EXCEPT ![id] = "Expired"]
      BY <1>2, <2>2 DEF Dispatch!MarkExpired, Dispatch!settings
    <3>2. [w EXCEPT !.status[id] = "Expired"] \in Worlds
      BY <1>2, <1>3 DEF Worlds, Statuses
    <3>3. v = [w EXCEPT !.status[id] = "Expired"]
      BY <1>2, <3>1, <3>2, SameWorld DEF Worlds
    <3> QED  BY <3>1, <3>3 DEF AtomicCall
  <2>3. ASSUME NEW t \in Target, NEW isAllowed \in BOOLEAN, Dispatch!SetTargetAllowed(t, isAllowed)
        PROVE  AtomicCall(w, v, age)
    <3> DEFINE A == IF isAllowed THEN w.allowed \cup {t} ELSE w.allowed \ {t}
    <3>1. UNCHANGED <<status, paused>> /\ v.allowed = A
      BY <1>2, <2>3 DEF Dispatch!SetTargetAllowed
    <3>2. A \in SUBSET Target
      BY <1>3
    <3> HIDE DEF A
    <3>3. [w EXCEPT !.allowed = A] \in Worlds
      BY <1>2, <3>2 DEF Worlds
    <3>4. v = [w EXCEPT !.allowed = A]
      BY <1>2, <3>1, <3>3, SameWorld DEF Worlds
    <3> QED  BY <3>4 DEF AtomicCall, A
  <2>4. ASSUME NEW isPaused \in BOOLEAN, Dispatch!Pause(isPaused) PROVE AtomicCall(w, v, age)
    <3>1. UNCHANGED <<status, allowed>> /\ v.paused = isPaused
      BY <1>2, <2>4 DEF Dispatch!Pause
    <3>2. [w EXCEPT !.paused = isPaused] \in Worlds
      BY <1>2 DEF Worlds
    <3>3. v = [w EXCEPT !.paused = isPaused]
      BY <1>2, <3>1, <3>2, SameWorld DEF Worlds
    <3> QED  BY <3>3 DEF AtomicCall
  <2> QED  BY <2>1, <2>2, <2>3, <2>4
<1>5. Runs(Committed, v, age)
  BY <1>2, <1>4, RunsOnce DEF SerialOK, w
<1> QED  BY <1>1, <1>5, SerialGoesOn, DispatchTypes DEF v

(* execute starts inside whatever is in progress: as a call by itself it   *)
(* could be made there, and would have run all of its actions.             *)
LEMMA ExecuteIsSerial ==
  ASSUME DispatchOK, DispatchOK', SerialOK, NEW id \in Ids, Dispatch!Execute(id)
  PROVE  SerialOK' /\ Runs(Committed, Committed', age)
<1> DEFINE n == Len(stack)
           e == [id |-> id, next |-> 1, running |-> FALSE, before |-> Dispatch!World]
           w == Serial
           v == Serial'
<1>1. /\ ~paused /\ status[id] = "Queued" /\ age[id] = "due"
      /\ Dispatch!Range(Actions[id]) \subseteq allowed
      /\ status' = [status EXCEPT ![id] = "Executed"]
      /\ stack' = Append(stack, e)
      /\ UNCHANGED <<allowed, paused, effects, age>>
  BY DEF Dispatch!Execute, Dispatch!settings
<1>2. e.id = id /\ e.before = Dispatch!World
  OBVIOUS
<1> HIDE DEF e
<1>3. /\ n \in Nat /\ Len(stack') = n + 1 /\ DOMAIN stack' = 1 .. n + 1 /\ DOMAIN stack = 1..n
      /\ stack'[n + 1] = e
      /\ \A i \in 1..n : stack'[i] = stack[i]
  <2>1. stack \in Seq(Execution) /\ DOMAIN stack = 1 .. Len(stack)
    BY DispatchTypes
  <2> QED  BY <1>1, <2>1
<1>4. Executing(stack', n) = Executing(stack, n)
  BY <1>3 DEF Executing
<1>5. Executing(stack', Len(stack')) = Executing(stack, n) \cup {id}
  <2>1. \A i \in 1 .. n + 1 : i = n + 1 \/ i \in 1..n
    BY <1>3
  <2>2. n + 1 \in 1 .. n + 1 /\ \A i \in 1..n : i \in 1 .. n + 1
    BY <1>3
  <2> QED  BY <1>2, <1>3, <2>1, <2>2 DEF Executing
<1>6. id \notin Executing(stack, n)
  BY <1>1, ExecutingIsExecuted
<1>7. /\ w \in Worlds /\ v \in Worlds
      /\ w.status = status /\ w.allowed = allowed /\ w.paused = paused
      /\ v.status = status' /\ v.allowed = allowed' /\ v.paused = paused'
      /\ v.effects[id] = Dispatch!UpTo(Len(Actions[id]))
      /\ \A x \in Ids \ {id} : v.effects[x] = w.effects[x]
  BY <1>1, <1>5, SerialIs, SerialIsAfter
<1> HIDE DEF w, v, n
<1>8. /\ w.status \in [Ids -> Statuses] /\ w.effects \in [Ids -> Seq(Nat)]
      /\ v.effects \in [Ids -> Seq(Nat)]
  BY <1>7 DEF Worlds
<1>9. AtomicCall(w, v, age)
  <2> DEFINE u == [w EXCEPT !.status[id] = "Executed",
                            !.effects[id] = Dispatch!UpTo(Len(Actions[id]))]
  <2>1. [w.effects EXCEPT ![id] = Dispatch!UpTo(Len(Actions[id]))] = v.effects
    BY <1>7, <1>8
  <2>2. u = [w EXCEPT !.status = v.status, !.effects = v.effects]
    BY <1>1, <1>7, <2>1 DEF Worlds
  <2>3. [w EXCEPT !.status = v.status, !.effects = v.effects] = v
    <3> DEFINE z == [w EXCEPT !.status = v.status, !.effects = v.effects]
    <3>1. z \in Worlds
      BY <1>7 DEF Worlds
    <3>2. /\ z.status = v.status /\ z.effects = v.effects
          /\ z.allowed = v.allowed /\ z.paused = v.paused
      BY <1>1, <1>7 DEF Worlds
    <3> HIDE DEF z
    <3>3. z = v
      BY <1>7, <3>1, <3>2, SameWorld
    <3> QED  BY <3>3 DEF z
  <2>4. v = u
    BY <2>2, <2>3
  <2> QED  BY <1>1, <1>7, <2>4 DEF AtomicCall
<1>10. Runs(Committed, v, age)
  BY <1>7, <1>9, RunsOnce DEF SerialOK, w
<1>11. stack' # << >>
  BY <1>3
<1>12. Committed' = Committed /\ Committed \in Worlds
  <2>1. CASE stack = << >>
    <3>1. n = 0
      BY <2>1 DEF n
    <3> QED  BY <1>2, <1>3, <1>11, <2>1, <3>1, CommittedIs DEF Committed
  <2>2. CASE stack # << >>
    <3>1. 1 \in 1..n
      BY <1>3, <2>2, DispatchTypes DEF n
    <3> QED  BY <1>3, <1>11, <2>2, <3>1, CommittedIs DEF Committed
  <2> QED  BY <2>1, <2>2
<1>13. ASSUME NEW i \in DOMAIN stack'
       PROVE  Runs(Committed, SerialBefore(i)', age)
  <2>1. CASE i \in 1..n
    <3>1. \A j \in 1 .. i - 1 : j \in 1..n
      BY <1>3, <2>1
    <3>2. Executing(stack', i - 1) = Executing(stack, i - 1)
      BY <1>3, <3>1 DEF Executing
    <3>3. SerialBefore(i)' = SerialBefore(i)
      BY <1>3, <2>1, <3>2 DEF SerialBefore, Finished
    <3> QED  BY <1>3, <2>1, <3>3 DEF SerialOK
  <2>2. CASE i = n + 1
    <3>1. i - 1 = n
      BY <1>3, <2>2
    <3>2. SerialBefore(i)' = Finished(stack'[i].before, Executing(stack', i - 1))
      BY DEF SerialBefore, Finished
    <3>3. SerialBefore(i)' = Serial
      BY <1>2, <1>3, <1>4, <2>2, <3>1, <3>2 DEF Serial, n
    <3> QED  BY <3>3 DEF SerialOK
  <2> QED  BY <1>3, <1>13, <2>1, <2>2
<1> QED  BY <1>1, <1>10, <1>12, <1>13, RunsNothing DEF SerialOK, v

(* Invoke and Succeed: the innermost execution goes on.                    *)
LEMMA ProgressIsSerial ==
  ASSUME DispatchOK, DispatchOK', SerialOK, Dispatch!Invoke \/ Dispatch!Succeed
  PROVE  SerialOK' /\ Runs(Committed, Committed', age)
<1> DEFINE n == Len(stack)
<1>1. stack # << >> /\ UNCHANGED <<status, allowed, paused, age>>
  BY DEF Dispatch!Invoke, Dispatch!Succeed, Dispatch!settings
<1>2. n \in DOMAIN stack /\ Dispatch!Top = stack[n] /\ stack[n] \in Execution /\ n \in Nat \ {0}
  BY <1>1, TopIsThere
<1>3. /\ Len(stack') = n /\ DOMAIN stack' = 1..n /\ DOMAIN stack = 1..n
      /\ \A i \in 1..n : stack'[i].id = stack[i].id /\ stack'[i].before = stack[i].before
  <2>1. stack \in Seq(Execution) /\ DOMAIN stack = 1..n
    BY DispatchTypes
  <2>2. \E e \in Execution : /\ e.id = stack[n].id /\ e.before = stack[n].before
                             /\ stack' = [stack EXCEPT ![n] = e]
    <3>1. CASE Dispatch!Invoke
      <4> DEFINE e == [stack[n] EXCEPT !.running = TRUE]
      <4>1. e \in Execution /\ e.id = stack[n].id /\ e.before = stack[n].before
        BY <1>2 DEF Execution
      <4>2. stack' = [stack EXCEPT ![n] = e]
        BY <3>1 DEF Dispatch!Invoke
      <4> QED  BY <4>1, <4>2
    <3>2. CASE Dispatch!Succeed
      <4> DEFINE e == [stack[n] EXCEPT !.running = FALSE, !.next = stack[n].next + 1]
      <4>1. stack[n].next + 1 \in Nat
        BY <1>2, DispatchTypes
      <4>2. e \in Execution /\ e.id = stack[n].id /\ e.before = stack[n].before
        BY <1>2, <4>1 DEF Execution
      <4>3. stack' = [stack EXCEPT ![n] = e]
        BY <1>2, <3>2 DEF Dispatch!Succeed
      <4> QED  BY <4>2, <4>3
    <3> QED  BY <3>1, <3>2
  <2>3. PICK e \in Execution : /\ e.id = stack[n].id /\ e.before = stack[n].before
                              /\ stack' = [stack EXCEPT ![n] = e]
    BY <2>2
  <2>4. /\ DOMAIN stack' = DOMAIN stack
        /\ \A i \in 1..n : stack'[i] = IF i = n THEN e ELSE stack[i]
    BY <1>2, <2>1, <2>3
  <2>5. Len(stack') = n
    BY <1>2, <2>1, <2>3
  <2> QED  BY <2>1, <2>3, <2>4, <2>5
<1> HIDE DEF n
<1>4. Executing(stack', n) = Executing(stack, n) /\ stack[n].id \in Executing(stack, n)
  BY <1>2, <1>3 DEF Executing
<1>5. \A id \in Ids : id \notin Executing(stack, n) => effects'[id] = effects[id]
  <2>1. CASE Dispatch!Invoke
    BY <2>1 DEF Dispatch!Invoke
  <2>2. CASE Dispatch!Succeed
    <3>1. effects' = [effects EXCEPT ![stack[n].id] = Append(effects[stack[n].id], stack[n].next)]
      BY <1>2, <2>2 DEF Dispatch!Succeed
    <3> QED  BY <1>4, <3>1 DEF DispatchOK, DispatchTypeOK
  <2> QED  BY <2>1, <2>2
<1>6. Serial' = Serial
  BY <1>1, <1>3, <1>4, <1>5, SerialStays DEF n
<1>7. Runs(Committed, Serial', age)
  BY <1>6 DEF SerialOK
<1>8. Len(stack') <= Len(stack)
  BY <1>2, <1>3 DEF n
<1> QED  BY <1>1, <1>3, <1>7, <1>8, SerialGoesOn

(* What is left of the stack when the innermost execution ends.            *)
LEMMA FrontIs ==
  ASSUME DispatchOK, stack # << >>, stack' = Dispatch!Outer
  PROVE  /\ Len(stack) \in Nat \ {0} /\ DOMAIN stack = 1 .. Len(stack)
         /\ Len(stack') = Len(stack) - 1 /\ DOMAIN stack' = 1 .. Len(stack) - 1
         /\ \A i \in DOMAIN stack' : i \in DOMAIN stack /\ stack'[i] = stack[i]
         /\ Executing(stack', Len(stack')) = Executing(stack, Len(stack) - 1)
<1>1. stack \in Seq(Execution) /\ DOMAIN stack = 1 .. Len(stack)
  BY DispatchTypes
<1>2. /\ Len(stack') = Len(stack) - 1 /\ DOMAIN stack' = 1 .. Len(stack) - 1
      /\ \A i \in DOMAIN stack' : i \in DOMAIN stack
      /\ \A i \in 1 .. Len(stack) - 1 : stack'[i] = stack[i]
      /\ Len(stack) \in Nat \ {0}
  <2> DEFINE f == Dispatch!Outer
             n == Len(stack)
  <2>1. /\ Len(f) = n - 1 /\ DOMAIN f = 1 .. n - 1
        /\ \A i \in 1 .. n - 1 : f[i] = stack[i]
    BY <1>1, WithoutLast DEF Dispatch!Outer
  <2>2. n \in Nat \ {0}
    BY TopIsThere
  <2> HIDE DEF f, n
  <2>3. \A i \in 1 .. n - 1 : i \in 1..n
    BY <2>2
  <2>4. stack' = f
    BY DEF f
  <2>5. DOMAIN stack = 1..n
    BY <1>1 DEF n
  <2>6. \A i \in DOMAIN f : i \in DOMAIN stack
    BY <2>1, <2>3, <2>5
  <2> QED  BY <2>1, <2>2, <2>4, <2>6 DEF n
<1>3. Executing(stack', Len(stack) - 1) = Executing(stack, Len(stack) - 1)
  BY <1>2 DEF Executing
<1> QED  BY <1>1, <1>2, <1>3

(* An execution returns when all of its actions ran.                       *)
LEMMA ReturnIsSerial ==
  ASSUME DispatchOK, DispatchOK', SerialOK, Dispatch!Return
  PROVE  SerialOK' /\ Runs(Committed, Committed', age)
<1> DEFINE n == Len(stack)
<1>1. /\ stack # << >> /\ stack' = Dispatch!Outer
      /\ UNCHANGED <<status, allowed, paused, effects, age>>
  BY DEF Dispatch!Return, Dispatch!settings
<1>2. /\ Dispatch!Top = stack[n] /\ Nested(stack, n) /\ n \in DOMAIN stack /\ n \in Nat \ {0}
      /\ stack[n].id \in Ids /\ stack[n].next \in Nat
  BY <1>1, TopIsThere, DispatchTypes
<1>3. stack[n].next - 1 = Len(Actions[stack[n].id])
  BY <1>2, LengthOfActions DEF Dispatch!Return, Nested
<1>4. Accounted(status, effects, stack, n)
  BY DEF DispatchOK
<1>5. /\ Len(stack') = n - 1
      /\ \A i \in DOMAIN stack' : stack'[i] = stack[i]
      /\ Executing(stack', Len(stack')) = Executing(stack, n - 1)
  BY <1>1, FrontIs
<1> HIDE DEF n
<1>6. effects[stack[n].id] = Dispatch!UpTo(Len(Actions[stack[n].id]))
  BY <1>2, <1>3, <1>4 DEF Accounted
<1>7. Executing(stack, n) = Executing(stack, n - 1) \cup {stack[n].id}
  <2>1. \A i \in 1..n : i = n \/ i \in 1 .. n - 1
    BY <1>2
  <2>2. n \in 1..n /\ \A i \in 1 .. n - 1 : i \in 1..n
    BY <1>2
  <2> QED  BY <2>1, <2>2 DEF Executing
<1>8. \A id \in Ids :
        (IF id \in Executing(stack', Len(stack')) THEN Dispatch!UpTo(Len(Actions[id])) ELSE effects'[id])
        = (IF id \in Executing(stack, n) THEN Dispatch!UpTo(Len(Actions[id])) ELSE effects[id])
  BY <1>1, <1>5, <1>6, <1>7
<1>9. Serial' = Serial
  BY <1>1, <1>8, SerialStays DEF n
<1>10. Runs(Committed, Serial', age)
  BY <1>9 DEF SerialOK
<1>11. Len(stack') <= Len(stack)
  BY <1>2, <1>5 DEF n
<1> QED  BY <1>1, <1>5, <1>10, <1>11, SerialGoesOn

(* An execution that fails leaves what there was when it started.          *)
LEMMA FailIsSerial ==
  ASSUME DispatchOK, DispatchOK', SerialOK, Dispatch!Fail
  PROVE  SerialOK' /\ Runs(Committed, Committed', age)
<1> DEFINE n == Len(stack)
           b == stack[n].before
<1>1. stack # << >> /\ stack' = Dispatch!Outer /\ age' = age
  BY DEF Dispatch!Fail
<1>2. Dispatch!Top = stack[n] /\ n \in DOMAIN stack /\ n \in Nat \ {0} /\ b \in Worlds
  BY <1>1, TopIsThere, DispatchTypes
<1>3. status' = b.status /\ allowed' = b.allowed /\ paused' = b.paused /\ effects' = b.effects
  BY <1>2 DEF Dispatch!Fail
<1>4. /\ Len(stack') = n - 1
      /\ \A i \in DOMAIN stack' : stack'[i] = stack[i]
      /\ Executing(stack', Len(stack')) = Executing(stack, n - 1)
  BY <1>1, FrontIs
<1>5. Serial' = Finished(b, Executing(stack, n - 1))
  <2>1. Serial' = Finished(Dispatch!World', Executing(stack', Len(stack')))
    BY DEF Serial, Finished
  <2>2. Dispatch!World' = [status |-> b.status, allowed |-> b.allowed, paused |-> b.paused,
                           effects |-> b.effects]
    BY <1>3 DEF Dispatch!World
  <2>3. Finished(Dispatch!World', Executing(stack, n - 1)) = Finished(b, Executing(stack, n - 1))
    BY <2>2 DEF Finished
  <2> QED  BY <1>4, <2>1, <2>3
<1>6. Runs(Committed, Serial', age)
  BY <1>2, <1>5 DEF SerialOK, SerialBefore
<1>7. Len(stack') <= Len(stack)
  BY <1>2, <1>4
<1> QED  BY <1>1, <1>4, <1>6, <1>7, SerialGoesOn

(* Ledgers close between transactions, or nothing happens.                 *)
LEMMA QuietIsSerial ==
  ASSUME DispatchOK, DispatchOK', SerialOK,
         (\E id \in Ids : Dispatch!Age(id)) \/ UNCHANGED Dispatch!vars
  PROVE  SerialOK' /\ Runs(Committed, Committed', age)
<1>1. UNCHANGED <<status, allowed, paused, effects, stack>>
  BY DEF Dispatch!Age, Dispatch!vars, Dispatch!settings
<1>2. Committed' = Committed
  BY <1>1 DEF Committed, Dispatch!World
<1>3. CASE stack = << >>
  BY <1>1, <1>2, <1>3, SerialEnds, CommittedIs, RunsNothing
<1>4. CASE stack # << >>
  <2>1. age' = age
    BY <1>4 DEF Dispatch!Age, Dispatch!vars
  <2>2. Serial' = Serial /\ Dispatch!World' = Dispatch!World
    BY <1>1 DEF Serial, Finished, Dispatch!World
  <2> QED  BY <1>1, <2>1, <2>2, SerialGoesOn DEF SerialOK
<1> QED  BY <1>3, <1>4

LEMMA StepIsSerial ==
  ASSUME DispatchOK, SerialOK, [Dispatch!Next]_(Dispatch!vars)
  PROVE  SerialOK' /\ Runs(Committed, Committed', age)
<1>1. DispatchOK'
  BY DispatchKeeps
<1> QED  BY <1>1, SettingsAreSerial, ExecuteIsSerial, ProgressIsSerial, ReturnIsSerial,
            FailIsSerial, QuietIsSerial
         DEF Dispatch!Next

LEMMA SerialStarts ==
  ASSUME Dispatch!Init
  PROVE  SerialOK
<1>1. DispatchOK /\ stack = << >>
  BY DispatchStarts DEF Dispatch!Init
<1>2. DOMAIN stack = {}
  BY <1>1
<1> QED  BY <1>1, <1>2, CommittedIs, RunsNothing DEF SerialOK

(* However executions call each other and fail inside one another, a       *)
(* transaction leaves what some of these calls would have left, made one   *)
(* after the other, each with all of its actions or none: what lets        *)
(* Governor model execute, which invokes its actions after it committed    *)
(* the status (lib.rs:724-725), as one step.                               *)
THEOREM TransactionsAreCalls ==
  Dispatch!Spec => [][Runs(Committed, Committed', age)]_(Dispatch!vars)
<1>1. Dispatch!Init => DispatchOK /\ SerialOK
  BY DispatchStarts, SerialStarts
<1>2. DispatchOK /\ SerialOK /\ [Dispatch!Next]_(Dispatch!vars)
      => DispatchOK' /\ SerialOK' /\ Runs(Committed, Committed', age)
  BY DispatchKeeps, StepIsSerial
<1> QED  BY <1>1, <1>2, PTL DEF Dispatch!Spec

------------------------------------------------------------------------------
(* The service worker.                                                     *)

Urls  == Pages \cup Worker!STATIC_ASSETS
Cache == UNION {[urls -> {"page"}] : urls \in SUBSET Urls}

(* Navigations are under way only where a worker is active; the active     *)
(* worker and the one waiting have the offline page in their own caches.   *)
WorkerOK ==
  /\ deployed \in 1 .. MaxVersion
  /\ active \in 0 .. MaxVersion
  /\ waiting \in 0 .. MaxVersion
  /\ caches \in [1 .. MaxVersion -> Cache]
  /\ fetches \subseteq Pages
  /\ \A copy \in copies : copy.version \in 1 .. MaxVersion /\ copy.url \in Pages /\ copy.content = "page"
  /\ shown.content # "nothing"
  /\ active = 0 => fetches = {}
  /\ active # 0 => Worker!OFFLINE_URL \in DOMAIN caches[active]
  /\ waiting # 0 => Worker!OFFLINE_URL \in DOMAIN caches[waiting]

LEMMA CacheContents ==
  ASSUME NEW cache \in Cache
  PROVE  DOMAIN cache \subseteq Urls /\ \A url \in DOMAIN cache : cache[url] = "page"
  BY DEF Cache

LEMMA NoCache == << >> \in Cache
<1>1. << >> \in [{} -> {"page"}]
  BY SMT
<1> QED  BY <1>1 DEF Cache

LEMMA CacheOf ==
  ASSUME NEW urls \in SUBSET Urls, NEW f, f = [url \in urls |-> f[url]],
         \A url \in urls : f[url] = "page"
  PROVE  f \in Cache
<1>1. f \in [urls -> {"page"}]
  OBVIOUS
<1> QED  BY <1>1 DEF Cache

(* Only the cache of version "v" changes, and only grows.                  *)
LEMMA CacheGrows ==
  ASSUME WorkerOK, NEW v \in 1 .. MaxVersion, NEW cache \in Cache,
         DOMAIN caches[v] \subseteq DOMAIN cache, caches' = [caches EXCEPT ![v] = cache]
  PROVE  /\ caches' \in [1 .. MaxVersion -> Cache]
         /\ caches'[v] = cache
         /\ \A w \in 1 .. MaxVersion :
              Worker!OFFLINE_URL \in DOMAIN caches[w] => Worker!OFFLINE_URL \in DOMAIN caches'[w]
  BY DEF WorkerOK

LEMMA InstallKeeps ==
  ASSUME WorkerOK, Worker!Install
  PROVE  WorkerOK'
<1> DEFINE cache == Worker!Stored(caches[deployed], Worker!STATIC_ASSETS)
<1>1. /\ caches' = [caches EXCEPT ![deployed] = cache]
      /\ waiting' = deployed
      /\ UNCHANGED <<deployed, active, fetches, copies, shown>>
  BY DEF Worker!Install
<1>2. caches[deployed] \in Cache
  BY DEF WorkerOK
<1>3. /\ DOMAIN cache = DOMAIN caches[deployed] \cup Worker!STATIC_ASSETS
      /\ \A url \in DOMAIN cache : cache[url] = "page"
      /\ cache = [url \in DOMAIN cache |-> cache[url]]
  BY <1>2, CacheContents DEF Worker!Stored
<1>4. Worker!OFFLINE_URL \in DOMAIN cache /\ DOMAIN cache \in SUBSET Urls
  BY <1>2, <1>3, CacheContents DEF Worker!STATIC_ASSETS, Urls
<1> HIDE DEF cache
<1>5. cache \in Cache
  BY <1>3, <1>4, CacheOf
<1>6. /\ caches' \in [1 .. MaxVersion -> Cache]
      /\ caches'[deployed] = cache
      /\ \A w \in 1 .. MaxVersion :
           Worker!OFFLINE_URL \in DOMAIN caches[w] => Worker!OFFLINE_URL \in DOMAIN caches'[w]
  BY <1>1, <1>3, <1>5, CacheGrows DEF WorkerOK
<1> QED  BY <1>1, <1>4, <1>6 DEF WorkerOK

LEMMA ActivateKeeps ==
  ASSUME WorkerOK, Worker!Activate
  PROVE  WorkerOK'
<1>1. /\ waiting \in 1 .. MaxVersion /\ fetches = {}
      /\ active' = waiting /\ waiting' = 0
      /\ caches' = [w \in 1 .. MaxVersion |-> IF w = waiting THEN caches[w] ELSE << >>]
      /\ UNCHANGED <<deployed, fetches, copies, shown>>
  BY DEF Worker!Activate, Worker!Kept, Worker!Versions, WorkerOK
<1>2. caches' \in [1 .. MaxVersion -> Cache] /\ caches'[waiting] = caches[waiting]
  BY <1>1, NoCache DEF WorkerOK
<1>3. active' \in 0 .. MaxVersion /\ waiting' \in 0 .. MaxVersion
  BY <1>1, WorkerAssumption
<1>4. Worker!OFFLINE_URL \in DOMAIN caches'[active']
  BY <1>1, <1>2 DEF WorkerOK
<1> QED  BY <1>1, <1>2, <1>3, <1>4 DEF WorkerOK

LEMMA ActiveIsDeployed ==
  ASSUME WorkerOK, fetches # {}
  PROVE  active \in 1 .. MaxVersion
<1>1. active \in 0 .. MaxVersion /\ active # 0
  BY DEF WorkerOK
<1> QED  BY <1>1, WorkerAssumption

LEMMA CopiesArePages ==
  ASSUME NEW url \in Pages, NEW response, active \in 1 .. MaxVersion,
         NEW copy \in Worker!Copied(response, url)
  PROVE  copy.version \in 1 .. MaxVersion /\ copy.url \in Pages /\ copy.content = "page"
<1>1. copy = [version |-> active, url |-> url, content |-> response] /\ response = "page"
  BY DEF Worker!Copied
<1> QED  BY <1>1

LEMMA NavigateKeeps ==
  ASSUME WorkerOK, Worker!Navigate \/ Worker!Answered
  PROVE  WorkerOK'
<1>1. UNCHANGED <<deployed, active, waiting, caches>>
  BY DEF Worker!Navigate, Worker!Answered
<1>2. CASE Worker!Navigate
  BY <1>1, <1>2 DEF Worker!Navigate, WorkerOK
<1>3. CASE Worker!Answered
  <2>1. PICK url \in fetches, response \in {"page", "error page"} :
          /\ fetches' = fetches \ {url}
          /\ copies' = copies \cup Worker!Copied(response, url)
          /\ shown' = [url |-> url, content |-> response]
    BY <1>3 DEF Worker!Answered
  <2>2. url \in Pages /\ active # 0
    BY <2>1 DEF WorkerOK
  <2>3. active \in 1 .. MaxVersion
    BY <2>1, ActiveIsDeployed
  <2>4. \A copy \in Worker!Copied(response, url) :
          copy.version \in 1 .. MaxVersion /\ copy.url \in Pages /\ copy.content = "page"
    BY <2>2, <2>3, CopiesArePages
  <2>5. \A copy \in copies' :
          copy.version \in 1 .. MaxVersion /\ copy.url \in Pages /\ copy.content = "page"
    BY <2>1, <2>4 DEF WorkerOK
  <2>6. fetches' \subseteq Pages /\ shown'.content # "nothing"
    BY <2>1 DEF WorkerOK
  <2> QED  BY <1>1, <2>2, <2>5, <2>6 DEF WorkerOK
<1> QED  BY <1>2, <1>3

LEMMA CopyKeeps ==
  ASSUME WorkerOK, Worker!CopyStored
  PROVE  WorkerOK'
<1>1. PICK copy \in copies :
        /\ copies' = copies \ {copy}
        /\ caches' = [caches EXCEPT ![copy.version] =
             [url \in DOMAIN caches[copy.version] \cup {copy.url} |->
                IF url = copy.url THEN copy.content ELSE caches[copy.version][url]]]
  BY DEF Worker!CopyStored
<1> DEFINE v == copy.version
           cache == [url \in DOMAIN caches[v] \cup {copy.url} |->
                       IF url = copy.url THEN copy.content ELSE caches[v][url]]
<1>2. v \in 1 .. MaxVersion /\ copy.url \in Pages /\ copy.content = "page" /\ caches[v] \in Cache
  BY DEF WorkerOK
<1>3. /\ DOMAIN cache = DOMAIN caches[v] \cup {copy.url}
      /\ \A url \in DOMAIN cache : cache[url] = "page"
      /\ cache = [url \in DOMAIN cache |-> cache[url]]
  BY <1>2, CacheContents
<1>4. DOMAIN cache \in SUBSET Urls
  BY <1>2, <1>3, CacheContents DEF Urls
<1>5. caches' = [caches EXCEPT ![v] = cache]
  BY <1>1
<1> HIDE DEF v, cache
<1>6. cache \in Cache
  BY <1>3, <1>4, CacheOf
<1>7. /\ caches' \in [1 .. MaxVersion -> Cache]
      /\ \A w \in 1 .. MaxVersion :
           Worker!OFFLINE_URL \in DOMAIN caches[w] => Worker!OFFLINE_URL \in DOMAIN caches'[w]
  BY <1>2, <1>3, <1>5, <1>6, CacheGrows
<1>8. UNCHANGED <<deployed, active, waiting, fetches, shown>>
  BY DEF Worker!CopyStored
<1> QED  BY <1>1, <1>7, <1>8 DEF WorkerOK

(* A navigation the network fails finds the offline page in the cache of   *)
(* the active worker, if nothing better.                                   *)
LEMMA FailedKeeps ==
  ASSUME WorkerOK, Worker!Failed
  PROVE  WorkerOK'
<1>1. PICK url \in fetches :
        /\ fetches' = fetches \ {url}
        /\ LET from == IF Worker!Cached(url) THEN url ELSE Worker!OFFLINE_URL
           IN  \E content \in Worker!FromCaches(from) : shown' = [url |-> from, content |-> content]
  BY DEF Worker!Failed
<1>2. UNCHANGED <<deployed, active, waiting, caches, copies>>
  BY DEF Worker!Failed
<1>3. active \in 1 .. MaxVersion /\ Worker!Cached(Worker!OFFLINE_URL)
  BY <1>1 DEF WorkerOK, Worker!Cached, Worker!Versions
<1> DEFINE from == IF Worker!Cached(url) THEN url ELSE Worker!OFFLINE_URL
<1>4. Worker!Cached(from)
  BY <1>3
<1>5. PICK content \in Worker!FromCaches(from) : shown' = [url |-> from, content |-> content]
  BY <1>1
<1> HIDE DEF from
<1>6. PICK v \in 1 .. MaxVersion : from \in DOMAIN caches[v] /\ content = caches[v][from]
  BY <1>4, <1>5 DEF Worker!FromCaches, Worker!Versions
<1>7. content = "page"
  BY <1>6, CacheContents DEF WorkerOK
<1>8. shown'.content # "nothing" /\ fetches' \subseteq Pages /\ active # 0
  BY <1>1, <1>3, <1>5, <1>7 DEF WorkerOK
<1> QED  BY <1>2, <1>8 DEF WorkerOK

LEMMA WorkerKeeps ==
  ASSUME WorkerOK, [Worker!Next]_(Worker!vars)
  PROVE  WorkerOK'
<1>1. CASE Worker!Deploy
  BY <1>1, WorkerAssumption DEF Worker!Deploy, WorkerOK
<1>2. CASE Worker!CopyLost
  BY <1>2 DEF Worker!CopyLost, WorkerOK
<1>3. CASE Worker!Connectivity \/ UNCHANGED Worker!vars
  BY <1>3 DEF Worker!Connectivity, Worker!vars, WorkerOK
<1> QED  BY <1>1, <1>2, <1>3, InstallKeeps, ActivateKeeps, NavigateKeeps, CopyKeeps, FailedKeeps
         DEF Worker!Next

LEMMA WorkerStarts ==
  ASSUME Worker!Init
  PROVE  WorkerOK
  BY WorkerAssumption, NoCache DEF Worker!Init, Worker!Versions, WorkerOK

LEMMA WorkerSuffices ==
  ASSUME WorkerOK
  PROVE  OfflineIsAnswered
<1>1. \A v \in 1 .. MaxVersion : \A url \in DOMAIN caches[v] : caches[v][url] = "page"
  BY CacheContents DEF WorkerOK
<1> QED  BY <1>1 DEF WorkerOK, OfflineIsAnswered, Worker!OfflineIsAnswered, Worker!Versions

(* With any number of versions deployed, activated and cleared away, and   *)
(* copies that come late or never: a navigation offline is answered, from  *)
(* a cache, with a page and not with an error.                             *)
THEOREM OfflineNavigationsAreAnswered == Worker!Spec => []OfflineIsAnswered
  BY WorkerStarts, WorkerKeeps, WorkerSuffices, PTL DEF Worker!Spec

------------------------------------------------------------------------------
(* Batched reads.                                                          *)

ToSet(s)    == {s[i] : i \in DOMAIN s}
Distinct(s) == \A i, j \in DOMAIN s : s[i] = s[j] => i = j
Batch       == [items : Seq(Reads), attempt : Nat]

(* The reads in the envelopes of some flushes.                             *)
Flying(runs) == {r \in Reads : \E f \in DOMAIN runs : r \in ToSet(runs[f].items)}

RunsOK(runs) ==
  /\ runs \in Seq(Batch)
  /\ \A f \in DOMAIN runs : Distinct(runs[f].items)
  /\ \A f, g \in DOMAIN runs : f # g => ToSet(runs[f].items) \cap ToSet(runs[g].items) = {}

(* A read is in one place at most: waiting for a flush, in one envelope,   *)
(* sent by itself, or settled.                                             *)
Placed(r) ==
  /\ settled[r] \in {<< >>, <<r>>, <<Batcher!Rejected>>}
  /\ r \in ToSet(pending) => r \notin Flying(flushes)
  /\ r \in ToSet(pending) \/ r \in Flying(flushes) => single[r] = 0 /\ settled[r] = << >>
  /\ single[r] # 0 => settled[r] = << >>

BatcherOK ==
  /\ pending \in Seq(Reads) /\ Distinct(pending)
  /\ RunsOK(flushes)
  /\ single \in [Reads -> Nat]
  /\ \A r \in Reads : Placed(r)

LEMMA SetsAreSame ==
  ASSUME NEW s
  PROVE  Batcher!ToSet(s) = ToSet(s)
  BY DEF ToSet, Batcher!ToSet

(* The reads of some batch are sent alone or settled, the rest regrouped.  *)
LEMMA Regrouped ==
  ASSUME BatcherOK, NEW alone \in SUBSET Reads, NEW done \in SUBSET Reads,
         pending' \in Seq(Reads), Distinct(pending'), RunsOK(flushes'),
         single' = Batcher!Alone(alone),
         ToSet(pending') \subseteq ToSet(pending),
         alone \cup done \cup Flying(flushes') \subseteq ToSet(pending) \cup Flying(flushes),
         ToSet(pending') \cap Flying(flushes') = {},
         (alone \cup done) \cap (ToSet(pending') \cup Flying(flushes')) = {},
         alone \cap done = {},
         \A r \in Reads \ done : settled'[r] = settled[r],
         \A r \in done : settled'[r] \in {<<r>>, <<Batcher!Rejected>>}
  PROVE  BatcherOK'
<1>1. single' \in [Reads -> Nat] /\ \A r \in Reads : single'[r] = IF r \in alone THEN 1 ELSE single[r]
  BY DEF Batcher!Alone, BatcherOK
<1>2. ASSUME NEW r \in Reads
      PROVE  Placed(r)'
  <2>1. Placed(r)
    BY DEF BatcherOK
  <2>2. CASE r \in done
    <3>1. single'[r] = single[r] /\ single[r] = 0
      BY <1>1, <2>1, <2>2 DEF Placed
    <3>2. r \notin ToSet(pending') /\ r \notin Flying(flushes')
      BY <2>2
    <3> QED  BY <2>2, <3>1, <3>2 DEF Placed
  <2>3. CASE r \notin done
    <3>1. settled'[r] = settled[r]
      BY <2>3
    <3>2. r \in alone \/ r \in ToSet(pending') \/ r \in Flying(flushes')
            => single[r] = 0 /\ settled[r] = << >>
      BY <2>1 DEF Placed
    <3>3. r \in alone => r \notin ToSet(pending') /\ r \notin Flying(flushes')
      OBVIOUS
    <3>4. r \in ToSet(pending') => r \notin Flying(flushes')
      OBVIOUS
    <3> QED  BY <1>1, <2>1, <3>1, <3>2, <3>3, <3>4 DEF Placed
  <2> QED  BY <2>2, <2>3
<1> QED  BY <1>1, <1>2 DEF BatcherOK

LEMMA ChunkAndRest ==
  ASSUME NEW items \in Seq(Reads), Distinct(items)
  PROVE  /\ Batcher!Chunk(items) \in Seq(Reads)
         /\ Batcher!Rest(items) \in Seq(Reads) /\ Distinct(Batcher!Rest(items))
         /\ ToSet(Batcher!Chunk(items)) \subseteq ToSet(items)
         /\ ToSet(Batcher!Rest(items)) \subseteq ToSet(items)
         /\ ToSet(Batcher!Chunk(items)) \cap ToSet(Batcher!Rest(items)) = {}
<1> DEFINE n == Len(items)
           k == IF n < Size THEN n ELSE Size
           c == Batcher!Chunk(items)
           d == Batcher!Rest(items)
<1>1. n \in Nat /\ DOMAIN items = 1..n /\ \A i \in 1..n : items[i] \in Reads
  OBVIOUS
<1>2. k \in Nat /\ k <= n
  BY <1>1, BatcherAssumption
<1>3. c = SubSeq(items, 1, k)
  BY DEF Batcher!Chunk
<1> HIDE DEF k
<1>4. c \in Seq(Reads) /\ Len(c) = k /\ DOMAIN c = 1..k /\ \A i \in 1..k : c[i] = items[i]
  BY <1>1, <1>2, <1>3
<1>5. d = SubSeq(items, k + 1, n)
  BY <1>4 DEF Batcher!Rest
<1> HIDE DEF c, d
<1>6. /\ d \in Seq(Reads) /\ DOMAIN d = 1 .. n - k
      /\ \A i \in 1 .. n - k : d[i] = items[i + k]
  BY <1>1, <1>2, <1>5
<1> HIDE DEF n
<1>7. /\ \A i \in 1..k : i \in 1..n
      /\ \A i \in 1 .. n - k : i + k \in 1..n /\ i + k \notin 1..k
      /\ \A i, j \in 1 .. n - k : i + k = j + k => i = j
  BY <1>1, <1>2
<1>8. Distinct(d)
  BY <1>1, <1>6, <1>7 DEF Distinct
<1>9. ToSet(c) \subseteq ToSet(items) /\ ToSet(d) \subseteq ToSet(items)
  BY <1>1, <1>4, <1>6, <1>7 DEF ToSet
<1>10. ASSUME NEW i \in 1..k, NEW j \in 1 .. n - k, c[i] = d[j]
       PROVE  FALSE
  <2>1. items[i] = items[j + k] /\ i \in DOMAIN items /\ j + k \in DOMAIN items /\ j + k # i
    BY <1>1, <1>4, <1>6, <1>7, <1>10
  <2> QED  BY <2>1 DEF Distinct
<1>11. ToSet(c) \cap ToSet(d) = {}
  BY <1>4, <1>6, <1>10 DEF ToSet
<1> QED  BY <1>4, <1>6, <1>8, <1>9, <1>11 DEF c, d

LEMMA OneRemoved ==
  ASSUME NEW s \in Seq(Batch), NEW f \in DOMAIN s, NEW z, z = Batcher!RemoveAt(s, f)
  PROVE  /\ z \in Seq(Batch)
         /\ \A g \in DOMAIN z : \E h \in DOMAIN s : h # f /\ z[g] = s[h]
         /\ \A g, i \in DOMAIN z : g # i =>
              \E h, j \in DOMAIN s : h # f /\ j # f /\ h # j /\ z[g] = s[h] /\ z[i] = s[j]
<1> DEFINE n == Len(s)
           b == SubSeq(s, 1, f - 1)
           e == SubSeq(s, f + 1, n)
           at(g) == IF g < f THEN g ELSE g + 1
<1>1. n \in Nat /\ DOMAIN s = 1..n /\ f \in 1..n
  OBVIOUS
<1>2. b \in Seq(Batch) /\ Len(b) = f - 1 /\ \A g \in 1 .. f - 1 : b[g] = s[g]
  BY <1>1
<1>3. e \in Seq(Batch) /\ Len(e) = n - f /\ \A g \in 1 .. n - f : e[g] = s[g + f]
  BY <1>1
<1>4. z = b \o e
  BY DEF Batcher!RemoveAt
<1> HIDE DEF b, e
<1>5. z \in Seq(Batch) /\ DOMAIN z = 1 .. n - 1
  <2>1. z \in Seq(Batch) /\ Len(z) = (f - 1) + (n - f)
    BY <1>2, <1>3, <1>4
  <2>2. (f - 1) + (n - f) = n - 1
    BY <1>1
  <2> QED  BY <2>1, <2>2
<1>6. \A g \in 1 .. n - 1 : z[g] = IF g < f THEN b[g] ELSE e[g - f + 1]
  BY <1>1, <1>2, <1>3, <1>4
<1> HIDE DEF n
<1>7. \A g \in 1 .. n - 1 : at(g) \in 1..n /\ at(g) # f /\ z[g] = s[at(g)]
  <2> TAKE g \in 1 .. n - 1
  <2>1. CASE g < f
    BY <1>1, <1>2, <1>6, <2>1
  <2>2. CASE ~(g < f)
    <3>1. g - f + 1 \in 1 .. n - f /\ (g - f + 1) + f = g + 1 /\ g + 1 \in 1..n /\ g + 1 # f
      BY <1>1, <2>2
    <3> QED  BY <1>3, <1>6, <2>2, <3>1
  <2> QED  BY <2>1, <2>2
<1>8. \A g, i \in 1 .. n - 1 : g # i => at(g) # at(i)
  BY <1>1
<1> HIDE DEF at
<1> QED  BY <1>1, <1>5, <1>7, <1>8

(* A flush ends; its reads are gone from the envelopes.                    *)
LEMMA FewerFlushes ==
  ASSUME NEW runs, RunsOK(runs), NEW f \in DOMAIN runs, NEW z, z = Batcher!RemoveAt(runs, f)
  PROVE  RunsOK(z) /\ Flying(z) \subseteq Flying(runs) \ ToSet(runs[f].items)
<1>1. /\ z \in Seq(Batch)
      /\ \A g \in DOMAIN z : \E h \in DOMAIN runs : h # f /\ z[g] = runs[h]
      /\ \A g, i \in DOMAIN z : g # i =>
           \E h, j \in DOMAIN runs : h # f /\ j # f /\ h # j /\ z[g] = runs[h] /\ z[i] = runs[j]
  BY OneRemoved DEF RunsOK
<1>2. RunsOK(z)
  <2>1. \A g \in DOMAIN z : Distinct(z[g].items)
    BY <1>1 DEF RunsOK
  <2>2. ASSUME NEW g \in DOMAIN z, NEW i \in DOMAIN z, g # i
        PROVE  ToSet(z[g].items) \cap ToSet(z[i].items) = {}
    <3>1. PICK h \in DOMAIN runs, j \in DOMAIN runs : h # j /\ z[g] = runs[h] /\ z[i] = runs[j]
      BY <1>1, <2>2
    <3>2. ToSet(runs[h].items) \cap ToSet(runs[j].items) = {}
      BY <3>1 DEF RunsOK
    <3> QED  BY <3>1, <3>2
  <2> QED  BY <1>1, <2>1, <2>2 DEF RunsOK
<1>3. ASSUME NEW r \in Reads, NEW g \in DOMAIN z, r \in ToSet(z[g].items)
      PROVE  r \in Flying(runs) \ ToSet(runs[f].items)
  <2>1. PICK h \in DOMAIN runs : h # f /\ z[g] = runs[h]
    BY <1>1
  <2>2. r \in ToSet(runs[h].items)
    BY <1>3, <2>1
  <2> QED  BY <2>1, <2>2 DEF RunsOK, Flying
<1> QED  BY <1>2, <1>3 DEF Flying

(* A flush goes on with fewer reads.                                       *)
LEMMA SmallerFlush ==
  ASSUME NEW runs, RunsOK(runs), NEW f \in DOMAIN runs, NEW d \in Seq(Reads), Distinct(d),
         ToSet(d) \subseteq ToSet(runs[f].items), NEW k \in Nat,
         NEW z, z = [runs EXCEPT ![f] = [items |-> d, attempt |-> k]]
  PROVE  /\ RunsOK(z)
         /\ Flying(z) \subseteq Flying(runs) \ (ToSet(runs[f].items) \ ToSet(d))
<1>1. [items |-> d, attempt |-> k] \in Batch
  BY DEF Batch
<1>2. /\ z \in Seq(Batch) /\ DOMAIN z = DOMAIN runs
      /\ z[f] = [items |-> d, attempt |-> k]
      /\ \A g \in DOMAIN z : g # f => z[g] = runs[g]
  BY <1>1 DEF RunsOK
<1>3. z[f].items = d
  BY <1>2
<1>4. \A g \in DOMAIN runs : ToSet(z[g].items) \subseteq ToSet(runs[g].items)
  BY <1>2, <1>3
<1>5. RunsOK(z)
  <2>1. \A g \in DOMAIN z : Distinct(z[g].items)
    BY <1>2, <1>3 DEF RunsOK
  <2>2. ASSUME NEW g \in DOMAIN z, NEW i \in DOMAIN z, g # i
        PROVE  ToSet(z[g].items) \cap ToSet(z[i].items) = {}
    <3>1. ToSet(runs[g].items) \cap ToSet(runs[i].items) = {}
      BY <1>2, <2>2 DEF RunsOK
    <3>2. ToSet(z[g].items) \subseteq ToSet(runs[g].items)
      BY <1>2, <1>4
    <3>3. ToSet(z[i].items) \subseteq ToSet(runs[i].items)
      BY <1>2, <1>4
    <3> QED  BY <3>1, <3>2, <3>3
  <2> QED  BY <1>2, <2>1, <2>2 DEF RunsOK
<1>6. ASSUME NEW r \in Reads, NEW g \in DOMAIN z, r \in ToSet(z[g].items)
      PROVE  r \in Flying(runs) \ (ToSet(runs[f].items) \ ToSet(d))
  <2>1. CASE g = f
    BY <1>2, <1>3, <1>6, <2>1 DEF Flying
  <2>2. CASE g # f
    BY <1>2, <1>6, <2>2 DEF RunsOK, Flying
  <2> QED  BY <2>1, <2>2
<1> QED  BY <1>5, <1>6 DEF Flying

(* The reads waiting go into an envelope.                                  *)
LEMMA OneMoreFlush ==
  ASSUME NEW runs, RunsOK(runs), NEW d \in Seq(Reads), Distinct(d),
         ToSet(d) \cap Flying(runs) = {}, NEW k \in Nat,
         NEW z, z = Append(runs, [items |-> d, attempt |-> k])
  PROVE  RunsOK(z) /\ Flying(z) \subseteq Flying(runs) \cup ToSet(d)
<1> DEFINE b == [items |-> d, attempt |-> k]
           n == Len(runs)
<1>1. b \in Batch /\ b.items = d
  BY DEF Batch
<1> HIDE DEF b
<1>2. /\ n \in Nat /\ DOMAIN runs = 1..n
      /\ z \in Seq(Batch) /\ DOMAIN z = 1 .. n + 1
      /\ z[n + 1] = b
      /\ \A g \in 1..n : z[g] = runs[g]
  BY <1>1 DEF RunsOK, b
<1> HIDE DEF n
<1>3. \A g \in 1 .. n + 1 : g = n + 1 \/ g \in 1..n
  BY <1>2
<1>4. \A g \in 1..n : ToSet(z[g].items) \cap ToSet(d) = {}
  <2> TAKE g \in 1..n
  <2>1. ToSet(z[g].items) \cap Reads \subseteq Flying(runs)
    BY <1>2 DEF Flying
  <2>2. ToSet(d) \subseteq Reads
    BY DEF ToSet
  <2> QED  BY <2>1, <2>2
<1>5. RunsOK(z)
  <2>1. \A g \in DOMAIN z : Distinct(z[g].items)
    BY <1>1, <1>2, <1>3 DEF RunsOK
  <2>2. ASSUME NEW g \in DOMAIN z, NEW i \in DOMAIN z, g # i
        PROVE  ToSet(z[g].items) \cap ToSet(z[i].items) = {}
    <3>1. CASE g \in 1..n /\ i \in 1..n
      <4>1. z[g] = runs[g] /\ z[i] = runs[i]
        BY <1>2, <3>1
      <4>2. ToSet(runs[g].items) \cap ToSet(runs[i].items) = {}
        BY <1>2, <2>2, <3>1 DEF RunsOK
      <4> QED  BY <4>1, <4>2
    <3>2. CASE g = n + 1 /\ i \in 1..n
      BY <1>1, <1>2, <1>4, <3>2
    <3>3. CASE g \in 1..n /\ i = n + 1
      BY <1>1, <1>2, <1>4, <3>3
    <3> QED  BY <1>2, <1>3, <2>2, <3>1, <3>2, <3>3
  <2> QED  BY <1>2, <2>1, <2>2 DEF RunsOK
<1>6. Flying(z) \subseteq Flying(runs) \cup ToSet(d)
  BY <1>1, <1>2, <1>3 DEF Flying
<1> QED  BY <1>5, <1>6

LEMMA FlushTypes ==
  ASSUME NEW runs, RunsOK(runs), NEW f \in DOMAIN runs
  PROVE  /\ runs[f] \in Batch /\ runs[f].attempt \in Nat
         /\ runs[f].items \in Seq(Reads) /\ Distinct(runs[f].items)
         /\ ToSet(runs[f].items) \subseteq Reads
<1>1. runs \in Seq(Batch) /\ Distinct(runs[f].items)
  BY DEF RunsOK
<1>2. runs[f] \in Batch
  BY <1>1
<1>3. runs[f].items \in Seq(Reads) /\ runs[f].attempt \in Nat
  BY <1>2 DEF Batch
<1>4. ToSet(runs[f].items) \subseteq Reads
  BY <1>3 DEF ToSet
<1> QED  BY <1>1, <1>2, <1>3, <1>4

(* An envelope is done: its flush goes on to the rest, or ends.            *)
LEMMA GoesOn ==
  ASSUME BatcherOK, NEW f \in DOMAIN flushes, NEW items, items = flushes[f].items,
         NEW alone, alone = Batcher!SentSingly(Batcher!Rest(items), supported),
         NEW z, z = Batcher!GoingOn(f, Batcher!Rest(items), supported)
  PROVE  /\ RunsOK(z)
         /\ ToSet(Batcher!Chunk(items)) \subseteq Flying(flushes)
         /\ alone \cup Flying(z) \subseteq Flying(flushes) \ ToSet(Batcher!Chunk(items))
         /\ alone \cap Flying(z) = {}
<1> DEFINE c == Batcher!Chunk(items)
           d == Batcher!Rest(items)
<1>1. /\ RunsOK(flushes) /\ items \in Seq(Reads) /\ Distinct(items)
  BY FlushTypes DEF BatcherOK
<1>2. /\ d \in Seq(Reads) /\ Distinct(d)
      /\ ToSet(c) \subseteq ToSet(items) /\ ToSet(d) \subseteq ToSet(items)
      /\ ToSet(c) \cap ToSet(d) = {}
  BY <1>1, ChunkAndRest
<1>3. alone \in {{}, ToSet(d)}
  BY SetsAreSame DEF Batcher!SentSingly
<1>4. ToSet(items) \subseteq Flying(flushes)
  <2>1. ToSet(items) \subseteq Reads
    BY <1>1 DEF ToSet
  <2> QED  BY <2>1 DEF Flying
<1> HIDE DEF c, d
<1>5. CASE z = Batcher!RemoveAt(flushes, f)
  <2>1. RunsOK(z) /\ Flying(z) \subseteq Flying(flushes) \ ToSet(items)
    BY <1>1, <1>5, FewerFlushes
  <2> QED  BY <1>2, <1>3, <1>4, <2>1 DEF c
<1>6. CASE alone = {} /\ z = [flushes EXCEPT ![f] = [items |-> d, attempt |-> 1]]
  <2>1. RunsOK(z) /\ Flying(z) \subseteq Flying(flushes) \ (ToSet(items) \ ToSet(d))
    BY <1>1, <1>2, <1>6, SmallerFlush
  <2> QED  BY <1>2, <1>4, <1>6, <2>1 DEF c
<1> QED  BY <1>5, <1>6 DEF Batcher!GoingOn, d

(* What is settled in a flush's envelope is its own reads.                 *)
LEMMA ChunkSettled ==
  ASSUME BatcherOK, NEW f \in DOMAIN flushes, NEW given,
         DOMAIN given \subseteq ToSet(Batcher!Chunk(flushes[f].items)),
         \A r \in DOMAIN given : given[r] \in {r, Batcher!Rejected},
         settled' = Batcher!Settle(given),
         single' = Batcher!Alone(Batcher!SentSingly(Batcher!Rest(flushes[f].items), supported)),
         flushes' = Batcher!GoingOn(f, Batcher!Rest(flushes[f].items), supported),
         pending' = pending
  PROVE  BatcherOK'
<1> DEFINE alone == Batcher!SentSingly(Batcher!Rest(flushes[f].items), supported)
           done == DOMAIN given
<1>1. /\ RunsOK(flushes')
      /\ done \subseteq Flying(flushes)
      /\ alone \cup Flying(flushes') \subseteq Flying(flushes) \ done
      /\ alone \cap Flying(flushes') = {}
  BY GoesOn
<1>2. Flying(flushes) \subseteq Reads
  BY DEF Flying
<1>3. pending \in Seq(Reads) /\ Distinct(pending) /\ ToSet(pending) \cap Flying(flushes) = {}
  BY <1>2 DEF BatcherOK, Placed
<1>4. \A r \in Reads \ done : settled'[r] = settled[r]
  BY DEF Batcher!Settle
<1>5. \A r \in done : settled'[r] \in {<<r>>, <<Batcher!Rejected>>}
  <2> TAKE r \in done
  <2>1. r \in Reads /\ settled[r] = << >>
    BY <1>1, <1>2 DEF BatcherOK, Placed
  <2>2. settled'[r] = Append(settled[r], given[r])
    BY <2>1 DEF Batcher!Settle
  <2>3. settled'[r] = <<given[r]>>
    BY <2>1, <2>2
  <2> QED  BY <2>3
<1> HIDE DEF alone, done
<1> QED  BY <1>1, <1>2, <1>3, <1>4, <1>5, Regrouped DEF alone

LEMMA EnqueueKeeps ==
  ASSUME BatcherOK, NEW r \in Reads, Batcher!Enqueue(r)
  PROVE  BatcherOK'
<1> USE DEF Batcher!Enqueue
<1>1. /\ single[r] = 0 /\ settled[r] = << >> /\ r \notin ToSet(pending)
      /\ r \notin Flying(flushes)
  BY SetsAreSame DEF Batcher!Made, Batcher!None, Flying
<1>2. CASE supported
  <2>1. pending' \in Seq(Reads) /\ Distinct(pending') /\ ToSet(pending') = ToSet(pending) \cup {r}
    <3> DEFINE n == Len(pending)
    <3>1. n \in Nat /\ DOMAIN pending = 1..n /\ pending \in Seq(Reads) /\ pending' = Append(pending, r)
      BY <1>2 DEF BatcherOK
    <3>2. /\ pending' \in Seq(Reads) /\ DOMAIN pending' = 1 .. n + 1 /\ pending'[n + 1] = r
          /\ \A i \in 1..n : pending'[i] = pending[i]
      BY <3>1
    <3> HIDE DEF n
    <3>3. \A i \in 1 .. n + 1 : i = n + 1 \/ i \in 1..n
      BY <3>1
    <3>4. n + 1 \in 1 .. n + 1 /\ \A i \in 1..n : i \in 1 .. n + 1
      BY <3>1
    <3>5. ToSet(pending') = ToSet(pending) \cup {r}
      BY <3>1, <3>2, <3>3, <3>4 DEF ToSet
    <3>6. \A i \in 1..n : pending[i] # r
      BY <1>1, <3>1 DEF ToSet
    <3>7. Distinct(pending')
      BY <3>1, <3>2, <3>3, <3>6 DEF Distinct, BatcherOK
    <3> QED  BY <3>2, <3>5, <3>7
  <2>2. ASSUME NEW x \in Reads
        PROVE  Placed(x)'
    BY <1>1, <1>2, <2>1, <2>2 DEF BatcherOK, Placed
  <2>3. RunsOK(flushes') /\ single' \in [Reads -> Nat]
    BY <1>2 DEF BatcherOK
  <2> QED  BY <2>1, <2>2, <2>3 DEF BatcherOK
<1>3. CASE ~supported
  <2>1. single' \in [Reads -> Nat] /\ \A x \in Reads : single'[x] = IF x = r THEN 1 ELSE single[x]
    BY <1>3 DEF Batcher!Alone, BatcherOK
  <2>2. ASSUME NEW x \in Reads
        PROVE  Placed(x)'
    BY <1>1, <1>3, <2>1, <2>2 DEF BatcherOK, Placed
  <2>3. pending' \in Seq(Reads) /\ Distinct(pending') /\ RunsOK(flushes')
    BY <1>3 DEF BatcherOK
  <2> QED  BY <2>1, <2>2, <2>3 DEF BatcherOK
<1> QED  BY <1>2, <1>3

LEMMA FlushKeeps ==
  ASSUME BatcherOK, Batcher!Flush
  PROVE  BatcherOK'
<1> DEFINE alone == Batcher!SentSingly(pending, supported)
<1> USE DEF Batcher!Flush
<1>1. alone \in {{}, ToSet(pending)} /\ ToSet(pending) \subseteq Reads
  BY SetsAreSame DEF Batcher!SentSingly, ToSet, BatcherOK
<1>2. pending' = << >> /\ settled' = settled /\ single' = Batcher!Alone(alone)
  OBVIOUS
<1>3. pending' \in Seq(Reads) /\ Distinct(pending') /\ ToSet(pending') = {}
  BY <1>2 DEF Distinct, ToSet
<1>4. pending \in Seq(Reads) /\ Distinct(pending) /\ ToSet(pending) \cap Flying(flushes) = {}
  BY <1>1 DEF BatcherOK, Placed
<1>5. RunsOK(flushes')
      /\ Flying(flushes') \subseteq Flying(flushes) \cup (ToSet(pending) \ alone)
  <2>1. RunsOK(flushes)
    BY DEF BatcherOK
  <2>2. CASE alone # {}
    BY <2>1, <2>2
  <2>3. CASE alone = {}
    <3>1. flushes' = Append(flushes, [items |-> pending, attempt |-> 1])
      BY <2>3
    <3> QED  BY <1>4, <2>1, <2>3, <3>1, OneMoreFlush
  <2> QED  BY <2>2, <2>3
<1> HIDE DEF alone
<1> QED  BY <1>1, <1>2, <1>3, <1>4, <1>5, Regrouped

LEMMA UnsupportedKeeps ==
  ASSUME BatcherOK, NEW f \in DOMAIN flushes, Batcher!Unsupported(f)
  PROVE  BatcherOK'
<1> DEFINE alone == ToSet(flushes[f].items)
<1> USE DEF Batcher!Unsupported
<1>1. single' = Batcher!Alone(alone) /\ settled' = settled /\ pending' = pending
  BY SetsAreSame
<1>2. RunsOK(flushes') /\ Flying(flushes') \subseteq Flying(flushes) \ alone
  BY FewerFlushes DEF BatcherOK
<1>3. alone \subseteq Reads
  BY FlushTypes DEF BatcherOK
<1>4. alone \subseteq Flying(flushes) /\ Flying(flushes) \subseteq Reads
  BY <1>3 DEF Flying
<1>5. pending \in Seq(Reads) /\ Distinct(pending) /\ ToSet(pending) \cap Flying(flushes) = {}
  BY <1>4 DEF BatcherOK, Placed
<1> HIDE DEF alone
<1> QED  BY <1>1, <1>2, <1>3, <1>4, <1>5, Regrouped

(* Whatever the order of the responses, a read gets its own or a failure.  *)
LEMMA EnvelopeKeeps ==
  ASSUME BatcherOK, NEW f \in DOMAIN flushes, NEW ids, NEW bad, Batcher!Envelope(f, ids, bad)
  PROVE  BatcherOK'
<1> DEFINE c == Batcher!Chunk(flushes[f].items)
           for(n) == c[ids[n]]
           given == [r \in {for(n) : n \in DOMAIN ids} |->
                       LET n == CHOOSE m \in DOMAIN ids : for(m) = r
                       IN  IF ids[n] \in bad THEN Batcher!Rejected ELSE c[ids[n]]]
<1>1. /\ Batcher!WellFormed(ids, c)
      /\ settled' = Batcher!Settle(given)
      /\ single' = Batcher!Alone(Batcher!SentSingly(Batcher!Rest(flushes[f].items), supported))
      /\ flushes' = Batcher!GoingOn(f, Batcher!Rest(flushes[f].items), supported)
      /\ pending' = pending
  BY DEF Batcher!Envelope, Batcher!Addressed
<1>2. DOMAIN given \subseteq ToSet(c)
  <2>1. \A n \in DOMAIN ids : ids[n] \in DOMAIN c
    BY <1>1, SetsAreSame DEF Batcher!WellFormed, ToSet
  <2> QED  BY <2>1 DEF ToSet
<1>3. ASSUME NEW r \in DOMAIN given
      PROVE  given[r] \in {r, Batcher!Rejected}
  <2> DEFINE n == CHOOSE m \in DOMAIN ids : for(m) = r
  <2>1. n \in DOMAIN ids /\ for(n) = r
    OBVIOUS
  <2>2. given[r] = IF ids[n] \in bad THEN Batcher!Rejected ELSE c[ids[n]]
    OBVIOUS
  <2> QED  BY <2>1, <2>2
<1> HIDE DEF given, for
<1> QED  BY <1>1, <1>2, <1>3, ChunkSettled DEF c

LEMMA EnvelopeFailsKeeps ==
  ASSUME BatcherOK, NEW f \in DOMAIN flushes, NEW error, Batcher!EnvelopeFails(f, error)
  PROVE  BatcherOK'
<1> DEFINE given == [r \in ToSet(Batcher!Chunk(flushes[f].items)) |-> Batcher!Rejected]
<1>1. /\ settled' = Batcher!Settle(given)
      /\ single' = Batcher!Alone(Batcher!SentSingly(Batcher!Rest(flushes[f].items), supported))
      /\ flushes' = Batcher!GoingOn(f, Batcher!Rest(flushes[f].items), supported)
      /\ pending' = pending
  BY SetsAreSame DEF Batcher!EnvelopeFails
<1>2. /\ DOMAIN given = ToSet(Batcher!Chunk(flushes[f].items))
      /\ \A r \in DOMAIN given : given[r] = Batcher!Rejected
  OBVIOUS
<1> HIDE DEF given
<1> QED  BY <1>1, <1>2, ChunkSettled

LEMMA EnvelopeRetryKeeps ==
  ASSUME BatcherOK, NEW f \in DOMAIN flushes, NEW error, Batcher!EnvelopeRetry(f, error)
  PROVE  BatcherOK'
<1> DEFINE d == flushes[f].items
           k == flushes[f].attempt + 1
<1> USE DEF Batcher!EnvelopeRetry
<1>1. /\ RunsOK(flushes) /\ flushes[f] \in Batch
  BY FlushTypes DEF BatcherOK
<1>2. d \in Seq(Reads) /\ k \in Nat /\ Distinct(d)
  BY <1>1, FlushTypes
<1>3. [flushes[f] EXCEPT !.attempt = k] = [items |-> d, attempt |-> k]
  BY <1>1 DEF Batch
<1>4. flushes' = [flushes EXCEPT ![f] = [items |-> d, attempt |-> k]]
  BY <1>3
<1>5. RunsOK(flushes') /\ Flying(flushes') \subseteq Flying(flushes)
  <2> HIDE DEF k, Batcher!EnvelopeRetry
  <2>1. Flying(flushes') \subseteq Flying(flushes) \ (ToSet(d) \ ToSet(d)) /\ RunsOK(flushes')
    BY <1>1, <1>2, <1>4, SmallerFlush
  <2> QED  BY <2>1
<1>6. ASSUME NEW r \in Reads
      PROVE  Placed(r)'
  BY <1>5 DEF BatcherOK, Placed
<1> QED  BY <1>5, <1>6 DEF BatcherOK

LEMMA SingleReturnsKeeps ==
  ASSUME BatcherOK, NEW r \in Reads, NEW given \in {r, Batcher!Rejected},
         Batcher!SingleReturns(r, given)
  PROVE  BatcherOK'
<1> USE DEF Batcher!SingleReturns
<1>1. /\ settled[r] = << >> /\ r \notin ToSet(pending) /\ r \notin Flying(flushes)
  BY DEF BatcherOK, Placed, Batcher!None
<1>2. single' \in [Reads -> Nat] /\ \A x \in Reads : single'[x] = IF x = r THEN 0 ELSE single[x]
  BY DEF BatcherOK, Batcher!None
<1>3. settled'[r] = Append(settled[r], given) /\ \A x \in Reads : x # r => settled'[x] = settled[x]
  BY DEF Batcher!Settle
<1>4. settled'[r] = <<given>>
  BY <1>1, <1>3
<1>5. ASSUME NEW x \in Reads
      PROVE  Placed(x)'
  <2>1. CASE x = r
    BY <1>1, <1>2, <1>4, <2>1 DEF Placed
  <2>2. CASE x # r
    BY <1>2, <1>3, <2>2 DEF BatcherOK, Placed
  <2> QED  BY <2>1, <2>2
<1> QED  BY <1>2, <1>5 DEF BatcherOK

LEMMA SingleRetryKeeps ==
  ASSUME BatcherOK, NEW r \in Reads, NEW error, Batcher!SingleRetry(r, error)
  PROVE  BatcherOK'
<1> USE DEF Batcher!SingleRetry
<1>1. /\ single' \in [Reads -> Nat] /\ single[r] # 0
      /\ \A x \in Reads : x # r => single'[x] = single[x]
  BY DEF BatcherOK, Batcher!None
<1>2. ASSUME NEW x \in Reads
      PROVE  Placed(x)'
  BY <1>1 DEF BatcherOK, Placed
<1> QED  BY <1>1, <1>2 DEF BatcherOK

LEMMA BatcherKeeps ==
  ASSUME BatcherOK, [Batcher!Next]_Batcher!vars
  PROVE  BatcherOK'
<1>1. CASE \E r \in Reads : Batcher!Enqueue(r)
  BY <1>1, EnqueueKeeps
<1>2. ASSUME NEW r \in Reads, Batcher!Ends(r)
      PROVE  BatcherOK'
  BY <1>2, SingleReturnsKeeps, SingleRetryKeeps DEF Batcher!Ends, Batcher!SingleFails
<1>3. CASE Batcher!Flush
  BY <1>3, FlushKeeps
<1>4. ASSUME NEW f \in DOMAIN flushes, Batcher!Comes(f)
      PROVE  BatcherOK'
  BY <1>4, UnsupportedKeeps, EnvelopeKeeps, EnvelopeFailsKeeps, EnvelopeRetryKeeps
     DEF Batcher!Comes, Batcher!Misformed
<1>5. CASE UNCHANGED Batcher!vars
  BY <1>5 DEF Batcher!vars, BatcherOK, Placed
<1> QED  BY <1>1, <1>2, <1>3, <1>4, <1>5 DEF Batcher!Next

LEMMA BatcherStarts ==
  ASSUME Batcher!Init
  PROVE  BatcherOK
<1> USE DEF Batcher!Init
<1>1. RunsOK(flushes) /\ Flying(flushes) = {}
  BY DEF RunsOK, Flying
<1>2. pending \in Seq(Reads) /\ Distinct(pending) /\ ToSet(pending) = {}
  BY DEF Distinct, ToSet
<1>3. single \in [Reads -> Nat]
  BY DEF Batcher!None
<1>4. \A r \in Reads : single[r] = 0 /\ settled[r] = << >>
  BY DEF Batcher!None
<1> QED  BY <1>1, <1>2, <1>3, <1>4 DEF BatcherOK, Placed

LEMMA BatcherSuffices ==
  ASSUME BatcherOK
  PROVE  ReadsGetTheirOwn
BY SetsAreSame DEF BatcherOK, Placed, Flying, ReadsGetTheirOwn, Batcher!ReadsGetTheirOwn,
                   Batcher!None

(* A read is settled at most once, with the answer to its own transaction  *)
(* or a failure, and nothing of it is under way then: whatever order and   *)
(* number of responses an envelope brings, whichever attempts fail, and    *)
(* however flushes overlap.                                                *)
THEOREM ReadsAreAnsweredApart == Batcher!Spec => []ReadsGetTheirOwn
  BY BatcherStarts, BatcherKeeps, BatcherSuffices, PTL DEF Batcher!Spec

------------------------------------------------------------------------------
(* Listings and watches of proposals.                                      *)

Replies  == Listings!ContractStatus \cup {"asked", "null"}
Gots     == UNION {[ids -> Replies] : ids \in SUBSET (1..MaxProposals)}
Listing  == [at : {"idle", "counting", "reading", "done", "failed"},
             offset : Nat, limit : Nat, total : Nat, got : Gots]
Watching == [at : {"idle", "asking", "waiting", "returned", "not_found", "failed", "timeout"},
             id : 0..MaxProposals, target : Listings!ContractStatus \cup {"none"},
             last : Listings!ContractStatus \cup {"null", "none"}, polls : Nat]

(* What a listing "c" has been told was so, of the proposals it asked for. *)
ListingOK(c, living) ==
  /\ c.at = "counting" => c.limit > 0
  /\ c.at \in {"reading", "done"} /\ c.limit > 0 =>
       /\ c.total <= Len(proposals)
       /\ DOMAIN c.got = Listings!Window(c.offset, c.limit, c.total)
       /\ \A i \in DOMAIN c.got : c.got[i] \in living[i] \/ (c.got[i] = "asked" /\ c.at = "reading")

WatchOK(w, living) ==
  w.at = "returned" => w.id \in 1..MaxProposals /\ w.last = w.target /\ w.last \in living[w.id]

(* One call at most is on, and what proposals become meanwhile is known.   *)
ListingsOK ==
  /\ proposals \in Seq(Listings!ContractStatus) /\ Len(proposals) <= MaxProposals
  /\ lived \in [1..MaxProposals -> SUBSET Listings!ContractStatus]
  /\ listing \in Listing /\ watch \in Watching
  /\ ~Listings!Idle => \A i \in DOMAIN proposals : proposals[i] \in lived[i]
  /\ ListingOK(listing, lived)
  /\ WatchOK(watch, lived)

(* The ids asked for are those of the window.                              *)
LEMMA WindowIds ==
  ASSUME NEW offset \in Nat, NEW limit \in Nat, NEW total \in Nat
  PROVE  Listings!Window(offset, limit, total)
           = {i \in 1..total : i > offset /\ i <= offset + limit}
<1> DEFINE m == Listings!Min({total, offset + limit})
<1>1. /\ \E x \in {total, offset + limit} : \A y \in {total, offset + limit} : x <= y
  OBVIOUS
<1>2. m \in {total, offset + limit} /\ \A y \in {total, offset + limit} : m <= y
  BY <1>1 DEF Listings!Min
<1> HIDE DEF m
<1>3. Listings!Window(offset, limit, total) = (offset + 1) .. m
  BY DEF Listings!Window, Listings!WindowEnd, m
<1>4. m \in Nat /\ m <= total /\ m <= offset + limit /\ (m = total \/ m = offset + limit)
  BY <1>2
<1> QED  BY <1>3, <1>4

LEMMA WindowWithin ==
  ASSUME NEW offset \in Nat, NEW limit \in Nat, NEW total \in Nat, total <= MaxProposals
  PROVE  Listings!Window(offset, limit, total) \in SUBSET (1..MaxProposals)
BY WindowIds, ListingsAssumption

LEMMA NothingGot == << >> \in Gots
<1>1. << >> \in [{} -> Replies] /\ {} \in SUBSET (1..MaxProposals)
  OBVIOUS
<1> QED  BY <1>1 DEF Gots

LEMMA GotMore ==
  ASSUME NEW got \in Gots, NEW i \in DOMAIN got, NEW s \in Replies
  PROVE  /\ [got EXCEPT ![i] = s] \in Gots
         /\ DOMAIN got \subseteq 1..MaxProposals
<1>1. PICK ids \in SUBSET (1..MaxProposals) : got \in [ids -> Replies]
  BY DEF Gots
<1>2. [got EXCEPT ![i] = s] \in [ids -> Replies]
  BY <1>1
<1> QED  BY <1>1, <1>2 DEF Gots

LEMMA GotWithin ==
  ASSUME NEW got \in Gots
  PROVE  DOMAIN got \subseteq 1..MaxProposals /\ \A i \in DOMAIN got : got[i] \in Replies
BY DEF Gots

(* A proposal comes to a new status: a call under way may be told of it.   *)
LEMMA StatusSeen ==
  ASSUME ListingsOK, NEW i \in 1..MaxProposals, NEW s \in Listings!ContractStatus,
         lived' = Listings!Lives(i, s),
         proposals' \in Seq(Listings!ContractStatus), Len(proposals') <= MaxProposals,
         Len(proposals) <= Len(proposals'),
         i \in DOMAIN proposals' /\ proposals'[i] = s,
         \A j \in DOMAIN proposals' : j # i => j \in DOMAIN proposals /\ proposals'[j] = proposals[j],
         UNCHANGED <<listing, watch>>
  PROVE  ListingsOK'
<1>1. /\ lived' \in [1..MaxProposals -> SUBSET Listings!ContractStatus]
      /\ \A j \in 1..MaxProposals : lived[j] \subseteq lived'[j]
      /\ ~Listings!Idle => s \in lived'[i]
  BY DEF ListingsOK, Listings!Lives
<1>2. ~Listings!Idle' => \A j \in DOMAIN proposals' : proposals'[j] \in lived'[j]
  <2>1. Listings!Idle' = Listings!Idle
    BY DEF Listings!Idle
  <2>2. DOMAIN proposals' \subseteq 1..MaxProposals
    BY ListingsAssumption
  <2> QED  BY <1>1, <2>1, <2>2 DEF ListingsOK
<1>3. ListingOK(listing, lived)'
  <2>1. DOMAIN listing.got \subseteq 1..MaxProposals
    BY GotWithin DEF ListingsOK, Listing
  <2>2. listing.total \in Nat /\ Len(proposals) \in Nat /\ Len(proposals') \in Nat
    BY DEF ListingsOK, Listing
  <2> QED  BY <1>1, <2>1, <2>2 DEF ListingsOK, ListingOK
<1>4. WatchOK(watch, lived)'
  BY <1>1 DEF ListingsOK, WatchOK
<1> QED  BY <1>1, <1>2, <1>3, <1>4 DEF ListingsOK

LEMMA CreateKeeps ==
  ASSUME ListingsOK, Listings!Create
  PROVE  ListingsOK'
<1> DEFINE n == Len(proposals)
<1>1. /\ n \in Nat /\ n < MaxProposals /\ DOMAIN proposals = 1..n
      /\ proposals \in Seq(Listings!ContractStatus)
      /\ "Active" \in Listings!ContractStatus
      /\ proposals' = Append(proposals, "Active")
  BY DEF Listings!Create, ListingsOK, Listings!ContractStatus
<1>2. /\ proposals' \in Seq(Listings!ContractStatus)
      /\ Len(proposals') = n + 1 /\ DOMAIN proposals' = 1 .. n + 1
      /\ proposals'[n + 1] = "Active"
      /\ \A j \in 1..n : proposals'[j] = proposals[j]
  BY <1>1
<1>3. lived' = Listings!Lives(n + 1, "Active") /\ UNCHANGED <<listing, watch>>
  BY DEF Listings!Create
<1> HIDE DEF n
<1>4. n + 1 \in 1..MaxProposals /\ n + 1 <= MaxProposals /\ n + 1 \in 1 .. n + 1 /\ n <= n + 1
  BY <1>1, ListingsAssumption
<1>5. \A j \in 1 .. n + 1 : j # n + 1 => j \in 1..n
  BY <1>1
<1> QED  BY <1>1, <1>2, <1>3, <1>4, <1>5, StatusSeen DEF n

LEMMA MoveKeeps ==
  ASSUME ListingsOK, NEW i \in DOMAIN proposals, Listings!Move(i)
  PROVE  ListingsOK'
<1>1. PICK s \in Listings!Successors(proposals[i]) :
        proposals' = [proposals EXCEPT ![i] = s] /\ lived' = Listings!Lives(i, s)
  BY DEF Listings!Move
<1>2. proposals \in Seq(Listings!ContractStatus) /\ Len(proposals) \in Nat
      /\ Len(proposals) <= MaxProposals /\ i \in 1..MaxProposals
  BY ListingsAssumption DEF ListingsOK
<1>3. s \in Listings!ContractStatus
  BY <1>1 DEF Listings!Successors, Listings!ContractStatus
<1>4. /\ proposals' \in Seq(Listings!ContractStatus) /\ Len(proposals') = Len(proposals)
      /\ DOMAIN proposals' = DOMAIN proposals
      /\ proposals'[i] = s /\ \A j \in DOMAIN proposals' : j # i => proposals'[j] = proposals[j]
  BY <1>1, <1>2, <1>3
<1>5. UNCHANGED <<listing, watch>>
  BY DEF Listings!Move
<1> QED  BY <1>1, <1>2, <1>3, <1>4, <1>5, StatusSeen

(* A call begins.                                                          *)
LEMMA SinceNow ==
  ASSUME ListingsOK
  PROVE  /\ Listings!Since \in [1..MaxProposals -> SUBSET Listings!ContractStatus]
         /\ \A i \in DOMAIN proposals : proposals[i] \in Listings!Since[i]
<1>1. /\ proposals \in Seq(Listings!ContractStatus) /\ DOMAIN proposals \subseteq 1..MaxProposals
      /\ \A i \in DOMAIN proposals : proposals[i] \in Listings!ContractStatus
  BY ListingsAssumption DEF ListingsOK
<1> QED  BY <1>1 DEF Listings!Since

LEMMA ListKeeps ==
  ASSUME ListingsOK, NEW offset \in Nat, NEW limit \in Nat, Listings!List(offset, limit)
  PROVE  ListingsOK'
<1> USE DEF Listings!List
<1> DEFINE at == IF limit = 0 THEN "done" ELSE "counting"
<1>1. listing' = [at |-> at, offset |-> offset, limit |-> limit, total |-> 0, got |-> << >>]
  BY DEF Listings!NoListing
<1>2. listing' \in Listing
  <2>1. at \in {"done", "counting"}
    OBVIOUS
  <2> HIDE DEF at, Listings!List
  <2> QED  BY <1>1, <2>1, NothingGot DEF Listing
<1>3. /\ lived' \in [1..MaxProposals -> SUBSET Listings!ContractStatus]
      /\ \A i \in DOMAIN proposals : proposals[i] \in lived'[i]
  BY SinceNow
<1>4. ListingOK(listing, lived)' /\ WatchOK(watch, lived)'
  BY <1>1 DEF ListingOK, WatchOK, Listings!Uncalled
<1> QED  BY <1>2, <1>3, <1>4 DEF ListingsOK

LEMMA CountKeeps ==
  ASSUME ListingsOK, Listings!Count
  PROVE  ListingsOK'
<1> DEFINE n == Len(proposals)
           ids == Listings!Window(listing.offset, listing.limit, n)
<1> USE DEF Listings!Count
<1>1. n \in Nat /\ n <= MaxProposals /\ listing \in Listing /\ listing.limit > 0
  BY DEF ListingsOK, ListingOK
<1>2. listing.offset \in Nat /\ listing.limit \in Nat
  BY <1>1 DEF Listing
<1>3. ids \in SUBSET (1..MaxProposals)
  BY <1>1, <1>2, WindowWithin
<1>4. listing' = [at |-> IF ids = {} THEN "done" ELSE "reading", offset |-> listing.offset,
                  limit |-> listing.limit, total |-> n, got |-> [i \in ids |-> "asked"]]
  BY <1>1 DEF Listing, Listings!Fanned
<1>5. UNCHANGED <<proposals, watch, lived>> /\ listing.at = "counting"
  OBVIOUS
<1> HIDE DEF n, ids, Listings!Count
<1>6. [i \in ids |-> "asked"] \in [ids -> Replies]
  BY DEF Replies
<1>7. [i \in ids |-> "asked"] \in Gots
  BY <1>3, <1>6 DEF Gots
<1>8. listing' \in Listing
  BY <1>1, <1>2, <1>4, <1>7 DEF Listing
<1>9. ListingOK(listing, lived)'
  <2>1. listing'.total <= Len(proposals')
    BY <1>1, <1>4, <1>5 DEF n
  <2>2. DOMAIN listing'.got = Listings!Window(listing'.offset, listing'.limit, listing'.total)
    BY <1>4 DEF ids
  <2>3. \A i \in DOMAIN listing'.got : listing'.got[i] = "asked" /\ listing'.at = "reading"
    BY <1>4
  <2>4. listing'.at # "counting"
    BY <1>4
  <2> QED  BY <2>1, <2>2, <2>3, <2>4 DEF ListingOK
<1>10. ~Listings!Idle' => ~Listings!Idle
  BY <1>5 DEF Listings!Idle
<1> QED  BY <1>5, <1>8, <1>9, <1>10 DEF ListingsOK

LEMMA GotKeeps ==
  ASSUME ListingsOK, NEW i \in 1..MaxProposals, Listings!Got(i)
  PROVE  ListingsOK'
<1> DEFINE s == IF i \in DOMAIN proposals THEN proposals[i] ELSE "null"
           got == [listing.got EXCEPT ![i] = s]
           next == IF ~Listings!Decodes(s) THEN "failed"
                   ELSE IF \A j \in DOMAIN got : got[j] # "asked" THEN "done" ELSE listing.at
<1>1. /\ listing.at = "reading" /\ i \in DOMAIN listing.got
      /\ listing' = [listing EXCEPT !.got = got, !.at = next]
      /\ UNCHANGED <<proposals, watch, lived>>
  BY DEF Listings!Got
<1>2. /\ listing \in Listing /\ listing.got \in Gots /\ listing.offset \in Nat
      /\ listing.limit \in Nat /\ listing.total \in Nat /\ Len(proposals) \in Nat
  BY DEF ListingsOK, Listing
<1>3. s \in Replies
  BY DEF ListingsOK, Replies
<1> HIDE DEF s
<1>4. got \in Gots /\ DOMAIN got = DOMAIN listing.got
      /\ got[i] = s /\ \A j \in DOMAIN got : j # i => got[j] = listing.got[j]
  BY <1>1, <1>2, <1>3, GotMore
<1> HIDE DEF got
<1>5. next \in {"reading", "done", "failed"}
      /\ (next = "done" => \A j \in DOMAIN got : got[j] # "asked")
  BY <1>1
<1> HIDE DEF next
<1>6. listing' = [at |-> next, offset |-> listing.offset, limit |-> listing.limit,
                  total |-> listing.total, got |-> got]
  BY <1>1, <1>2 DEF Listing
<1>7. listing' \in Listing
  BY <1>2, <1>4, <1>5, <1>6 DEF Listing
<1>8. ListingOK(listing, lived)'
  <2>1. SUFFICES ASSUME listing.limit > 0
                 PROVE  /\ listing.total <= Len(proposals)
                        /\ DOMAIN got = Listings!Window(listing.offset, listing.limit, listing.total)
                        /\ \A j \in DOMAIN got : got[j] \in lived[j] \/ got[j] = "asked"
    <3>1. /\ listing'.at = next /\ listing'.got = got /\ listing'.total = listing.total
          /\ listing'.offset = listing.offset /\ listing'.limit = listing.limit
      BY <1>6
    <3> QED  BY <1>1, <1>5, <2>1, <3>1 DEF ListingOK
  <2>2. /\ listing.total <= Len(proposals)
        /\ DOMAIN got = Listings!Window(listing.offset, listing.limit, listing.total)
        /\ \A j \in DOMAIN listing.got : listing.got[j] \in lived[j] \/ listing.got[j] = "asked"
    BY <1>1, <1>4, <2>1 DEF ListingsOK, ListingOK
  <2>3. s \in lived[i]
    <3>1. i \in 1 .. listing.total
      BY <1>1, <1>2, <1>4, <2>2, WindowIds
    <3>2. i \in DOMAIN proposals
      BY <1>2, <2>2, <3>1 DEF ListingsOK
    <3> QED  BY <1>1, <3>2 DEF s, ListingsOK, Listings!Idle
  <2> QED  BY <1>4, <2>2, <2>3
<1>9. ~Listings!Idle
  BY <1>1 DEF Listings!Idle
<1> QED  BY <1>1, <1>7, <1>8, <1>9 DEF ListingsOK

LEMMA WatchKeeps ==
  ASSUME ListingsOK, NEW i \in 1..MaxProposals, NEW target \in Listings!ContractStatus,
         Listings!Watch(i, target)
  PROVE  ListingsOK'
<1> USE DEF Listings!Watch
<1>1. watch' = [at |-> "asking", id |-> i, target |-> target, last |-> "none", polls |-> 0]
  BY DEF Listings!NoWatch
<1>2. watch' \in Watching
  BY <1>1, ListingsAssumption DEF Watching
<1>3. /\ lived' \in [1..MaxProposals -> SUBSET Listings!ContractStatus]
      /\ \A j \in DOMAIN proposals : proposals[j] \in lived'[j]
  BY SinceNow
<1>4. ListingOK(listing, lived)' /\ WatchOK(watch, lived)'
  BY <1>1 DEF ListingOK, WatchOK, Listings!Uncalled
<1> QED  BY <1>2, <1>3, <1>4 DEF ListingsOK

LEMMA LookAtWatchedKeeps ==
  ASSUME ListingsOK, Listings!Poll
  PROVE  ListingsOK'
<1> DEFINE s == IF watch.id \in DOMAIN proposals THEN proposals[watch.id] ELSE "null"
           next == IF s = "null" THEN "not_found"
                   ELSE IF ~Listings!Decodes(s) THEN "failed"
                   ELSE IF Listings!Reached(s, watch.target) THEN "returned"
                   ELSE IF watch.polls >= Patience THEN "timeout" ELSE "waiting"
<1>1. /\ watch.at = "asking" /\ watch' = [watch EXCEPT !.last = s, !.at = next]
      /\ UNCHANGED <<proposals, listing, lived>>
  BY DEF Listings!Poll
<1>2. watch \in Watching
  BY DEF ListingsOK
<1>3. s \in Listings!ContractStatus \cup {"null", "none"}
      /\ (s # "null" => watch.id \in DOMAIN proposals /\ s = proposals[watch.id])
  BY DEF ListingsOK
<1> HIDE DEF s
<1>4. next \in {"not_found", "failed", "returned", "timeout", "waiting"}
      /\ (next = "returned" => s # "null" /\ s = watch.target)
  BY DEF Listings!Reached
<1> HIDE DEF next
<1>5. watch' = [at |-> next, id |-> watch.id, target |-> watch.target, last |-> s,
                polls |-> watch.polls]
  BY <1>1, <1>2 DEF Watching
<1>6. watch' \in Watching
  BY <1>2, <1>3, <1>4, <1>5 DEF Watching
<1>7. WatchOK(watch, lived)'
  <2>1. SUFFICES ASSUME next = "returned"
                 PROVE  watch.id \in 1..MaxProposals /\ s = watch.target /\ s \in lived[watch.id]
    BY <1>1, <1>5 DEF WatchOK
  <2>2. watch.id \in DOMAIN proposals /\ s = proposals[watch.id] /\ s = watch.target
    BY <1>3, <1>4, <2>1
  <2>3. DOMAIN proposals \subseteq 1..MaxProposals
    BY ListingsAssumption DEF ListingsOK
  <2> QED  BY <1>1, <2>2, <2>3 DEF ListingsOK, Listings!Idle
<1>8. ~Listings!Idle
  BY <1>1 DEF Listings!Idle
<1>9. ListingOK(listing, lived)'
  BY <1>1 DEF ListingsOK, ListingOK
<1> QED  BY <1>1, <1>6, <1>7, <1>8, <1>9 DEF ListingsOK

LEMMA DelayKeeps ==
  ASSUME ListingsOK, Listings!Delay
  PROVE  ListingsOK'
<1>1. /\ watch.at = "waiting" /\ watch' = [watch EXCEPT !.at = "asking", !.polls = watch.polls + 1]
      /\ UNCHANGED <<proposals, listing, lived>> /\ watch \in Watching
  BY DEF Listings!Delay, ListingsOK
<1>2. watch' \in Watching /\ watch'.at = "asking"
  <2>1. watch' = [at |-> "asking", id |-> watch.id, target |-> watch.target, last |-> watch.last,
                  polls |-> watch.polls + 1]
    BY <1>1 DEF Watching
  <2> HIDE DEF Listings!Delay
  <2> QED  BY <1>1, <2>1 DEF Watching
<1>3. ~Listings!Idle
  BY <1>1 DEF Listings!Idle
<1>4. ListingOK(listing, lived)' /\ WatchOK(watch, lived)'
  BY <1>1, <1>2 DEF ListingsOK, ListingOK, WatchOK
<1> QED  BY <1>1, <1>2, <1>3, <1>4 DEF ListingsOK

LEMMA ListingsKeep ==
  ASSUME ListingsOK, [Listings!Next]_Listings!vars
  PROVE  ListingsOK'
<1>1. ASSUME NEW w \in Windows, Listings!List(w[1], w[2])
      PROVE  ListingsOK'
  <2>1. w[1] \in Nat /\ w[2] \in Nat
    BY ListingsAssumption
  <2> QED  BY <1>1, <2>1, ListKeeps
<1>2. CASE UNCHANGED Listings!vars
  BY <1>2 DEF Listings!vars, ListingsOK, ListingOK, WatchOK, Listings!Idle
<1> QED  BY <1>1, <1>2, CreateKeeps, MoveKeeps, CountKeeps, GotKeeps, WatchKeeps,
            LookAtWatchedKeeps, DelayKeeps DEF Listings!Next

LEMMA ListingsStart ==
  ASSUME Listings!Init
  PROVE  ListingsOK
<1> USE DEF Listings!Init
<1>1. listing \in Listing /\ watch \in Watching
  BY NothingGot, ListingsAssumption DEF Listings!NoListing, Listings!NoWatch, Listing, Watching
<1>2. proposals \in Seq(Listings!ContractStatus) /\ Len(proposals) <= MaxProposals
  BY ListingsAssumption
<1>3. lived \in [1..MaxProposals -> SUBSET Listings!ContractStatus]
  OBVIOUS
<1>4. Listings!Idle /\ ListingOK(listing, lived) /\ WatchOK(watch, lived)
  BY DEF Listings!Idle, ListingOK, WatchOK, Listings!NoListing, Listings!NoWatch
<1> QED  BY <1>1, <1>2, <1>3, <1>4 DEF ListingsOK

LEMMA ListingsSuffice ==
  ASSUME ListingsOK
  PROVE  AnswersWereTrue
<1>1. ASSUME listing.at = "done", listing.limit > 0
      PROVE  /\ Listings!Listed = {i \in 1..listing.total :
                  i > listing.offset /\ i <= listing.offset + listing.limit}
             /\ \A i \in Listings!Listed : listing.got[i] \in lived[i]
  <2>1. /\ DOMAIN listing.got = Listings!Window(listing.offset, listing.limit, listing.total)
        /\ \A i \in DOMAIN listing.got : listing.got[i] \in lived[i]
    BY <1>1 DEF ListingsOK, ListingOK
  <2>2. /\ listing.offset \in Nat /\ listing.limit \in Nat /\ listing.total \in Nat
        /\ DOMAIN listing.got \subseteq 1..MaxProposals
    BY GotWithin DEF ListingsOK, Listing
  <2>3. \A i \in DOMAIN listing.got : listing.got[i] # "null"
    BY <2>1, <2>2 DEF ListingsOK, Listings!ContractStatus
  <2>4. Listings!Listed = DOMAIN listing.got
    BY <2>3 DEF Listings!Listed
  <2> QED  BY <2>1, <2>2, <2>4, WindowIds
<1> QED  BY <1>1 DEF ListingsOK, WatchOK, AnswersWereTrue, Listings!AnswersWereTrue

(* Whatever the proposals become while a call reads them one by one: what  *)
(* it returns is its window, whole, with statuses held during the call,    *)
(* and a watch returns for a status that was reached.                      *)
THEOREM ListingsWereTrue == Listings!Spec => []AnswersWereTrue
  BY ListingsStart, ListingsKeep, ListingsSuffice, PTL DEF Listings!Spec

------------------------------------------------------------------------------
(* The draft of the create page.                                           *)

(* What was typed last is about to be saved, or is saved and in the form.  *)
DraftOK ==
  Draft!HasText(last) =>
    IF timer = Draft!None THEN form = last /\ disk = last ELSE timer = last

LEMMA DraftKeeps ==
  ASSUME DraftOK, [Draft!Next]_Draft!vars
  PROVE  DraftOK'
<1> USE DEF DraftOK
<1>1. ~Draft!HasText(Draft!None)
  BY DEF Draft!HasText
<1>2. ASSUME NEW f, Draft!set(f)
      PROVE  DraftOK'
  BY <1>2 DEF Draft!set, Draft!HasText
<1>3. ASSUME NEW template, Draft!applyTemplate(template)
      PROVE  DraftOK'
  BY <1>3 DEF Draft!applyTemplate, Draft!Save, Draft!Cleared
<1>4. CASE Draft!TimerFires
  BY <1>4 DEF Draft!TimerFires, Draft!Save
<1>5. CASE Draft!handleDiscardDraft \/ Draft!handleSubmit \/ Draft!Another
  BY <1>1, <1>5 DEF Draft!handleDiscardDraft, Draft!handleSubmit, Draft!Another
<1>6. CASE Draft!handleRestoreDraft \/ Draft!Review \/ Draft!EditAgain \/ UNCHANGED Draft!vars
  BY <1>6 DEF Draft!handleRestoreDraft, Draft!Review, Draft!EditAgain, Draft!vars
<1>7. CASE Draft!Reload
  BY <1>7 DEF Draft!Reload
<1> QED  BY <1>2, <1>3, <1>4, <1>5, <1>6, <1>7 DEF Draft!Next

LEMMA DraftStarts ==
  ASSUME Draft!Init
  PROVE  DraftOK
BY DEF Draft!Init, DraftOK, Draft!HasText

LEMMA DraftSuffices ==
  ASSUME DraftOK
  PROVE  DraftIsKept
BY DEF DraftOK, DraftIsKept, Draft!DraftIsKept

(* However edits, templates, saves, reloads and submissions follow each    *)
(* other, once the pending save is done what was typed last is both in the *)
(* form and in the storage, unless it was given up or had no text.         *)
THEOREM DraftsAreKept == Draft!Spec => []DraftIsKept
  BY DraftStarts, DraftKeeps, DraftSuffices, PTL DEF Draft!Spec

------------------------------------------------------------------------------
(* Notifications.                                                          *)

Marks == Proposals \X (0..MaxStage)
Copy  == [statuses : Inbox!Stages, inbox : [Addresses -> Seq(Marks)], unwatched : Inbox!Stages]
Tab   == [address : Addresses \cup {Inbox!Null}, list : Inbox!Stages \cup {<< >>}, state : Copy]

(* The status "c" records of a proposal was told its proposer.             *)
Told(c, p, a) ==
  \/ c.statuses[p] = c.unwatched[p]
  \/ <<p, c.statuses[p]>> \in ToSet(c.inbox[a])
  \/ Len(c.inbox[a]) = MAX_NOTIFICATIONS_PER_WALLET

(* Notifications are of its own proposals, once each, and came true.       *)
InboxOK(inbox, a) ==
  /\ Len(inbox) <= MAX_NOTIFICATIONS_PER_WALLET
  /\ Distinct(inbox)
  /\ \A id \in ToSet(inbox) : <<id[1], a>> \in Proposers /\ id[2] <= stage[id[1]]

CopyOK(c) ==
  /\ c \in Copy
  /\ \A pa \in Proposers : Told(c, pa[1], pa[2])
  /\ \A a \in Addresses : InboxOK(c.inbox[a], a)

ListOK(list) == list \in Inbox!Stages /\ \A p \in Proposals : list[p] <= stage[p]

NotificationsOK ==
  /\ ListOK(stage) /\ ListOK(behind)
  /\ CopyOK(storage)
  /\ tabs \in [Tabs -> Tab]
  /\ \A t \in Tabs : CopyOK(tabs[t].state) /\ (tabs[t].list # << >> => ListOK(tabs[t].list))

LEMMA Enumerated ==
  ASSUME NEW S, IsFiniteSet(S),
         NEW q, q = CHOOSE order \in [1 .. Inbox!Cardinality(S) -> S] : Inbox!IsInjective(order)
  PROVE  q \in Seq(S) /\ Distinct(q) /\ ToSet(q) = S
<1> DEFINE n == Cardinality(S)
<1>1. n \in Nat /\ ExistsBijection(1..n, S)
  BY FS_CardinalityType
<1>2. \E f \in [1..n -> S] : Inbox!IsInjective(f)
  BY <1>1 DEF ExistsBijection, Bijection, Injection, IsInjective, Inbox!IsInjective
<1>3. Inbox!Cardinality(S) = n
  BY DEF Inbox!Cardinality, Cardinality
<1>4. q \in [1..n -> S] /\ Inbox!IsInjective(q)
  BY <1>2, <1>3
<1>5. q \in Injection(1..n, S)
  BY <1>4 DEF Injection, IsInjective, Inbox!IsInjective
<1>6. Cardinality(1..n) = n
  <2> HIDE DEF n
  <2>1. Cardinality(1..n) = IF 1 > n THEN 0 ELSE n - 1 + 1
    BY <1>1, FS_Interval
  <2> QED  BY <1>1, <2>1
<1>7. q \in Surjection(1..n, S)
  BY <1>5, <1>6, FS_Injection
<1>8. \A x \in S : \E i \in 1..n : q[i] = x
  BY <1>7 DEF Surjection
<1> HIDE DEF n
<1>9. q \in Seq(S) /\ DOMAIN q = 1..n
  BY <1>1, <1>4
<1>10. Distinct(q)
  BY <1>4 DEF Inbox!IsInjective, Distinct
<1>11. ToSet(q) = S
  BY <1>4, <1>8, <1>9 DEF ToSet
<1> QED  BY <1>9, <1>10, <1>11

(* Two sequences, one after the other.                                     *)
LEMMA Joined ==
  ASSUME NEW S, NEW a \in Seq(S), NEW b \in Seq(S)
  PROVE  /\ a \o b \in Seq(S)
         /\ ToSet(a \o b) = ToSet(a) \cup ToSet(b)
         /\ Distinct(a) /\ Distinct(b) /\ ToSet(a) \cap ToSet(b) = {} => Distinct(a \o b)
<1> DEFINE m == Len(a)
           n == Len(b)
           c == a \o b
<1>1. m \in Nat /\ n \in Nat /\ DOMAIN a = 1..m /\ DOMAIN b = 1..n
  OBVIOUS
<1>2. c \in Seq(S) /\ DOMAIN c = 1 .. m + n
      /\ \A i \in 1 .. m + n : c[i] = IF i <= m THEN a[i] ELSE b[i - m]
  OBVIOUS
<1> HIDE DEF m, n, c
<1>3. /\ \A i \in 1..m : i \in 1 .. m + n /\ i <= m
      /\ \A i \in 1..n : i + m \in 1 .. m + n /\ ~(i + m <= m) /\ (i + m) - m = i
      /\ \A i \in 1 .. m + n : IF i <= m THEN i \in 1..m ELSE i - m \in 1..n
      /\ \A i, j \in 1 .. m + n : i - m = j - m => i = j
  BY <1>1
<1>4. /\ \A i \in 1..m : c[i] = a[i]
      /\ \A i \in 1..n : c[i + m] = b[i]
  BY <1>2, <1>3
<1>5. ToSet(c) = ToSet(a) \cup ToSet(b)
  <2>1. ToSet(c) \subseteq ToSet(a) \cup ToSet(b)
    <3>1. ASSUME NEW i \in 1 .. m + n
          PROVE  c[i] \in ToSet(a) \cup ToSet(b)
      <4>1. (\A j \in 1..m : a[j] \in ToSet(a)) /\ \A j \in 1..n : b[j] \in ToSet(b)
        BY <1>1 DEF ToSet
      <4>2. CASE i <= m
        <5>1. c[i] = a[i] /\ i \in 1..m
          BY <1>2, <1>3, <4>2
        <5> QED  BY <4>1, <5>1
      <4>3. CASE ~(i <= m)
        <5>1. c[i] = b[i - m] /\ i - m \in 1..n
          BY <1>2, <1>3, <4>3
        <5> QED  BY <4>1, <5>1
      <4> QED  BY <4>2, <4>3
    <3> QED  BY <1>2, <3>1 DEF ToSet
  <2>2. ToSet(a) \subseteq ToSet(c)
    BY <1>1, <1>2, <1>3, <1>4 DEF ToSet
  <2>3. ToSet(b) \subseteq ToSet(c)
    <3>1. \A i \in 1..n : c[i + m] \in ToSet(c)
      BY <1>2, <1>3 DEF ToSet
    <3>2. \A i \in 1..n : b[i] \in ToSet(c)
      BY <1>4, <3>1
    <3> QED  BY <1>1, <3>2 DEF ToSet
  <2> QED  BY <2>1, <2>2, <2>3
<1>6. ASSUME Distinct(a), Distinct(b), ToSet(a) \cap ToSet(b) = {}
      PROVE  Distinct(c)
  <2>1. \A i \in 1..m, j \in 1..n : a[i] # b[j]
    BY <1>1, <1>6 DEF ToSet
  <2>2. ASSUME NEW i \in 1 .. m + n, NEW j \in 1 .. m + n, c[i] = c[j]
        PROVE  i = j
    <3>1. CASE i <= m /\ j <= m
      BY <1>1, <1>2, <1>3, <1>6, <2>2, <3>1 DEF Distinct
    <3>2. CASE ~(i <= m) /\ ~(j <= m)
      <4>1. i - m \in 1..n /\ j - m \in 1..n /\ b[i - m] = b[j - m]
        BY <1>2, <1>3, <2>2, <3>2
      <4>2. i - m = j - m
        BY <1>1, <1>6, <4>1 DEF Distinct
      <4> QED  BY <1>3, <4>2
    <3>3. CASE i <= m /\ ~(j <= m)
      BY <1>2, <1>3, <2>1, <2>2, <3>3
    <3>4. CASE ~(i <= m) /\ j <= m
      BY <1>2, <1>3, <2>1, <2>2, <3>4
    <3> QED  BY <3>1, <3>2, <3>3, <3>4
  <2> QED  BY <1>2, <2>2 DEF Distinct
<1> QED  BY <1>2, <1>5, <1>6 DEF c

LEMMA FirstsAre ==
  ASSUME NEW S, NEW q \in Seq(S), NEW k \in Nat, k <= Len(q)
  PROVE  /\ SubSeq(q, 1, k) \in Seq(S) /\ Len(SubSeq(q, 1, k)) = k
         /\ DOMAIN SubSeq(q, 1, k) = 1..k
         /\ \A i \in 1..k : SubSeq(q, 1, k)[i] = q[i]
  OBVIOUS

(* The newest of some notifications are kept, all or as many as there may  *)
(* be.                                                                     *)
LEMMA NewestKept ==
  ASSUME NEW S, NEW q \in Seq(S), NEW n \in Nat,
         NEW z, z = SubSeq(q, 1, IF Len(q) < n THEN Len(q) ELSE n)
  PROVE  /\ z \in Seq(S) /\ Len(z) <= n
         /\ ToSet(z) \subseteq ToSet(q)
         /\ Len(z) = n \/ ToSet(z) = ToSet(q)
         /\ Distinct(q) => Distinct(z)
<1> DEFINE m == Len(q)
           k == IF m < n THEN m ELSE n
<1>1. m \in Nat /\ DOMAIN q = 1..m /\ \A i \in 1..m : q[i] \in S
  OBVIOUS
<1>2. k \in Nat /\ k <= m /\ k <= n /\ (k = n \/ k = m) /\ \A i \in 1..k : i \in 1..m
  BY <1>1
<1>3. z = SubSeq(q, 1, k)
  OBVIOUS
<1> HIDE DEF k
<1>4. z \in Seq(S) /\ Len(z) = k /\ DOMAIN z = 1..k /\ \A i \in 1..k : z[i] = q[i]
  BY <1>2, <1>3, FirstsAre
<1> HIDE DEF m
<1>5. ToSet(z) \subseteq ToSet(q) /\ (k = m => ToSet(z) = ToSet(q))
  BY <1>1, <1>2, <1>4 DEF ToSet
<1>6. Distinct(q) => Distinct(z)
  BY <1>1, <1>2, <1>4 DEF Distinct
<1> QED  BY <1>2, <1>4, <1>5, <1>6

(* Going through a list for an account.  What is newly recorded is in the  *)
(* inbox of the account if it concerns it, and else marked as unwatched.   *)
LEMMA RecordKeeps ==
  ASSUME NEW c, CopyOK(c), NEW list, ListOK(list), NEW address \in Addresses,
         NEW z, z = Inbox!recordStatusChanges(c, list, address)
  PROVE  CopyOK(z)
<1> DEFINE old   == c.inbox[address]
           S     == {p \in Inbox!Changed(c, list, address) : ~Inbox!Known(p, list, old)}
           added == CHOOSE order \in [1 .. Inbox!Cardinality(S) -> S] : Inbox!IsInjective(order)
           new   == [n \in DOMAIN added |-> <<added[n], list[added[n]]>>]
           all   == new \o old
           kept  == SubSeq(all, 1, IF Len(all) < MAX_NOTIFICATIONS_PER_WALLET THEN Len(all)
                                   ELSE MAX_NOTIFICATIONS_PER_WALLET)
           seen  == [p \in Proposals |-> IF list[p] = 0 THEN c.statuses[p] ELSE list[p]]
           away  == [p \in Proposals |->
                       IF \/ list[p] \in {0, c.statuses[p]}
                          \/ c.statuses[p] # 0 /\ Inbox!isRelevantTo(p, address)
                       THEN c.unwatched[p] ELSE list[p]]
<1>1. z = [statuses |-> seen, inbox |-> [c.inbox EXCEPT ![address] = kept], unwatched |-> away]
  BY DEF Inbox!recordStatusChanges
<1>2. /\ c.statuses \in Inbox!Stages /\ c.unwatched \in Inbox!Stages
      /\ c.inbox \in [Addresses -> Seq(Marks)] /\ list \in Inbox!Stages
      /\ old \in Seq(Marks)
  BY DEF CopyOK, Copy, ListOK
<1>3. seen \in Inbox!Stages /\ away \in Inbox!Stages
  BY <1>2 DEF Inbox!Stages
<1>4. S \subseteq Proposals /\ IsFiniteSet(S)
  <2>1. S \in SUBSET Proposals
    BY DEF Inbox!Changed
  <2> QED  BY <2>1, FS_Subset, InboxAssumption
<1>5. \A p \in S : <<p, address>> \in Proposers /\ <<p, list[p]>> \notin ToSet(old)
  BY SetsAreSame DEF Inbox!Changed, Inbox!isRelevantTo, Inbox!Known, Inbox!Range, ToSet
<1>6. added \in Seq(S) /\ Distinct(added) /\ ToSet(added) = S
  BY <1>4, Enumerated
<1> HIDE DEF added
<1>7. /\ new \in Seq(Marks) /\ Distinct(new)
      /\ ToSet(new) = {<<p, list[p]>> : p \in S}
  <2> DEFINE m == Len(added)
  <2>1. m \in Nat /\ DOMAIN added = 1..m /\ \A i \in 1..m : added[i] \in S
    BY <1>6
  <2> HIDE DEF m, S
  <2>2. \A p \in S : <<p, list[p]>> \in Marks
    BY <1>2, <1>4 DEF Marks, Inbox!Stages
  <2>3. new \in Seq(Marks) /\ DOMAIN new = 1..m /\ \A i \in 1..m : new[i] = <<added[i], list[added[i]]>>
    BY <2>1, <2>2
  <2> HIDE DEF new
  <2>4. Distinct(new)
    BY <1>6, <2>1, <2>3 DEF Distinct
  <2>5. ToSet(new) = {<<p, list[p]>> : p \in S}
    <3>1. ASSUME NEW x \in ToSet(new)
          PROVE  \E p \in S : x = <<p, list[p]>>
      <4>1. PICK i \in 1..m : x = new[i]
        BY <2>3 DEF ToSet
      <4>2. added[i] \in S /\ x = <<added[i], list[added[i]]>>
        BY <2>1, <2>3, <4>1
      <4> QED  BY <4>2
    <3>2. ASSUME NEW p \in S
          PROVE  <<p, list[p]>> \in ToSet(new)
      <4>1. PICK i \in 1..m : added[i] = p
        BY <1>6, <2>1 DEF ToSet
      <4>2. new[i] = <<p, list[p]>> /\ i \in DOMAIN new
        BY <2>3, <4>1
      <4> QED  BY <4>2 DEF ToSet
    <3> QED  BY <3>1, <3>2
  <2> QED  BY <2>3, <2>4, <2>5
<1> HIDE DEF new
<1>8. Distinct(old) /\ Len(old) <= MAX_NOTIFICATIONS_PER_WALLET
  BY DEF CopyOK, InboxOK
<1> HIDE DEF S, old
<1>9. /\ all \in Seq(Marks) /\ ToSet(all) = ToSet(new) \cup ToSet(old) /\ Distinct(all)
  <2>1. ToSet(new) \cap ToSet(old) = {}
    BY <1>5, <1>7
  <2>2. new \in Seq(Marks) /\ old \in Seq(Marks) /\ Distinct(new) /\ Distinct(old)
    BY <1>2, <1>7, <1>8
  <2> HIDE DEF S
  <2> QED  BY <2>1, <2>2, Joined
<1>10. Len(all) = Len(new) + Len(old) /\ Len(new) \in Nat /\ Len(old) \in Nat
  BY <1>2, <1>7
<1> HIDE DEF all
<1>11. /\ kept \in Seq(Marks) /\ Len(kept) <= MAX_NOTIFICATIONS_PER_WALLET
       /\ ToSet(kept) \subseteq ToSet(all)
       /\ Len(kept) = MAX_NOTIFICATIONS_PER_WALLET \/ ToSet(kept) = ToSet(all)
       /\ Distinct(kept)
  <2>1. all \in Seq(Marks) /\ Distinct(all) /\ MAX_NOTIFICATIONS_PER_WALLET \in Nat
    BY <1>9, InboxAssumption
  <2>2. \A q \in Seq(Marks), n \in Nat : \A y :
          y = SubSeq(q, 1, IF Len(q) < n THEN Len(q) ELSE n)
            => /\ y \in Seq(Marks) /\ Len(y) <= n
               /\ ToSet(y) \subseteq ToSet(q)
               /\ Len(y) = n \/ ToSet(y) = ToSet(q)
               /\ Distinct(q) => Distinct(y)
    BY NewestKept, Zenon
  <2>3. kept = SubSeq(all, 1, IF Len(all) < MAX_NOTIFICATIONS_PER_WALLET THEN Len(all)
                              ELSE MAX_NOTIFICATIONS_PER_WALLET)
    OBVIOUS
  <2> HIDE DEF kept
  <2> QED  BY <2>1, <2>2, <2>3, Zenon
<1> HIDE DEF kept
<1>12. /\ Len(kept) \in Nat
       /\ Len(old) = MAX_NOTIFICATIONS_PER_WALLET => Len(kept) = MAX_NOTIFICATIONS_PER_WALLET
  <2>1. Len(kept) \in Nat
    BY <1>11
  <2>2. ASSUME Len(old) = MAX_NOTIFICATIONS_PER_WALLET
        PROVE  Len(kept) = MAX_NOTIFICATIONS_PER_WALLET
    <3>1. ~(Len(all) < MAX_NOTIFICATIONS_PER_WALLET) /\ Len(all) \in Nat
      BY <1>10, <2>2, InboxAssumption
    <3>2. kept = SubSeq(all, 1, MAX_NOTIFICATIONS_PER_WALLET)
      BY <3>1 DEF kept
    <3> QED  BY <1>9, <3>1, <3>2, InboxAssumption
  <2> QED  BY <2>1, <2>2
<1>13. z \in Copy
  BY <1>1, <1>2, <1>3, <1>11 DEF Copy
<1>14. ASSUME NEW a \in Addresses
       PROVE  InboxOK(z.inbox[a], a)
  <2>1. CASE a # address
    <3>1. z.inbox[a] = c.inbox[a]
      BY <1>1, <1>2, <2>1
    <3> QED  BY <3>1 DEF CopyOK
  <2>2. CASE a = address
    <3>1. z.inbox[a] = kept
      BY <1>1, <1>2, <2>2
    <3>2. \A id \in ToSet(old) : <<id[1], a>> \in Proposers /\ id[2] <= stage[id[1]]
      BY <2>2 DEF CopyOK, InboxOK, old
    <3>3. \A id \in ToSet(new) : <<id[1], a>> \in Proposers /\ id[2] <= stage[id[1]]
      BY <1>4, <1>5, <1>7, <2>2 DEF ListOK
    <3> QED  BY <1>9, <1>11, <3>1, <3>2, <3>3 DEF InboxOK
  <2> QED  BY <2>1, <2>2
<1>15. ASSUME NEW pa \in Proposers
       PROVE  Told(z, pa[1], pa[2])
  <2> DEFINE p == pa[1]
             a == pa[2]
  <2>1. p \in Proposals /\ a \in Addresses /\ pa = <<p, a>>
    BY InboxAssumption
  <2>2. Told(c, p, a)
    BY DEF CopyOK
  <2>3. z.statuses[p] = seen[p] /\ z.unwatched[p] = away[p]
        /\ z.inbox[a] = IF a = address THEN kept ELSE c.inbox[a]
    BY <1>1, <1>2, <2>1
  <2>4. ASSUME NEW x, x \in ToSet(c.inbox[a])
        PROVE  x \in ToSet(z.inbox[a]) \/ Len(z.inbox[a]) = MAX_NOTIFICATIONS_PER_WALLET
    BY <1>9, <1>11, <2>3, <2>4 DEF old
  <2>5. Len(c.inbox[a]) = MAX_NOTIFICATIONS_PER_WALLET
          => Len(z.inbox[a]) = MAX_NOTIFICATIONS_PER_WALLET
    BY <1>12, <2>3 DEF old
  <2> HIDE DEF p, a
  <2>6. CASE list[p] \in {0, c.statuses[p]}
    <3>1. seen[p] = c.statuses[p] /\ away[p] = c.unwatched[p]
      BY <2>1, <2>6
    <3> HIDE DEF seen, away
    <3> QED  BY <2>2, <2>3, <2>4, <2>5, <3>1 DEF Told, p, a
  <2>7. CASE list[p] \notin {0, c.statuses[p]} /\ ~(c.statuses[p] # 0 /\ Inbox!isRelevantTo(p, address))
    <3>1. seen[p] = list[p] /\ away[p] = list[p]
      BY <2>1, <2>7
    <3> HIDE DEF seen, away
    <3> QED  BY <2>3, <3>1 DEF Told, p, a
  <2>8. CASE list[p] \notin {0, c.statuses[p]} /\ c.statuses[p] # 0 /\ Inbox!isRelevantTo(p, address)
    <3>1. seen[p] = list[p]
      BY <2>1, <2>8
    <3>2. a = address
      <4>1. <<p, address>> \in Proposers
        BY <2>8 DEF Inbox!isRelevantTo
      <4> QED  BY <2>1, <4>1, InboxAssumption
    <3>3. p \in Inbox!Changed(c, list, address)
      BY <2>1, <2>8 DEF Inbox!Changed
    <3>4. <<p, list[p]>> \in ToSet(all)
      <4>1. CASE Inbox!Known(p, list, old)
        <5>1. <<p, list[p]>> \in ToSet(old)
          BY <4>1 DEF Inbox!Known, Inbox!Range, ToSet
        <5> QED  BY <1>9, <5>1
      <4>2. CASE ~Inbox!Known(p, list, old)
        <5>1. p \in S
          BY <3>3, <4>2 DEF S, old
        <5> QED  BY <1>7, <1>9, <5>1
      <4> QED  BY <4>1, <4>2
    <3> HIDE DEF seen, away
    <3> QED  BY <1>11, <2>3, <3>1, <3>2, <3>4 DEF Told, p, a
  <2> QED  BY <2>6, <2>7, <2>8 DEF p, a
<1> QED  BY <1>13, <1>14, <1>15 DEF CopyOK

(* A tab changes, and may write its copy; the ledger does not.             *)
LEMMA TabWrites ==
  ASSUME NotificationsOK, stage' = stage, behind' = behind,
         NEW t \in Tabs, NEW z \in Tab, CopyOK(z.state), z.list # << >> => ListOK(z.list),
         tabs' = [tabs EXCEPT ![t] = z], storage' \in {storage, z.state}
  PROVE  NotificationsOK'
<1>1. CopyOK(storage') /\ ListOK(stage') /\ ListOK(behind')
  BY DEF NotificationsOK
<1>2. tabs' \in [Tabs -> Tab] /\ \A u \in Tabs : tabs'[u] = IF u = t THEN z ELSE tabs[u]
  BY DEF NotificationsOK
<1>3. ASSUME NEW u \in Tabs
      PROVE  CopyOK(tabs'[u].state) /\ (tabs'[u].list # << >> => ListOK(tabs'[u].list))
  BY <1>2 DEF NotificationsOK
<1>4. CopyOK(storage)' /\ ListOK(stage)' /\ ListOK(behind)'
  BY <1>1 DEF CopyOK, InboxOK, Told, ListOK
<1>5. ASSUME NEW u \in Tabs
      PROVE  (CopyOK(tabs[u].state) /\ (tabs[u].list # << >> => ListOK(tabs[u].list)))'
  BY <1>3 DEF CopyOK, InboxOK, Told, ListOK
<1> QED  BY <1>2, <1>4, <1>5 DEF NotificationsOK

LEMMA EmptyCopy ==
  CopyOK(Inbox!EMPTY_NOTIFICATION_STATE)
<1> DEFINE e == Inbox!EMPTY_NOTIFICATION_STATE
<1>1. /\ e \in Copy
      /\ \A p \in Proposals : e.statuses[p] = e.unwatched[p]
      /\ \A a \in Addresses : e.inbox[a] = << >>
  BY InboxAssumption
  DEF Inbox!EMPTY_NOTIFICATION_STATE, Inbox!Nothing, Inbox!Stages, Copy
<1> HIDE DEF e
<1>2. \A a \in Addresses : InboxOK(e.inbox[a], a)
  BY <1>1, InboxAssumption DEF InboxOK, Distinct, ToSet
<1>3. \A pa \in Proposers : Told(e, pa[1], pa[2])
  BY <1>1, InboxAssumption DEF Told
<1> QED  BY <1>1, <1>2, <1>3 DEF CopyOK, e

(* The ledger only moves on: what was so once stays within it.             *)
LEMMA LedgerMoves ==
  ASSUME NotificationsOK, NEW p \in Proposals, Inbox!Move(p)
  PROVE  NotificationsOK'
<1>1. stage \in Inbox!Stages /\ stage[p] < MaxStage
      /\ stage' = [stage EXCEPT ![p] = @ + 1] /\ behind' = stage
      /\ storage' = storage /\ tabs' = tabs
  BY DEF Inbox!Move, NotificationsOK, ListOK
<1>2. stage' \in Inbox!Stages /\ \A q \in Proposals : stage[q] <= stage'[q]
  BY <1>1, InboxAssumption DEF Inbox!Stages
<1>3. ASSUME NEW list, ListOK(list)
      PROVE  list \in Inbox!Stages /\ \A q \in Proposals : list[q] <= stage'[q]
  BY <1>1, <1>2, <1>3, InboxAssumption DEF ListOK, Inbox!Stages
<1>4. ASSUME NEW c, CopyOK(c), NEW a \in Addresses, NEW id \in ToSet(c.inbox[a])
      PROVE  id[2] <= stage'[id[1]]
  <2>1. c.inbox[a] \in Seq(Marks) /\ id[2] <= stage[id[1]]
    BY <1>4 DEF CopyOK, Copy, InboxOK
  <2>2. id \in Marks
    BY <2>1 DEF ToSet
  <2> QED  BY <1>1, <1>2, <2>1, <2>2, InboxAssumption DEF Marks, Inbox!Stages
<1>5. \A c : CopyOK(c) => \A a \in Addresses : \A id \in ToSet(c.inbox[a]) : id[2] <= stage'[id[1]]
  BY <1>4
<1>6. ListOK(stage)' /\ ListOK(behind)'
  BY <1>1, <1>2, InboxAssumption DEF ListOK, Inbox!Stages
<1>7. CopyOK(storage)'
  BY <1>1, <1>5 DEF NotificationsOK, CopyOK, InboxOK, Told
<1>8. ASSUME NEW t \in Tabs
      PROVE  (CopyOK(tabs[t].state) /\ (tabs[t].list # << >> => ListOK(tabs[t].list)))'
  <2>1. CopyOK(tabs[t].state)'
    BY <1>1, <1>5 DEF NotificationsOK, CopyOK, InboxOK, Told
  <2>2. ASSUME tabs[t].list # << >>
        PROVE  ListOK(tabs[t].list)'
    BY <1>1, <1>3, <2>2 DEF NotificationsOK, ListOK
  <2> QED  BY <1>1, <2>1, <2>2
<1>9. (tabs \in [Tabs -> Tab])'
  BY <1>1 DEF NotificationsOK
<1> QED  BY <1>6, <1>7, <1>8, <1>9 DEF NotificationsOK

(* What a tab makes of a list is of its type and is CopyOK.                *)
LEMMA Recorded ==
  ASSUME NEW c, CopyOK(c), NEW list, ListOK(list), NEW a \in Addresses
  PROVE  CopyOK(Inbox!recordStatusChanges(c, list, a))
         /\ Inbox!recordStatusChanges(c, list, a) \in Copy
<1>1. CopyOK(Inbox!recordStatusChanges(c, list, a))
  BY RecordKeeps
<1> QED  BY <1>1 DEF CopyOK

LEMMA MountKeeps ==
  ASSUME NotificationsOK, NEW t \in Tabs, NEW a \in Addresses, Inbox!Mount(t, a)
  PROVE  NotificationsOK'
<1> DEFINE z == [address |-> a, list |-> << >>, state |-> storage]
<1>1. z \in Tab /\ CopyOK(z.state) /\ z.list = << >>
  BY DEF NotificationsOK, CopyOK, Tab
<1>2. stage' = stage /\ behind' = behind /\ storage' = storage /\ tabs' = [tabs EXCEPT ![t] = z]
  BY DEF Inbox!Mount
<1> HIDE DEF z
<1> QED  BY <1>1, <1>2, TabWrites

LEMMA UnmountKeeps ==
  ASSUME NotificationsOK, NEW t \in Tabs, Inbox!Unmount(t)
  PROVE  NotificationsOK'
<1> DEFINE z == Inbox!Away
<1>1. z \in Tab /\ CopyOK(z.state) /\ z.list = << >>
  BY EmptyCopy DEF CopyOK, Tab, Inbox!Away
<1>2. stage' = stage /\ behind' = behind /\ storage' = storage /\ tabs' = [tabs EXCEPT ![t] = z]
  BY DEF Inbox!Unmount
<1> HIDE DEF z
<1> QED  BY <1>1, <1>2, TabWrites

LEMMA ListedKeeps ==
  ASSUME NotificationsOK, NEW t \in Tabs, Inbox!Listed(t)
  PROVE  NotificationsOK'
<1>1. PICK list \in {stage, behind} :
        LET state == Inbox!recordStatusChanges(tabs[t].state, list, tabs[t].address)
        IN  /\ tabs' = [tabs EXCEPT ![t].list = list, ![t].state = state]
            /\ storage' \in {storage, state}
  BY DEF Inbox!Listed
<1> DEFINE state == Inbox!recordStatusChanges(tabs[t].state, list, tabs[t].address)
           z     == [tabs[t] EXCEPT !.list = list, !.state = state]
<1>2. tabs[t] \in Tab /\ tabs[t].address \in Addresses /\ CopyOK(tabs[t].state) /\ ListOK(list)
  BY DEF Inbox!Listed, NotificationsOK, Tab
<1>3. CopyOK(state) /\ state \in Copy
  BY <1>2, Recorded
<1>4. stage' = stage /\ behind' = behind
  BY DEF Inbox!Listed
<1>5. tabs' = [tabs EXCEPT ![t].list = list, ![t].state = state] /\ storage' \in {storage, state}
  BY <1>1
<1> HIDE DEF state
<1>6. z \in Tab /\ z.state = state /\ z.list = list
  BY <1>2, <1>3 DEF Tab, ListOK
<1>7. tabs' = [tabs EXCEPT ![t] = z]
  BY <1>5 DEF NotificationsOK
<1> HIDE DEF z
<1> QED  BY <1>2, <1>3, <1>4, <1>5, <1>6, <1>7, TabWrites

LEMMA SwitchToKeeps ==
  ASSUME NotificationsOK, NEW t \in Tabs, NEW a \in Addresses, Inbox!SwitchTo(t, a)
  PROVE  NotificationsOK'
<1>1. stage' = stage /\ behind' = behind
  BY DEF Inbox!SwitchTo
<1>2. /\ tabs \in [Tabs -> Tab] /\ tabs[t] \in Tab /\ CopyOK(tabs[t].state)
      /\ tabs[t].list # << >> => ListOK(tabs[t].list)
  BY DEF NotificationsOK
<1>3. CASE tabs[t].list = << >>
  <2> DEFINE z == [tabs[t] EXCEPT !.address = a]
  <2>1. tabs' = [tabs EXCEPT ![t] = z] /\ storage' = storage
    BY <1>2, <1>3 DEF Inbox!SwitchTo
  <2>2. z \in Tab /\ z.state = tabs[t].state /\ z.list = << >>
    BY <1>2, <1>3 DEF Tab
  <2> HIDE DEF z
  <2> QED  BY <1>1, <1>2, <2>1, <2>2, TabWrites
<1>4. CASE tabs[t].list # << >>
  <2> DEFINE state == Inbox!recordStatusChanges(tabs[t].state, tabs[t].list, a)
             z     == [tabs[t] EXCEPT !.address = a, !.state = state]
  <2>1. CopyOK(state) /\ state \in Copy
    BY <1>2, <1>4, Recorded
  <2>2. tabs' = [tabs EXCEPT ![t].address = a, ![t].state = state] /\ storage' \in {storage, state}
    BY <1>4 DEF Inbox!SwitchTo
  <2> HIDE DEF state
  <2>3. z \in Tab /\ z.state = state /\ z.list = tabs[t].list
    BY <1>2, <2>1 DEF Tab
  <2>4. tabs' = [tabs EXCEPT ![t] = z]
    BY <1>2, <2>2
  <2> HIDE DEF z
  <2> QED  BY <1>1, <1>2, <1>4, <2>1, <2>2, <2>3, <2>4, TabWrites
<1> QED  BY <1>3, <1>4

LEMMA MarkReadKeeps ==
  ASSUME NotificationsOK, NEW t \in Tabs, Inbox!markRead(t)
  PROVE  NotificationsOK'
<1> DEFINE z == [tabs[t] EXCEPT !.state = tabs[t].state]
<1>1. /\ tabs \in [Tabs -> Tab] /\ tabs[t] \in Tab /\ CopyOK(tabs[t].state)
      /\ tabs[t].list # << >> => ListOK(tabs[t].list)
  BY DEF NotificationsOK
<1>2. /\ stage' = stage /\ behind' = behind /\ storage' \in {storage, tabs[t].state}
      /\ tabs' = [tabs EXCEPT ![t].state = tabs[t].state]
  BY DEF Inbox!markRead, Inbox!SetState
<1>3. z \in Tab /\ z.state = tabs[t].state /\ z.list = tabs[t].list
  BY <1>1 DEF Tab
<1>4. tabs' = [tabs EXCEPT ![t] = z]
  BY <1>1, <1>2
<1> HIDE DEF z
<1> QED  BY <1>1, <1>2, <1>3, <1>4, TabWrites

LEMMA NotificationsKeep ==
  ASSUME NotificationsOK, [Inbox!Next]_Inbox!vars
  PROVE  NotificationsOK'
<1>1. CASE UNCHANGED Inbox!vars
  BY <1>1 DEF Inbox!vars, NotificationsOK, CopyOK, InboxOK, Told, ListOK
<1>2. CASE Inbox!Next
  BY <1>2, LedgerMoves, MountKeeps, UnmountKeeps, ListedKeeps, SwitchToKeeps, MarkReadKeeps
  DEF Inbox!Next
<1> QED  BY <1>1, <1>2

LEMMA NotificationsStart ==
  ASSUME Inbox!Init
  PROVE  NotificationsOK
<1>1. ListOK(stage) /\ ListOK(behind)
  BY InboxAssumption DEF Inbox!Init, Inbox!Nothing, Inbox!Stages, ListOK
<1>2. CopyOK(storage) /\ storage \in Copy
  BY EmptyCopy DEF Inbox!Init, CopyOK
<1>3. tabs \in [Tabs -> Tab] /\ \A t \in Tabs : tabs[t].state = storage /\ tabs[t].list = << >>
  BY <1>2 DEF Inbox!Init, Inbox!Away, Tab
<1> QED  BY <1>1, <1>2, <1>3 DEF NotificationsOK

LEMMA NotificationsSuffice ==
  ASSUME NotificationsOK
  PROVE  BaselineIsReported
<1>1. ASSUME NEW c \in Inbox!Copies
      PROVE  CopyOK(c)
  BY DEF Inbox!Copies, NotificationsOK
<1>2. ASSUME NEW s
      PROVE  Inbox!Range(s) = ToSet(s) /\ (Inbox!IsInjective(s) <=> Distinct(s))
  BY DEF Inbox!Range, ToSet, Inbox!IsInjective, Distinct
<1>3. ASSUME NEW c \in Inbox!Copies, NEW pa \in Proposers
      PROVE  \/ c.statuses[pa[1]] = c.unwatched[pa[1]]
             \/ <<pa[1], c.statuses[pa[1]]>> \in Inbox!Range(c.inbox[pa[2]])
             \/ Len(c.inbox[pa[2]]) = MAX_NOTIFICATIONS_PER_WALLET
  BY <1>1, <1>2 DEF CopyOK, Told
<1>4. ASSUME NEW c \in Inbox!Copies, NEW a \in Addresses
      PROVE  /\ Inbox!IsInjective(c.inbox[a])
             /\ \A id \in Inbox!Range(c.inbox[a]) :
                  Inbox!isRelevantTo(id[1], a) /\ id[2] <= stage[id[1]]
  BY <1>1, <1>2 DEF CopyOK, InboxOK, Inbox!isRelevantTo
<1> QED  BY <1>3, <1>4 DEF BaselineIsReported, Inbox!BaselineIsReported

(* However many tabs write over each other, whatever writes fail and       *)
(* whatever node answers: no copy takes a new status as known, recorded    *)
(* while its proposer was looking, unless the notification of it is in the *)
(* proposer's inbox or the inbox is full; and an inbox has a notification  *)
(* once, of its own proposals, that came true.                             *)
THEOREM BaselinesAreReported == Inbox!Spec => []BaselineIsReported
  BY NotificationsStart, NotificationsKeep, NotificationsSuffice, PTL DEF Inbox!Spec

------------------------------------------------------------------------------
(* Events.                                                                 *)

(* decodeEvents and the consumer go through a page event by event.  Both   *)
(* are folds over the positions of a sequence that FoldLeft defines by     *)
(* taking out the last; the step of either is one operator, told from the  *)
(* other by the name "of" its fold.                                        *)
FoldStep(of, e, acc) ==
  IF of = "decoded" THEN (IF Feed!Known(e) THEN Append(acc, e) ELSE acc)
  ELSE Feed!Applied(e, acc)

Greatest(S) == Feed!Max(S)

IsFold(of, base, s, S, g) ==
  g = [u \in SUBSET S |-> IF u = {} THEN base
                          ELSE FoldStep(of, s[Greatest(u)], g[u \ {Greatest(u)}])]

Folded(of, base, s) == (CHOOSE g : IsFold(of, base, s, DOMAIN s, g))[DOMAIN s]

LEMMA DecodedIs ==
  ASSUME NEW s
  PROVE  Feed!decodeEvents(s) = Folded("decoded", << >>, s)
  BY DEF Feed!decodeEvents, Feed!FoldLeft, Feed!MapThenFoldSet, Folded, IsFold, FoldStep, Greatest

LEMMA AppliedIs ==
  ASSUME NEW s, NEW v
  PROVE  Feed!FoldLeft(LAMBDA w, e : Feed!Applied(e, w), v, s) = Folded("view", v, s)
  BY DEF Feed!FoldLeft, Feed!MapThenFoldSet, Folded, IsFold, FoldStep, Greatest

(* A finite set of natural numbers has a greatest element.                 *)
LEMMA FiniteSetIsBounded ==
  ASSUME NEW S, IsFiniteSet(S), S \in SUBSET Nat
  PROVE  \E b \in Nat : \A x \in S : x <= b
<1> DEFINE F == {T \in SUBSET S : ~ \E b \in Nat : \A x \in T : x <= b}
<1>1. SUFFICES ASSUME F # {} PROVE FALSE
  BY S \in SUBSET S
<1>2. PICK T \in F : \A x \in T : T \ {x} \notin F
  <2> HIDE DEF F
  <2>1. F \in SUBSET (SUBSET S)
    BY DEF F
  <2> QED  BY <1>1, <2>1, MinimalMember
<1>3. PICK x \in T : x \in Nat
  <2>1. T # {}
    BY <1>2
  <2> QED  BY <1>2, <2>1
<1>4. PICK b \in Nat : \A y \in T \ {x} : y <= b
  BY <1>2, <1>3
<1>5. x + b \in Nat /\ \A y \in T : y <= x + b
  <2>1. \A y \in T : y \in Nat /\ (y = x \/ y <= b)
    BY <1>2, <1>4
  <2> QED  BY <1>3, <1>4, <2>1
<1> QED  BY <1>2, <1>5

LEMMA GreatestIs ==
  ASSUME NEW S, IsFiniteSet(S), S # {}, S \in SUBSET Nat
  PROVE  Greatest(S) \in S /\ \A x \in S : x <= Greatest(S)
<1>1. PICK b \in Nat : \A x \in S : x <= b
  BY FiniteSetIsBounded
<1> DEFINE T == {y \in Nat : \A x \in S : x <= y}
<1>2. T \in SUBSET Nat /\ T # {}
  BY <1>1
<1> HIDE DEF T
<1>3. PICK m \in T : \A y \in T : m <= y
  BY <1>2, LeastElement
<1>4. m \in Nat /\ \A x \in S : x <= m
  BY <1>3 DEF T
<1>5. m \in S
  <2>1. SUFFICES ASSUME m \notin S PROVE FALSE
    OBVIOUS
  <2>2. \A x \in S : x <= m - 1
    BY <1>4, <2>1
  <2>3. m - 1 \in Nat
    <3>1. PICK x \in S : x \in Nat
      OBVIOUS
    <3>2. x <= m - 1
      BY <2>2, <3>1
    <3> QED  BY <1>4, <3>1, <3>2
  <2>4. m - 1 \in T
    BY <2>2, <2>3 DEF T
  <2> QED  BY <1>3, <1>4, <2>4
<1> QED  BY <1>4, <1>5 DEF Greatest, Feed!Max

LEMMA FoldOnce ==
  ASSUME NEW of, NEW base, NEW s, NEW S, NEW g, IsFold(of, base, s, S, g), NEW U \in SUBSET S
  PROVE  /\ U = {} => g[U] = base
         /\ U # {} => g[U] = FoldStep(of, s[Greatest(U)], g[U \ {Greatest(U)}])
  BY DEF IsFold

(* Folds of sequences that agree on some positions agree there.            *)
Agree(s, z, T) == \A i \in T : z[i] = s[i]
Positions(S)   == IsFiniteSet(S) /\ S \in SUBSET Nat
Within(T, S)   == T \in SUBSET S

LEMMA FoldUnique ==
  ASSUME NEW of, NEW base, NEW S, Positions(S), NEW T, Within(T, S),
         NEW s, NEW z, Agree(s, z, T),
         NEW g, IsFold(of, base, s, S, g), NEW h, IsFold(of, base, z, T, h)
  PROVE  g[T] = h[T]
<1> USE DEF Positions, Within
<1> DEFINE F == {V \in SUBSET T : g[V] # h[V]}
<1>1. SUFFICES ASSUME F # {} PROVE FALSE
  BY T \in SUBSET T
<1>2. IsFiniteSet(T)
  BY FS_Subset
<1>3. PICK V \in F : IsFiniteSet(V) /\ \A x \in V : V \ {x} \notin F
  <2> HIDE DEF F
  <2>1. F \in SUBSET (SUBSET T)
    BY DEF F
  <2> QED  BY <1>1, <1>2, <2>1, MinimalMember
<1>4. V \in SUBSET S /\ V \in SUBSET T
  BY <1>3
<1>5. V # {}
  <2>1. V = {} => g[V] = base /\ h[V] = base
    BY <1>4 DEF IsFold
  <2> QED  BY <1>3, <2>1
<1>6. Greatest(V) \in V
  BY <1>3, <1>4, <1>5, GreatestIs
<1>7. g[V \ {Greatest(V)}] = h[V \ {Greatest(V)}]
  BY <1>3, <1>6
<1>8. z[Greatest(V)] = s[Greatest(V)]
  BY <1>4, <1>6 DEF Agree
<1>9. g[V] = FoldStep(of, s[Greatest(V)], g[V \ {Greatest(V)}])
  BY <1>4, <1>5 DEF IsFold
<1>10. h[V] = FoldStep(of, z[Greatest(V)], h[V \ {Greatest(V)}])
  BY <1>4, <1>5 DEF IsFold
<1>11. g[V] = h[V]
  BY <1>7, <1>8, <1>9, <1>10
<1> QED  BY <1>3, <1>11

LEMMA FoldExists ==
  ASSUME NEW of, NEW base, NEW s, NEW S, IsFiniteSet(S), S \in SUBSET Nat
  PROVE  \E g : IsFold(of, base, s, S, g)
<1> DEFINE F == {T \in SUBSET S : ~ \E g : IsFold(of, base, s, T, g)}
<1>1. SUFFICES ASSUME F # {} PROVE FALSE
  OBVIOUS
<1>2. PICK T \in F : IsFiniteSet(T) /\ \A x \in T : T \ {x} \notin F
  <2> HIDE DEF F
  <2>1. F \in SUBSET (SUBSET S)
    BY DEF F
  <2> QED  BY <1>1, <2>1, MinimalMember
<1>3. T \in SUBSET Nat
  BY <1>2
<1> DEFINE Sub(U) == CHOOSE g : IsFold(of, base, s, U, g)
           m(u) == Greatest(u)
           g == [u \in SUBSET T |-> IF u = {} THEN base
                   ELSE FoldStep(of, s[m(u)], Sub(u \ {m(u)})[u \ {m(u)}])]
<1>4. ASSUME NEW U \in SUBSET T, U # T PROVE IsFold(of, base, s, U, Sub(U))
  <2>1. PICK x \in T : x \notin U
    BY <1>4
  <2>2. PICK h : IsFold(of, base, s, T \ {x}, h)
    BY <1>2, <2>1
  <2> DEFINE r == [u \in SUBSET U |-> h[u]]
             e == [u \in SUBSET U |-> IF u = {} THEN base ELSE FoldStep(of, s[m(u)], r[u \ {m(u)}])]
  <2>3. ASSUME NEW u \in SUBSET U
        PROVE  r[u] = IF u = {} THEN base ELSE FoldStep(of, s[m(u)], r[u \ {m(u)}])
    <3>1. u \in SUBSET (T \ {x}) /\ u \ {m(u)} \in SUBSET U
      BY <1>4, <2>1
    <3>2. u = {} => h[u] = base
      BY <2>2, <3>1 DEF IsFold
    <3>3. u # {} => h[u] = FoldStep(of, s[m(u)], h[u \ {m(u)}])
      BY <2>2, <3>1 DEF IsFold
    <3> QED  BY <3>1, <3>2, <3>3
  <2>4. r = e
    BY <2>3
  <2>5. IsFold(of, base, s, U, r)
    BY <2>4 DEF IsFold
  <2> QED  BY <2>5
<1>5. ASSUME NEW u \in SUBSET T, u # {}
      PROVE  /\ m(u) \in u /\ u \ {m(u)} \in SUBSET T /\ u \ {m(u)} # T
             /\ u \ {m(u)} \in SUBSET u
  <2>1. IsFiniteSet(u) /\ u \in SUBSET Nat
    BY <1>2, <1>3, FS_Subset
  <2> QED  BY <1>5, <2>1, GreatestIs
<1>6. ASSUME NEW u \in SUBSET T, u # T PROVE g[u] = Sub(u)[u]
  <2>1. IsFold(of, base, s, u, Sub(u)) /\ IsFiniteSet(u) /\ u \in SUBSET Nat
    BY <1>2, <1>3, <1>4, <1>6, FS_Subset
  <2> HIDE DEF Sub
  <2>2. CASE u = {}
    <3>1. u \in SUBSET u
      OBVIOUS
    <3>2. Sub(u)[u] = base
      BY <2>1, <2>2, <3>1 DEF IsFold
    <3>3. g[u] = base
      BY <2>2
    <3> QED  BY <3>2, <3>3
  <2>3. CASE u # {}
    <3> DEFINE w == u \ {m(u)}
    <3>1. w \in SUBSET T /\ w # T /\ w \in SUBSET u /\ u \in SUBSET u
      BY <1>5, <2>3
    <3>2. IsFold(of, base, s, w, Sub(w)) /\ w \in SUBSET w
      BY <1>4, <3>1
    <3>3. Sub(u)[w] = Sub(w)[w]
      <4>1. Agree(s, s, w) /\ Positions(u) /\ Within(w, u)
        BY <2>1, <3>1 DEF Agree, Positions, Within
      <4> HIDE DEF w
      <4> QED  BY <2>1, <3>2, <4>1, FoldUnique
    <3>4. Sub(u)[u] = FoldStep(of, s[m(u)], Sub(u)[w])
      BY <2>1, <2>3, <3>1, FoldOnce
    <3>5. g[u] = FoldStep(of, s[m(u)], Sub(w)[w])
      BY <2>3
    <3> QED  BY <3>3, <3>4, <3>5
  <2> QED  BY <2>2, <2>3
<1>7. IsFold(of, base, s, T, g)
  <2>1. ASSUME NEW u \in SUBSET T
        PROVE  g[u] = IF u = {} THEN base ELSE FoldStep(of, s[m(u)], g[u \ {m(u)}])
    <3>1. CASE u = {}
      BY <3>1
    <3>2. CASE u # {}
      <4> DEFINE w == u \ {m(u)}
      <4>1. w \in SUBSET T /\ w # T
        BY <1>5, <3>2
      <4>2. g[w] = Sub(w)[w]
        BY <1>6, <4>1
      <4>3. g[u] = FoldStep(of, s[m(u)], Sub(w)[w])
        BY <3>2
      <4> QED  BY <3>2, <4>2, <4>3
    <3> QED  BY <3>1, <3>2
  <2>2. g = [u \in SUBSET T |-> g[u]]
    OBVIOUS
  <2> HIDE DEF g
  <2> DEFINE e == [u \in SUBSET T |-> IF u = {} THEN base ELSE FoldStep(of, s[m(u)], g[u \ {m(u)}])]
  <2>3. g = e
    BY <2>1, <2>2
  <2> QED  BY <2>3 DEF IsFold
<1> QED  BY <1>2, <1>7

(* So a fold goes through a sequence from its first element to its last.   *)
LEMMA FoldNothing ==
  ASSUME NEW of, NEW base
  PROVE  Folded(of, base, << >>) = base
<1> DEFINE g == CHOOSE g : IsFold(of, base, << >>, {}, g)
<1>1. IsFold(of, base, << >>, {}, g)
  BY FS_EmptySet, FoldExists
<1> HIDE DEF g
<1>2. g[{}] = base
  BY <1>1, FoldOnce
<1>3. DOMAIN << >> = {}
  OBVIOUS
<1> QED  BY <1>2, <1>3 DEF Folded, g

LEMMA FoldAppend ==
  ASSUME NEW of, NEW base, NEW X, NEW s \in Seq(X), NEW e \in X
  PROVE  Folded(of, base, Append(s, e)) = FoldStep(of, e, Folded(of, base, s))
<1> DEFINE z == Append(s, e)
           n == Len(s)
<1>1. /\ n \in Nat /\ DOMAIN s = 1..n /\ DOMAIN z = 1 .. n + 1 /\ z[n + 1] = e
      /\ \A i \in 1..n : z[i] = s[i]
  OBVIOUS
<1> DEFINE S == 1 .. n + 1
           T == 1..n
           g == CHOOSE g : IsFold(of, base, z, S, g)
           h == CHOOSE h : IsFold(of, base, s, T, h)
<1>2. Folded(of, base, z) = g[S] /\ Folded(of, base, s) = h[T]
  BY <1>1 DEF Folded
<1> HIDE DEF z, n
<1>3. /\ IsFiniteSet(S) /\ IsFiniteSet(T) /\ S \in SUBSET Nat /\ T \in SUBSET S
      /\ S \in SUBSET S /\ T \in SUBSET T /\ S # {}
      /\ n + 1 \in S /\ \A i \in S : i <= n + 1
      /\ S \ {n + 1} = T
  <2>1. n + 1 \in Nat
    BY <1>1
  <2>2. IsFiniteSet(S) /\ IsFiniteSet(T)
    BY <1>1, <2>1, FS_Interval
  <2>3. S \in SUBSET Nat /\ T \in SUBSET S /\ n + 1 \in S /\ \A i \in S : i <= n + 1
    BY <1>1
  <2>4. S \ {n + 1} = T
    <3>1. \A i \in S : i = n + 1 \/ i \in T
      BY <1>1
    <3>2. \A i \in T : i \in S /\ i # n + 1
      BY <1>1
    <3> HIDE DEF S, T
    <3> QED  BY <3>1, <3>2
  <2> HIDE DEF S, T
  <2> QED  BY <2>2, <2>3, <2>4
<1>4. IsFold(of, base, z, S, g) /\ IsFold(of, base, s, T, h)
  <2> HIDE DEF S, T
  <2>1. T \in SUBSET Nat
    BY <1>3
  <2> QED  BY <1>3, <2>1, FoldExists
<1>5. Greatest(S) = n + 1
  BY <1>1, <1>3 DEF Greatest, Feed!Max
<1> HIDE DEF g, h, S, T
<1>6. Agree(z, s, T)
  BY <1>1 DEF T, Agree
<1>7. g[T] = h[T]
  <2>1. Positions(S) /\ Within(T, S)
    BY <1>3 DEF Positions, Within
  <2> QED  BY <1>4, <1>6, <2>1, FoldUnique
<1>8. g[S] = FoldStep(of, z[n + 1], g[T])
  BY <1>3, <1>4, <1>5, FoldOnce
<1> QED  BY <1>1, <1>2, <1>7, <1>8 DEF z

(* The consumer's record has two kinds of entries, and an event sets one.  *)
Verdicts == {"none", "Active", "Queued", "Failed", "Cancelled", "Executed", "Vetoed", "Expired"}
Choices  == Supports \cup {Feed!NoChoice}
Views    == [status : [FeedProposals -> Verdicts], choice : [FeedProposals -> [Voters -> Choices]]]
Topics   == Feed!EVENT_TOPICS \cup {"proposal_vetoed"}
Events   == [topic : Topics, id : FeedProposals, rest : Seq(Voters \cup Supports \cup Verdicts)]

IsEvent(e) ==
  /\ e \in Events
  /\ e.topic = "vote_cast" => e.rest[1] \in Voters /\ e.rest[2] \in Supports
  /\ e.topic = "proposal_finalized" => e.rest[1] \in {"Queued", "Failed"}

Entries == [kind : {"status"}, id : FeedProposals] \cup [kind : {"choice"}, id : FeedProposals, voter : Voters]

Entry(w, c) == IF c.kind = "status" THEN w.status[c.id] ELSE w.choice[c.id][c.voter]

Sets(e, c) ==
  /\ e.topic \in Feed!EVENT_TOPICS
  /\ e.id = c.id
  /\ IF c.kind = "status" THEN e.topic # "vote_cast"
     ELSE e.topic = "vote_cast" /\ e.rest[1] = c.voter

Tells(e) ==
  CASE e.topic = "vote_cast"          -> e.rest[2]
    [] e.topic = "proposal_created"   -> "Active"
    [] e.topic = "proposal_finalized" -> e.rest[1]
    [] e.topic = "proposal_queued"    -> "Queued"
    [] e.topic = "proposal_executed"  -> "Executed"
    [] e.topic = "proposal_cancelled" -> "Cancelled"

(* z is w but for the entry e sets.                                        *)
Follows(z, w, e) == \A c \in Entries : Entry(z, c) = IF Sets(e, c) THEN Tells(e) ELSE Entry(w, c)

(* w is what v becomes with the events after a, to b, of s.                *)
Carries(w, v, s, a, b) ==
  \A c \in Entries :
    /\ (\A i \in a + 1 .. b : ~Sets(s[i], c)) => Entry(w, c) = Entry(v, c)
    /\ \A i \in a + 1 .. b :
         Sets(s[i], c) /\ (\A j \in i + 1 .. b : ~Sets(s[j], c)) => Entry(w, c) = Tells(s[i])

LEMMA AppliedFollows ==
  ASSUME NEW w \in Views, NEW e, IsEvent(e), Feed!Known(e)
  PROVE  Feed!Applied(e, w) \in Views /\ Follows(Feed!Applied(e, w), w, e)
<1> DEFINE z == Feed!Applied(e, w)
<1>1. /\ e.id \in FeedProposals /\ e.topic \in Feed!EVENT_TOPICS
      /\ w.status \in [FeedProposals -> Verdicts] /\ w.choice \in [FeedProposals -> [Voters -> Choices]]
  BY DEF IsEvent, Events, Views, Feed!Known
<1>2. CASE e.topic = "vote_cast"
  <2> DEFINE f == [w.choice EXCEPT ![e.id][e.rest[1]] = e.rest[2]]
  <2>1. e.rest[1] \in Voters /\ e.rest[2] \in Choices
    BY <1>2 DEF IsEvent, Choices
  <2>2. z = [w EXCEPT !.choice[e.id][e.rest[1]] = e.rest[2]]
    BY <1>2 DEF Feed!Applied
  <2>3. z.status = w.status /\ z.choice = f /\ z = [status |-> w.status, choice |-> f]
    BY <2>2 DEF Views
  <2>4. /\ f \in [FeedProposals -> [Voters -> Choices]]
        /\ \A p \in FeedProposals, x \in Voters :
             f[p][x] = IF p = e.id /\ x = e.rest[1] THEN e.rest[2] ELSE w.choice[p][x]
    BY <1>1, <2>1
  <2> HIDE DEF f, z
  <2>5. z \in Views
    BY <1>1, <2>3, <2>4 DEF Views
  <2>6. ASSUME NEW c \in Entries
        PROVE  Entry(z, c) = IF Sets(e, c) THEN Tells(e) ELSE Entry(w, c)
    <3>1. Tells(e) = e.rest[2]
      BY <1>2 DEF Tells
    <3>2. CASE c.kind = "status"
      BY <1>2, <2>3, <3>2 DEF Entry, Sets
    <3>3. CASE c.kind # "status"
      <4>1. c.id \in FeedProposals /\ c.voter \in Voters
        BY <3>3 DEF Entries
      <4>2. Sets(e, c) <=> c.id = e.id /\ c.voter = e.rest[1]
        BY <1>1, <1>2, <3>3 DEF Sets
      <4> QED  BY <2>3, <2>4, <3>1, <3>3, <4>1, <4>2 DEF Entry
    <3> QED  BY <3>2, <3>3
  <2> QED  BY <2>5, <2>6 DEF Follows, z
<1>3. CASE e.topic # "vote_cast"
  <2> DEFINE f == [w.status EXCEPT ![e.id] = Tells(e)]
  <2>1. Tells(e) \in Verdicts
    BY <1>1, <1>3 DEF Tells, IsEvent, Verdicts, Feed!EVENT_TOPICS
  <2>2. z = [w EXCEPT !.status[e.id] = Tells(e)]
    BY <1>1, <1>3 DEF Feed!Applied, Tells, Feed!EVENT_TOPICS
  <2>3. z.status = f /\ z.choice = w.choice /\ z = [status |-> f, choice |-> w.choice]
    BY <2>2 DEF Views
  <2>4. /\ f \in [FeedProposals -> Verdicts]
        /\ \A p \in FeedProposals : f[p] = IF p = e.id THEN Tells(e) ELSE w.status[p]
    BY <1>1, <2>1
  <2> HIDE DEF f, z
  <2>5. z \in Views
    BY <1>1, <2>3, <2>4 DEF Views
  <2>6. ASSUME NEW c \in Entries
        PROVE  Entry(z, c) = IF Sets(e, c) THEN Tells(e) ELSE Entry(w, c)
    <3>1. c.id \in FeedProposals
      BY DEF Entries
    <3>2. CASE c.kind = "status"
      <4>1. Sets(e, c) <=> c.id = e.id
        BY <1>1, <1>3, <3>2 DEF Sets
      <4> QED  BY <2>3, <2>4, <3>1, <3>2, <4>1 DEF Entry
    <3>3. CASE c.kind # "status"
      BY <1>3, <2>3, <3>3 DEF Entry, Sets
    <3> QED  BY <3>2, <3>3
  <2> QED  BY <2>5, <2>6 DEF Follows, z
<1> QED  BY <1>2, <1>3

LEMMA UnknownSetsNothing ==
  ASSUME NEW e, ~Feed!Known(e), NEW w
  PROVE  Follows(w, w, e)
  BY DEF Feed!Known, Sets, Follows

LEMMA CarriesNothing ==
  ASSUME NEW v, NEW s, NEW a \in Nat
  PROVE  Carries(v, v, s, a, a)
<1>1. a + 1 .. a = {}
  OBVIOUS
<1> QED  BY <1>1 DEF Carries

LEMMA CarriesNext ==
  ASSUME NEW w, NEW v, NEW s, NEW a \in Nat, NEW b \in Nat, a <= b,
         Carries(w, v, s, a, b), NEW z, Follows(z, w, s[b + 1])
  PROVE  Carries(z, v, s, a, b + 1)
<1> SUFFICES ASSUME NEW c \in Entries
             PROVE  /\ (\A i \in a + 1 .. b + 1 : ~Sets(s[i], c)) => Entry(z, c) = Entry(v, c)
                    /\ \A i \in a + 1 .. b + 1 :
                         Sets(s[i], c) /\ (\A j \in i + 1 .. b + 1 : ~Sets(s[j], c))
                           => Entry(z, c) = Tells(s[i])
  BY DEF Carries
<1>1. b + 1 \in a + 1 .. b + 1 /\ \A i \in a + 1 .. b : i \in a + 1 .. b + 1
  OBVIOUS
<1>2. ASSUME \A i \in a + 1 .. b + 1 : ~Sets(s[i], c)
      PROVE  Entry(z, c) = Entry(v, c)
  <2>1. Entry(z, c) = Entry(w, c)
    BY <1>1, <1>2 DEF Follows
  <2> QED  BY <1>1, <1>2, <2>1 DEF Carries
<1>3. ASSUME NEW i \in a + 1 .. b + 1, Sets(s[i], c), \A j \in i + 1 .. b + 1 : ~Sets(s[j], c)
      PROVE  Entry(z, c) = Tells(s[i])
  <2>1. CASE i = b + 1
    BY <1>3, <2>1 DEF Follows
  <2>2. CASE i # b + 1
    <3>1. i \in a + 1 .. b /\ b + 1 \in i + 1 .. b + 1 /\ \A j \in i + 1 .. b : j \in i + 1 .. b + 1
      BY <2>2
    <3>2. Entry(z, c) = Entry(w, c)
      BY <1>3, <3>1 DEF Follows
    <3>3. \A j \in i + 1 .. b : ~Sets(s[j], c)
      BY <1>3, <3>1
    <3> QED  BY <1>3, <3>1, <3>2, <3>3 DEF Carries
  <2> QED  BY <2>1, <2>2
<1> QED  BY <1>2, <1>3

(* Only the events between matter.                                         *)
LEMMA CarriesSame ==
  ASSUME NEW w, NEW v, NEW s, NEW z, NEW a \in Nat, NEW b \in Nat,
         \A i \in a + 1 .. b : z[i] = s[i], Carries(w, v, s, a, b)
  PROVE  Carries(w, v, z, a, b)
<1>1. \A i \in a + 1 .. b, j \in Nat : j \in i + 1 .. b => j \in a + 1 .. b
  OBVIOUS
<1>2. \A i \in a + 1 .. b : \A j \in i + 1 .. b : j \in a + 1 .. b
  OBVIOUS
<1> QED  BY <1>2 DEF Carries

(* An entry that is set is set last by some event.                         *)
LEMMA LastToSet ==
  ASSUME NEW s, NEW c, NEW a \in Nat, NEW b \in Nat, NEW k \in a + 1 .. b, Sets(s[k], c)
  PROVE  \E i \in a + 1 .. b : Sets(s[i], c) /\ \A j \in i + 1 .. b : ~Sets(s[j], c)
<1> DEFINE S == {i \in a + 1 .. b : Sets(s[i], c)}
<1>1. k \in S /\ S \in SUBSET Nat
  OBVIOUS
<1>2. IsFiniteSet(S)
  <2>1. IsFiniteSet(a + 1 .. b)
    BY FS_Interval
  <2> QED  BY <2>1, FS_Subset
<1> HIDE DEF S
<1>3. Greatest(S) \in S
  BY <1>1, <1>2, GreatestIs
<1>4. \A j \in S : j <= Greatest(S)
  BY <1>1, <1>2, GreatestIs
<1>5. ASSUME NEW j \in Greatest(S) + 1 .. b PROVE ~Sets(s[j], c)
  <2>1. j \in a + 1 .. b /\ ~(j <= Greatest(S))
    BY <1>3 DEF S
  <2> QED  BY <1>4, <2>1 DEF S
<1> QED  BY <1>3, <1>5 DEF S

(* A page is read from its first event to its last.                        *)
IsLog(s) == s \in Seq(Events) /\ \A i \in 1 .. Len(s) : IsEvent(s[i])

Part(s, a, k) == SubSeq(s, a + 1, a + k)

PartIsRead(s, v, a, k) ==
  LET d == Folded("decoded", << >>, Part(s, a, k))
  IN  /\ d \in Seq(Events)
      /\ Folded("view", v, d) \in Views
      /\ Carries(Folded("view", v, d), v, s, a, a + k)

LEMMA PartGrows ==
  ASSUME NEW X, NEW s \in Seq(X), NEW a \in Nat, NEW k \in Nat, a + k + 1 <= Len(s)
  PROVE  /\ Part(s, a, k) \in Seq(X)
         /\ s[a + k + 1] \in X
         /\ Part(s, a, k + 1) = Append(Part(s, a, k), s[a + k + 1])
  BY DEF Part

LEMMA PageIsRead ==
  ASSUME NEW s, IsLog(s), NEW v \in Views, NEW a \in Nat, NEW n \in Nat, a + n <= Len(s)
  PROVE  PartIsRead(s, v, a, n)
<1> DEFINE K == {k \in Nat : a + k <= Len(s) /\ ~PartIsRead(s, v, a, k)}
<1>1. s \in Seq(Events) /\ Len(s) \in Nat
  BY DEF IsLog
<1>2. SUFFICES ASSUME K # {} PROVE FALSE
  OBVIOUS
<1>3. K \in SUBSET Nat
  OBVIOUS
<1> HIDE DEF K
<1>4. PICK m \in K : \A k \in K : m <= k
  BY <1>2, <1>3, LeastElement
<1>5. m \in Nat /\ a + m <= Len(s) /\ ~PartIsRead(s, v, a, m)
  BY <1>4 DEF K
<1>6. CASE m = 0
  <2>1. Part(s, a, 0) = << >>
    BY <1>1 DEF Part
  <2>2. Folded("decoded", << >>, << >>) = << >> /\ Folded("view", v, << >>) = v
    BY FoldNothing
  <2>3. Carries(v, v, s, a, a + 0)
    BY CarriesNothing
  <2>4. << >> \in Seq(Events)
    OBVIOUS
  <2> QED  BY <1>5, <1>6, <2>1, <2>2, <2>3, <2>4 DEF PartIsRead
<1>7. CASE m # 0
  <2> DEFINE k == m - 1
             e == s[a + k + 1]
             d == Folded("decoded", << >>, Part(s, a, k))
             w == Folded("view", v, d)
  <2>1. k \in Nat /\ k + 1 = m /\ a + k + 1 <= Len(s) /\ a + k <= Len(s) /\ a + m = a + k + 1 /\ ~(m <= k)
    BY <1>1, <1>5, <1>7
  <2>2. PartIsRead(s, v, a, k)
    BY <1>4, <2>1 DEF K
  <2> HIDE DEF k
  <2>3. d \in Seq(Events) /\ w \in Views /\ Carries(w, v, s, a, a + k)
    BY <2>2 DEF PartIsRead
  <2>4. Part(s, a, k) \in Seq(Events) /\ e \in Events /\ Part(s, a, m) = Append(Part(s, a, k), e)
    BY <1>1, <2>1, PartGrows
  <2>5. IsEvent(e)
    <3>1. a + k + 1 \in 1 .. Len(s)
      BY <1>1, <2>1
    <3> QED  BY <3>1 DEF IsLog
  <2> HIDE DEF e
  <2>6. Folded("decoded", << >>, Part(s, a, m)) = FoldStep("decoded", e, d)
    BY <2>4, FoldAppend
  <2> HIDE DEF d
  <2>7. CASE Feed!Known(e)
    <3>1. Folded("decoded", << >>, Part(s, a, m)) = Append(d, e)
      BY <2>6, <2>7 DEF FoldStep
    <3>2. Folded("view", v, Append(d, e)) = FoldStep("view", e, w)
      BY <2>3, <2>4, FoldAppend
    <3>3. Folded("view", v, Append(d, e)) = Feed!Applied(e, w)
      BY <3>2 DEF FoldStep
    <3> HIDE DEF w
    <3>4. Feed!Applied(e, w) \in Views /\ Follows(Feed!Applied(e, w), w, s[a + k + 1])
      BY <2>3, <2>5, <2>7, AppliedFollows DEF e
    <3>5. a + k \in Nat /\ a <= a + k /\ a + k + 1 = (a + k) + 1
      BY <2>1
    <3>6. Carries(Feed!Applied(e, w), v, s, a, a + k + 1)
      BY <2>3, <3>4, <3>5, CarriesNext
    <3>7. Append(d, e) \in Seq(Events)
      BY <2>3, <2>4
    <3> QED  BY <1>5, <2>1, <3>1, <3>3, <3>4, <3>6, <3>7 DEF PartIsRead
  <2>8. CASE ~Feed!Known(e)
    <3>1. Folded("decoded", << >>, Part(s, a, m)) = d
      BY <2>6, <2>8 DEF FoldStep
    <3> HIDE DEF w
    <3>2. Follows(w, w, s[a + k + 1])
      BY <2>8, UnknownSetsNothing DEF e
    <3>3. a + k \in Nat /\ a <= a + k
      BY <2>1
    <3>4. Carries(w, v, s, a, a + k + 1)
      BY <2>3, <3>2, <3>3, CarriesNext
    <3> QED  BY <1>5, <2>1, <2>3, <3>1, <3>4 DEF PartIsRead, w
  <2> QED  BY <2>7, <2>8
<1> QED  BY <1>6, <1>7

(* What the consumer can know of the ledger: nothing tells it of a veto or *)
(* an expiry.                                                              *)
Seen(s) == IF s \in {"Vetoed", "Expired"} THEN "Queued" ELSE s

Ledger(st, ch) == [status |-> [p \in FeedProposals |-> Seen(st[p])], choice |-> ch]

LedgerType(st, ch) == st \in [FeedProposals -> Verdicts] /\ ch \in [FeedProposals -> [Voters -> Choices]]

(* The ledger is what the log tells, and an entry of the consumer's record *)
(* is right unless an event ahead of its cursor sets it.                   *)
Agreed(st, ch, l, i, v, j) ==
  /\ LedgerType(st, ch)
  /\ IsLog(l)
  /\ i \in 0 .. Len(l) /\ j \in 0 .. i
  /\ v \in Views
  /\ Carries(Ledger(st, ch), Feed!NoView, l, 0, Len(l))
  /\ \A c \in Entries :
       (\A k \in i + 1 .. Len(l) : ~Sets(l[k], c)) => Entry(v, c) = Entry(Ledger(st, ch), c)

FeedOK == Agreed(statuses, choice, log, cursor, view, saved)

LEMMA EventKeeps ==
  ASSUME NEW st, NEW ch, NEW l, NEW i, NEW v, NEW j, Agreed(st, ch, l, i, v, j),
         NEW st2, NEW ch2, LedgerType(st2, ch2),
         NEW e, IsEvent(e), Follows(Ledger(st2, ch2), Ledger(st, ch), e)
  PROVE  Agreed(st2, ch2, Append(l, e), i, v, j)
<1> DEFINE z == Append(l, e)
           n == Len(l)
<1>1. l \in Seq(Events) /\ e \in Events /\ n \in Nat /\ i \in 0 .. n
  BY DEF Agreed, IsLog, IsEvent
<1>2. /\ z \in Seq(Events) /\ Len(z) = n + 1 /\ z[n + 1] = e
      /\ \A k \in 1 .. n : z[k] = l[k]
  BY <1>1
<1> HIDE DEF z, n
<1>3. IsLog(z)
  <2>1. \A k \in 1 .. n : IsEvent(l[k])
    BY DEF Agreed, IsLog, n
  <2>2. ASSUME NEW k \in 1 .. Len(z) PROVE IsEvent(z[k])
    <3>1. k = n + 1 \/ k \in 1 .. n
      BY <1>1, <1>2
    <3> QED  BY <1>2, <2>1, <3>1
  <2> QED  BY <1>2, <2>2 DEF IsLog
<1>4. Carries(Ledger(st2, ch2), Feed!NoView, z, 0, n + 1)
  <2>1. Carries(Ledger(st, ch), Feed!NoView, l, 0, n)
    BY DEF Agreed, n
  <2>2. \A k \in 0 + 1 .. n : z[k] = l[k]
    BY <1>2
  <2>3. Carries(Ledger(st, ch), Feed!NoView, z, 0, n)
    BY <1>1, <2>1, <2>2, CarriesSame
  <2>4. Follows(Ledger(st2, ch2), Ledger(st, ch), z[n + 1]) /\ 0 <= n
    BY <1>1, <1>2
  <2> QED  BY <1>1, <2>3, <2>4, CarriesNext
<1>5. ASSUME NEW c \in Entries, \A k \in i + 1 .. n + 1 : ~Sets(z[k], c)
      PROVE  Entry(v, c) = Entry(Ledger(st2, ch2), c)
  <2>1. n + 1 \in i + 1 .. n + 1 /\ \A k \in i + 1 .. n : k \in i + 1 .. n + 1 /\ k \in 1 .. n
    BY <1>1
  <2>2. Entry(Ledger(st2, ch2), c) = Entry(Ledger(st, ch), c)
    BY <1>2, <1>5, <2>1 DEF Follows
  <2>3. \A k \in i + 1 .. n : ~Sets(l[k], c)
    BY <1>2, <1>5, <2>1
  <2> QED  BY <2>2, <2>3 DEF Agreed, n
<1>6. i \in 0 .. n + 1 /\ j \in 0 .. i /\ v \in Views
  BY <1>1 DEF Agreed
<1> QED  BY <1>2, <1>3, <1>4, <1>5, <1>6 DEF Agreed, z

LEMMA PageKeeps ==
  ASSUME NEW st, NEW ch, NEW l, NEW i, NEW v, NEW j, Agreed(st, ch, l, i, v, j),
         NEW n \in i .. Len(l), NEW m \in 0 .. n,
         NEW w \in Views, Carries(w, v, l, i, n)
  PROVE  Agreed(st, ch, l, n, w, m)
<1>1. Len(l) \in Nat /\ i \in 0 .. Len(l) /\ n \in Nat /\ i \in Nat
  BY DEF Agreed, IsLog
<1>2. ASSUME NEW c \in Entries, \A k \in n + 1 .. Len(l) : ~Sets(l[k], c)
      PROVE  Entry(w, c) = Entry(Ledger(st, ch), c)
  <2>1. CASE \A k \in i + 1 .. n : ~Sets(l[k], c)
    <3>1. \A k \in i + 1 .. Len(l) : k \in i + 1 .. n \/ k \in n + 1 .. Len(l)
      BY <1>1
    <3>2. Entry(v, c) = Entry(Ledger(st, ch), c)
      BY <1>2, <2>1, <3>1 DEF Agreed
    <3>3. Entry(w, c) = Entry(v, c)
      BY <2>1 DEF Carries
    <3> QED  BY <3>2, <3>3
  <2>2. CASE ~ \A k \in i + 1 .. n : ~Sets(l[k], c)
    <3>1. PICK k \in i + 1 .. n : Sets(l[k], c) /\ \A x \in k + 1 .. n : ~Sets(l[x], c)
      BY <1>1, <2>2, LastToSet
    <3>2. Entry(w, c) = Tells(l[k])
      BY <3>1 DEF Carries
    <3>3. k \in 0 + 1 .. Len(l) /\ \A x \in k + 1 .. Len(l) : x \in k + 1 .. n \/ x \in n + 1 .. Len(l)
      BY <1>1
    <3>4. \A x \in k + 1 .. Len(l) : ~Sets(l[x], c)
      BY <1>2, <3>1, <3>3
    <3>5. Entry(Ledger(st, ch), c) = Tells(l[k])
      BY <3>1, <3>3, <3>4 DEF Agreed, Carries
    <3> QED  BY <3>2, <3>5
  <2> QED  BY <2>1, <2>2
<1>3. n \in 0 .. Len(l)
  BY <1>1
<1> QED  BY <1>2, <1>3 DEF Agreed

(* One proposal's status changes, and the event says so, if it can.        *)
LEMMA StatusFollows ==
  ASSUME NEW st, NEW ch, LedgerType(st, ch), NEW p \in FeedProposals, NEW s \in Verdicts,
         NEW e, e.id = p, e.topic # "vote_cast",
         IF e.topic \in Feed!EVENT_TOPICS THEN Tells(e) = Seen(s) ELSE Seen(st[p]) = Seen(s)
  PROVE  /\ LedgerType([st EXCEPT ![p] = s], ch)
         /\ Follows(Ledger([st EXCEPT ![p] = s], ch), Ledger(st, ch), e)
<1> DEFINE f == [st EXCEPT ![p] = s]
<1>1. f \in [FeedProposals -> Verdicts] /\ \A q \in FeedProposals : f[q] = IF q = p THEN s ELSE st[q]
  BY DEF LedgerType
<1>2. /\ \A q \in FeedProposals : Ledger(f, ch).status[q] = Seen(f[q]) /\ Ledger(st, ch).status[q] = Seen(st[q])
      /\ Ledger(f, ch).choice = Ledger(st, ch).choice
  BY DEF Ledger
<1> HIDE DEF f
<1>3. ASSUME NEW c \in Entries
      PROVE  Entry(Ledger(f, ch), c) = IF Sets(e, c) THEN Tells(e) ELSE Entry(Ledger(st, ch), c)
  <2>1. c.id \in FeedProposals
    BY DEF Entries
  <2>2. CASE c.kind = "status"
    <3>1. Sets(e, c) <=> e.topic \in Feed!EVENT_TOPICS /\ c.id = p
      BY <2>2 DEF Sets
    <3>2. Entry(Ledger(f, ch), c) = Seen(f[c.id]) /\ Entry(Ledger(st, ch), c) = Seen(st[c.id])
      BY <1>2, <2>1, <2>2 DEF Entry
    <3> QED  BY <1>1, <2>1, <3>1, <3>2
  <2>3. CASE c.kind # "status"
    BY <1>2, <2>3 DEF Entry, Sets
  <2> QED  BY <2>2, <2>3
<1> QED  BY <1>1, <1>3 DEF LedgerType, Follows, f

LEMMA VoteFollows ==
  ASSUME NEW st, NEW ch, LedgerType(st, ch), NEW p \in FeedProposals, NEW x \in Voters, NEW s \in Supports,
         NEW e, e.id = p, e.topic = "vote_cast", e.rest[1] = x, e.rest[2] = s
  PROVE  /\ LedgerType(st, [ch EXCEPT ![p][x] = s])
         /\ Follows(Ledger(st, [ch EXCEPT ![p][x] = s]), Ledger(st, ch), e)
<1> DEFINE f == [ch EXCEPT ![p][x] = s]
<1>1. /\ f \in [FeedProposals -> [Voters -> Choices]]
      /\ \A q \in FeedProposals, y \in Voters : f[q][y] = IF q = p /\ y = x THEN s ELSE ch[q][y]
  BY DEF LedgerType, Choices
<1>2. /\ Ledger(st, f).status = Ledger(st, ch).status
      /\ Ledger(st, f).choice = f /\ Ledger(st, ch).choice = ch
  BY DEF Ledger
<1> HIDE DEF f
<1>3. ASSUME NEW c \in Entries
      PROVE  Entry(Ledger(st, f), c) = IF Sets(e, c) THEN Tells(e) ELSE Entry(Ledger(st, ch), c)
  <2>1. CASE c.kind = "status"
    BY <1>2, <2>1 DEF Entry, Sets
  <2>2. CASE c.kind # "status"
    <3>1. c.id \in FeedProposals /\ c.voter \in Voters
      BY <2>2 DEF Entries
    <3>2. Sets(e, c) <=> c.id = p /\ c.voter = x
      BY <2>2 DEF Sets, Feed!EVENT_TOPICS
    <3>3. Tells(e) = s
      BY DEF Tells
    <3> QED  BY <1>1, <1>2, <2>2, <3>1, <3>2, <3>3 DEF Entry
  <2> QED  BY <2>1, <2>2
<1> QED  BY <1>1, <1>3 DEF LedgerType, Follows, f

------------------------------------------------------------------------------
(* The consumer.                                                           *)

LEMMA FeedInit == Feed!Init => FeedOK
<1> SUFFICES ASSUME Feed!Init PROVE FeedOK
  OBVIOUS
<1>1. /\ statuses = Feed!NoView.status /\ choice = Feed!NoView.choice /\ log = << >>
      /\ cursor = 0 /\ view = Feed!NoView /\ saved = 0
  BY DEF Feed!Init
<1>2. LedgerType(statuses, choice) /\ Feed!NoView \in Views
  BY <1>1 DEF LedgerType, Feed!NoView, Views, Verdicts, Choices
<1>3. Ledger(statuses, choice) = Feed!NoView
  <2>1. \A p \in FeedProposals : Seen(statuses[p]) = "none"
    BY <1>1 DEF Seen, Feed!NoView
  <2> QED  BY <1>1, <2>1 DEF Ledger, Feed!NoView
<1>4. IsLog(log) /\ Len(log) = 0
  BY <1>1 DEF IsLog
<1>5. Carries(Feed!NoView, Feed!NoView, log, 0, Len(log))
  BY <1>4, CarriesNothing
<1> QED  BY <1>1, <1>2, <1>3, <1>4, <1>5 DEF FeedOK, Agreed

(* A status changes, with one event.                                       *)
LEMMA BecomesKeeps ==
  ASSUME FeedOK, NEW p \in FeedProposals, NEW s \in Verdicts, NEW e, IsEvent(e), e.id = p,
         e.topic # "vote_cast",
         IF e.topic \in Feed!EVENT_TOPICS THEN Tells(e) = Seen(s) ELSE Seen(statuses[p]) = Seen(s),
         Feed!Becomes(p, s, <<e>>)
  PROVE  FeedOK'
<1>1. /\ statuses' = [statuses EXCEPT ![p] = s] /\ choice' = choice /\ log' = log \o <<e>>
      /\ cursor' = cursor /\ view' = view /\ saved' = saved
  BY DEF Feed!Becomes, Feed!Emit
<1>2. Agreed(statuses, choice, log, cursor, view, saved)
  BY DEF FeedOK
<1>3. LedgerType(statuses, choice) /\ log \in Seq(Events) /\ e \in Events
  BY <1>2 DEF Agreed, IsLog, IsEvent
<1>4. LedgerType(statuses', choice') /\ Follows(Ledger(statuses', choice'), Ledger(statuses, choice), e)
  BY <1>1, <1>3, StatusFollows
<1>5. log' = Append(log, e)
  BY <1>1, <1>3
<1>6. Agreed(statuses', choice', Append(log, e), cursor, view, saved)
  BY <1>2, <1>4, EventKeeps
<1> QED  BY <1>1, <1>5, <1>6 DEF FeedOK

LEMMA FeedStep == FeedOK /\ [Feed!Next]_(Feed!vars) => FeedOK'
<1> SUFFICES ASSUME FeedOK, [Feed!Next]_(Feed!vars) PROVE FeedOK'
  OBVIOUS
<1> DEFINE Rest == Seq(Voters \cup Supports \cup Verdicts)
<1>1. Agreed(statuses, choice, log, cursor, view, saved)
  BY DEF FeedOK
<1>2. /\ LedgerType(statuses, choice) /\ IsLog(log) /\ log \in Seq(Events) /\ Len(log) \in Nat
      /\ cursor \in 0 .. Len(log) /\ saved \in 0 .. cursor /\ view \in Views
  BY <1>1 DEF Agreed, IsLog
<1>3. ASSUME NEW p \in FeedProposals, Feed!Create(p) PROVE FeedOK'
  <2> DEFINE e == Feed!Event("proposal_created", p, << >>)
  <2>1. "proposal_created" \in Topics /\ << >> \in Rest /\ "Active" \in Verdicts /\ "proposal_created" \in Feed!EVENT_TOPICS
    BY DEF Topics, Feed!EVENT_TOPICS, Verdicts
  <2>2. IsEvent(e) /\ e.topic = "proposal_created" /\ e.id = p
    BY <2>1 DEF IsEvent, Events, Feed!Event
  <2>3. Feed!Becomes(p, "Active", <<e>>)
    BY <1>3 DEF Feed!Create
  <2> HIDE DEF e
  <2>4. Tells(e) = Seen("Active")
    BY <2>2 DEF Tells, Seen
  <2> QED  BY <2>1, <2>2, <2>3, <2>4, BecomesKeeps
<1>4. ASSUME NEW p \in FeedProposals, Feed!Execute(p) PROVE FeedOK'
  <2> DEFINE e == Feed!Event("proposal_executed", p, << >>)
  <2>1. "proposal_executed" \in Topics /\ << >> \in Rest /\ "Executed" \in Verdicts /\ "proposal_executed" \in Feed!EVENT_TOPICS
    BY DEF Topics, Feed!EVENT_TOPICS, Verdicts
  <2>2. IsEvent(e) /\ e.topic = "proposal_executed" /\ e.id = p
    BY <2>1 DEF IsEvent, Events, Feed!Event
  <2>3. Feed!Becomes(p, "Executed", <<e>>)
    BY <1>4 DEF Feed!Execute
  <2> HIDE DEF e
  <2>4. Tells(e) = Seen("Executed")
    BY <2>2 DEF Tells, Seen
  <2> QED  BY <2>1, <2>2, <2>3, <2>4, BecomesKeeps
<1>5. ASSUME NEW p \in FeedProposals, Feed!Cancel(p) PROVE FeedOK'
  <2> DEFINE e == Feed!Event("proposal_cancelled", p, << >>)
  <2>1. "proposal_cancelled" \in Topics /\ << >> \in Rest /\ "Cancelled" \in Verdicts /\ "proposal_cancelled" \in Feed!EVENT_TOPICS
    BY DEF Topics, Feed!EVENT_TOPICS, Verdicts
  <2>2. IsEvent(e) /\ e.topic = "proposal_cancelled" /\ e.id = p
    BY <2>1 DEF IsEvent, Events, Feed!Event
  <2>3. Feed!Becomes(p, "Cancelled", <<e>>)
    BY <1>5 DEF Feed!Cancel
  <2> HIDE DEF e
  <2>4. Tells(e) = Seen("Cancelled")
    BY <2>2 DEF Tells, Seen
  <2> QED  BY <2>1, <2>2, <2>3, <2>4, BecomesKeeps
<1>6. ASSUME NEW p \in FeedProposals, Feed!Veto(p) PROVE FeedOK'
  <2> DEFINE e == Feed!Event("proposal_vetoed", p, << >>)
  <2>1. "proposal_vetoed" \in Topics /\ << >> \in Rest /\ "Vetoed" \in Verdicts /\ "proposal_vetoed" \notin Feed!EVENT_TOPICS
    BY DEF Topics, Feed!EVENT_TOPICS, Verdicts
  <2>2. IsEvent(e) /\ e.topic = "proposal_vetoed" /\ e.id = p
    BY <2>1 DEF IsEvent, Events, Feed!Event
  <2>3. Feed!Becomes(p, "Vetoed", <<e>>) /\ statuses[p] = "Queued"
    BY <1>6 DEF Feed!Veto
  <2> HIDE DEF e
  <2>4. Seen(statuses[p]) = Seen("Vetoed")
    BY <2>3 DEF Seen
  <2> QED  BY <2>1, <2>2, <2>3, <2>4, BecomesKeeps
<1>7. ASSUME NEW p \in FeedProposals, Feed!Expire(p) PROVE FeedOK'
  <2> DEFINE f == [statuses EXCEPT ![p] = "Expired"]
  <2>1. /\ statuses' = f /\ choice' = choice /\ log' = log \o << >> /\ statuses[p] = "Queued"
        /\ cursor' = cursor /\ view' = view /\ saved' = saved
    BY <1>7 DEF Feed!Expire, Feed!Becomes, Feed!Emit
  <2>2. log' = log
    BY <1>2, <2>1
  <2>3. f \in [FeedProposals -> Verdicts] /\ \A q \in FeedProposals : Seen(f[q]) = Seen(statuses[q])
    BY <1>2, <2>1 DEF LedgerType, Verdicts, Seen
  <2> HIDE DEF f
  <2>4. Ledger(f, choice) = Ledger(statuses, choice) /\ LedgerType(f, choice)
    BY <1>2, <2>3 DEF Ledger, LedgerType
  <2>5. Agreed(f, choice, log, cursor, view, saved)
    BY <1>1, <2>4 DEF Agreed
  <2> QED  BY <2>1, <2>2, <2>5 DEF FeedOK
<1>8. ASSUME NEW p \in FeedProposals, NEW s \in {"Queued", "Failed"}, Feed!Finalize(p, s) PROVE FeedOK'
  <2> DEFINE e == Feed!Event("proposal_finalized", p, <<s>>)
             f == Feed!Event("proposal_queued", p, << >>)
             g == [statuses EXCEPT ![p] = s]
  <2>1. /\ "proposal_finalized" \in Topics /\ "proposal_queued" \in Topics /\ << >> \in Rest /\ s \in Verdicts
        /\ "proposal_finalized" \in Feed!EVENT_TOPICS /\ "proposal_queued" \in Feed!EVENT_TOPICS
    BY DEF Topics, Feed!EVENT_TOPICS, Verdicts
  <2>2. <<s>> \in Rest /\ <<s>>[1] = s
    BY <2>1
  <2>3. IsEvent(e) /\ e.topic = "proposal_finalized" /\ e.id = p /\ e.rest = <<s>>
    BY <2>1, <2>2 DEF IsEvent, Events, Feed!Event
  <2>4. IsEvent(f) /\ f.topic = "proposal_queued" /\ f.id = p
    BY <2>1 DEF IsEvent, Events, Feed!Event
  <2>5. Feed!Becomes(p, s, <<e>> \o (IF s = "Queued" THEN <<f>> ELSE << >>))
    BY <1>8 DEF Feed!Finalize
  <2> HIDE DEF e, f
  <2>6. Tells(e) = Seen(s) /\ Tells(f) = Seen("Queued")
    BY <2>2, <2>3, <2>4 DEF Tells, Seen
  <2>7. CASE s = "Failed"
    <3>1. <<e>> \o << >> = <<e>>
      OBVIOUS
    <3>2. Feed!Becomes(p, s, <<e>>)
      BY <2>5, <2>7, <3>1
    <3> QED  BY <2>1, <2>3, <2>6, <3>2, BecomesKeeps
  <2>8. CASE s = "Queued"
    <3>1. /\ statuses' = g /\ choice' = choice /\ log' = log \o (<<e>> \o <<f>>)
          /\ cursor' = cursor /\ view' = view /\ saved' = saved
      BY <2>5, <2>8 DEF Feed!Becomes, Feed!Emit
    <3>2. LedgerType(g, choice) /\ Follows(Ledger(g, choice), Ledger(statuses, choice), e)
      BY <1>2, <2>1, <2>3, <2>6, StatusFollows
    <3>3. Agreed(g, choice, Append(log, e), cursor, view, saved)
      BY <1>1, <2>3, <3>2, EventKeeps
    <3>4. g[p] = s /\ [g EXCEPT ![p] = s] = g
      BY <1>2, <3>2 DEF LedgerType
    <3>5. Follows(Ledger(g, choice), Ledger(g, choice), f)
      <4>1. LedgerType(g, choice) /\ s \in Verdicts /\ f.id = p /\ f.topic # "vote_cast"
            /\ f.topic \in Feed!EVENT_TOPICS /\ Tells(f) = Seen(s)
        BY <2>1, <2>4, <2>6, <2>8, <3>2
      <4> HIDE DEF g
      <4>2. Follows(Ledger([g EXCEPT ![p] = s], choice), Ledger(g, choice), f)
        BY <4>1, StatusFollows
      <4> QED  BY <3>4, <4>2
    <3>6. Agreed(g, choice, Append(Append(log, e), f), cursor, view, saved)
      BY <2>4, <3>2, <3>3, <3>5, EventKeeps
    <3>7. log' = Append(Append(log, e), f)
      <4>1. e \in Events /\ f \in Events
        BY <2>3, <2>4 DEF IsEvent
      <4> QED  BY <1>2, <3>1, <4>1
    <3> QED  BY <3>1, <3>6, <3>7 DEF FeedOK
  <2> QED  BY <2>7, <2>8
<1>9. ASSUME NEW p \in FeedProposals, NEW x \in Voters, NEW s \in Supports, Feed!Vote(p, x, s) PROVE FeedOK'
  <2> DEFINE e == Feed!Event("vote_cast", p, <<x, s>>)
             f == [choice EXCEPT ![p][x] = s]
  <2>1. "vote_cast" \in Topics /\ <<x, s>> \in Rest /\ <<x, s>>[1] = x /\ <<x, s>>[2] = s
    BY DEF Topics, Feed!EVENT_TOPICS
  <2>2. IsEvent(e) /\ e.topic = "vote_cast" /\ e.id = p /\ e.rest = <<x, s>>
    BY <2>1 DEF IsEvent, Events, Feed!Event
  <2>3. /\ statuses' = statuses /\ choice' = f /\ log' = log \o <<e>>
        /\ cursor' = cursor /\ view' = view /\ saved' = saved
    BY <1>9 DEF Feed!Vote, Feed!Emit
  <2> HIDE DEF e
  <2>4. LedgerType(statuses, f) /\ Follows(Ledger(statuses, f), Ledger(statuses, choice), e)
    BY <1>2, <2>1, <2>2, VoteFollows
  <2>5. log' = Append(log, e)
    <3>1. e \in Events
      BY <2>2 DEF IsEvent
    <3> QED  BY <1>2, <2>3, <3>1
  <2>6. Agreed(statuses, f, Append(log, e), cursor, view, saved)
    BY <1>1, <2>2, <2>4, EventKeeps
  <2> QED  BY <2>3, <2>5, <2>6 DEF FeedOK
<1>10. ASSUME Feed!ReadPage PROVE FeedOK'
  <2> DEFINE n == Feed!PageEnd
             d == Feed!decodeEvents(SubSeq(log, cursor + 1, n))
  <2>1. PageSize \in Nat
    BY FeedAssumption
  <2>2. n \in cursor .. Len(log) /\ n - cursor \in Nat /\ cursor + (n - cursor) = n /\ cursor \in Nat
    BY <1>2, <2>1 DEF Feed!PageEnd
  <2>3. /\ view' = Feed!FoldLeft(LAMBDA v, e : Feed!Applied(e, v), view, d)
        /\ cursor' = n /\ saved' \in {saved, cursor, n}
        /\ statuses' = statuses /\ choice' = choice /\ log' = log
    BY <1>10 DEF Feed!ReadPage
  <2> HIDE DEF n
  <2>4. PartIsRead(log, view, cursor, n - cursor)
    BY <1>2, <2>2, PageIsRead
  <2>5. d = Folded("decoded", << >>, Part(log, cursor, n - cursor))
    BY <2>2, DecodedIs DEF Part
  <2> HIDE DEF d
  <2>6. view' = Folded("view", view, d)
    BY <2>3, AppliedIs
  <2>7. view' \in Views /\ Carries(view', view, log, cursor, n)
    BY <2>2, <2>4, <2>5, <2>6 DEF PartIsRead
  <2>8. saved' \in 0 .. n
    <3>1. saved \in Nat /\ saved <= cursor /\ cursor <= n /\ n \in Nat
      BY <1>2, <2>2
    <3>2. cursor \in Nat /\ cursor <= n
      BY <2>2, <3>1
    <3>3. \A x \in {saved, cursor, n} : x \in 0 .. n
      BY <3>1, <3>2
    <3> QED  BY <2>3, <3>3
  <2>9. Agreed(statuses, choice, log, n, view', saved')
    BY <1>1, <2>2, <2>7, <2>8, PageKeeps
  <2> QED  BY <2>3, <2>9 DEF FeedOK
<1>11. ASSUME Feed!Restart PROVE FeedOK'
  <2>1. /\ cursor' = saved /\ saved' = saved /\ view' = view
        /\ statuses' = statuses /\ choice' = choice /\ log' = log
    BY <1>11 DEF Feed!Restart
  <2>2. saved \in 0 .. Len(log) /\ saved \in 0 .. saved
        /\ \A k \in cursor + 1 .. Len(log) : k \in saved + 1 .. Len(log)
    BY <1>2
  <2>3. Agreed(statuses, choice, log, saved, view, saved)
    BY <1>1, <2>2 DEF Agreed
  <2> QED  BY <2>1, <2>3 DEF FeedOK
<1>12. CASE UNCHANGED Feed!vars
  BY <1>1, <1>12 DEF FeedOK, Feed!vars
<1> QED
  BY <1>3, <1>4, <1>5, <1>6, <1>7, <1>8, <1>9, <1>10, <1>11, <1>12 DEF Feed!Next

(* The record is right wherever nothing is left to read.                   *)
LEMMA FeedOKAgrees == FeedOK => ReplayAgrees
<1> SUFFICES ASSUME FeedOK, cursor = Len(log)
             PROVE  /\ view.choice = choice
                    /\ \A p \in FeedProposals : view.status[p] = Seen(statuses[p])
  BY DEF ReplayAgrees, Feed!ReplayAgrees, Seen
<1>1. Agreed(statuses, choice, log, cursor, view, saved)
  BY DEF FeedOK
<1>2. LedgerType(statuses, choice) /\ view \in Views /\ Len(log) \in Nat
  BY <1>1 DEF Agreed, IsLog
<1>3. cursor + 1 .. Len(log) = {}
  BY <1>2
<1>4. \A c \in Entries : Entry(view, c) = Entry(Ledger(statuses, choice), c)
  BY <1>1, <1>3 DEF Agreed
<1>5. ASSUME NEW p \in FeedProposals PROVE view.status[p] = Seen(statuses[p])
  <2> DEFINE c == [kind |-> "status", id |-> p]
  <2>1. c \in Entries /\ c.kind = "status" /\ c.id = p
    BY DEF Entries
  <2> HIDE DEF c
  <2> QED  BY <1>4, <2>1 DEF Entry, Ledger
<1>6. ASSUME NEW p \in FeedProposals, NEW x \in Voters PROVE view.choice[p][x] = choice[p][x]
  <2> DEFINE c == [kind |-> "choice", id |-> p, voter |-> x]
  <2>1. c \in Entries /\ c.kind # "status" /\ c.id = p /\ c.voter = x
    BY DEF Entries
  <2> HIDE DEF c
  <2> QED  BY <1>4, <2>1 DEF Entry, Ledger
<1>7. view.choice = choice
  <2>1. view.choice \in [FeedProposals -> [Voters -> Choices]] /\ choice \in [FeedProposals -> [Voters -> Choices]]
    BY <1>2 DEF Views, LedgerType
  <2>2. \A p \in FeedProposals : view.choice[p] = choice[p]
    BY <1>6, <2>1
  <2> QED  BY <2>1, <2>2
<1> QED  BY <1>5, <1>7

(* EventFeed: however the contracts' log is cut into pages, and whatever   *)
(* is read again after restarts, a consumer that has been through all of   *)
(* it knows every voter's last choice and every proposal's status, but for *)
(* the vetoes and expiries no event it decodes tells of.                   *)
THEOREM RestartsLoseNothing == Feed!Spec => []ReplayAgrees
<1>1. Feed!Init => FeedOK
  BY FeedInit
<1>2. FeedOK /\ [Feed!Next]_(Feed!vars) => FeedOK'
  BY FeedStep
<1>3. FeedOK => ReplayAgrees
  BY FeedOKAgrees
<1> QED  BY <1>1, <1>2, <1>3, PTL DEF Feed!Spec

------------------------------------------------------------------------------
(* The load test.                                                          *)

JobType == [strategy : {"all", "first", "pages"}, size : Nat \ {0}, page : Nat \ {0}]

LEMMA JobsType == Bench!JobsOf \in Seq(JobType)
<1> DEFINE page == PageSizes[(Len(PageSizes) \div 2) + 1]
           strategies == <<"all", "first", "pages">>
           S == [i \in 1 .. 3 * Len(Sizes) |->
                   Bench!Job(strategies[((i - 1) % 3) + 1], Sizes[((i - 1) \div 3) + 1], page)]
           T == [i \in DOMAIN PageSizes |-> Bench!Job("pages", Sizes[Len(Sizes)], PageSizes[i])]
<1>1. /\ Len(Sizes) \in Nat \ {0} /\ \A i \in 1 .. Len(Sizes) : Sizes[i] \in Nat \ {0}
      /\ Len(PageSizes) \in Nat \ {0} /\ DOMAIN PageSizes = 1 .. Len(PageSizes)
      /\ \A i \in 1 .. Len(PageSizes) : PageSizes[i] \in Nat \ {0}
  BY BenchAssumption
<1>2. (Len(PageSizes) \div 2) + 1 \in 1 .. Len(PageSizes)
  BY <1>1
<1>3. page \in Nat \ {0}
  BY <1>1, <1>2
<1> HIDE DEF page
<1>4. ASSUME NEW s \in {"all", "first", "pages"}, NEW m \in Nat \ {0}, NEW p \in Nat \ {0}
      PROVE  Bench!Job(s, m, p) \in JobType
  BY DEF Bench!Job, JobType
<1>5. S \in Seq(JobType)
  <2>1. ASSUME NEW i \in 1 .. 3 * Len(Sizes)
        PROVE  Bench!Job(strategies[((i - 1) % 3) + 1], Sizes[((i - 1) \div 3) + 1], page) \in JobType
    <3>1. ((i - 1) % 3) + 1 \in 1 .. 3 /\ ((i - 1) \div 3) + 1 \in 1 .. Len(Sizes)
      BY <1>1
    <3>2. \A k \in 1 .. 3 : strategies[k] \in {"all", "first", "pages"}
      OBVIOUS
    <3> HIDE DEF strategies
    <3> QED  BY <1>1, <1>3, <1>4, <3>1, <3>2
  <2>2. 3 * Len(Sizes) \in Nat
    BY <1>1
  <2> HIDE DEF strategies
  <2> QED  BY <2>1, <2>2
<1>6. T \in Seq(JobType)
  BY <1>1, <1>4
<1>7. Bench!JobsOf = S \o T
  BY DEF Bench!JobsOf, page
<1> HIDE DEF S, T
<1> QED  BY <1>5, <1>6, <1>7

(* The pages of a list, one after the other.                               *)
LEMMA PagesStart ==
  ASSUME NEW j \in Nat, NEW k \in Nat, NEW p \in Nat, j <= k
  PROVE  j * p \in Nat /\ k * p \in Nat /\ j * p <= k * p
  OBVIOUS

LEMMA PageOf ==
  ASSUME NEW x \in Nat \ {0}, NEW p \in Nat \ {0}
  PROVE  /\ Bench!CeilDiv(x, p) \in Nat \ {0}
         /\ (Bench!CeilDiv(x, p) - 1) * p < x
         /\ x <= Bench!CeilDiv(x, p) * p
<1> DEFINE a == x + p - 1
           d == a \div p
<1>1. a \in Nat /\ a >= p
  OBVIOUS
<1> HIDE DEF a
<1>2. d \in Nat /\ d * p <= a /\ a < (d + 1) * p
  BY <1>1
<1>3. Bench!CeilDiv(x, p) = d
  BY DEF Bench!CeilDiv, a
<1> HIDE DEF d
<1>4. (d + 1) * p = d * p + p /\ (d - 1) * p = d * p - p /\ d * p \in Nat
  BY <1>2
<1>5. d # 0
  <2>1. d = 0 => (d + 1) * p = p
    OBVIOUS
  <2> QED  BY <1>1, <1>2, <2>1
<1> QED  BY <1>2, <1>3, <1>4, <1>5 DEF a

(* The requests of a measurement: as many as are reported, and together    *)
(* they are for what it reads, each proposal once.                         *)
Total(job) == IF job.strategy = "first" THEN Bench!Least(job.page, job.size) ELSE job.size

RequestCount(job) ==
  CASE job.strategy = "all"   -> job.size
    [] job.strategy = "first" -> 1
    [] job.strategy = "pages" -> Bench!CeilDiv(job.size, job.page)

LEMMA RequestsAre ==
  ASSUME NEW job \in JobType
  PROVE  LET R == Bench!Requests(job)
             n == RequestCount(job)
         IN  /\ n \in Nat /\ Len(R) = n /\ DOMAIN R = 1 .. n
             /\ Bench!Reported(job) = 1 + n
             /\ \A k \in 1 .. n :
                  R[k] = IF job.strategy = "all" THEN {k} ELSE Bench!Page(k, job.page, job.size)
<1> DEFINE R == Bench!Requests(job)
           n == RequestCount(job)
<1>1. job.strategy \in {"all", "first", "pages"} /\ job.size \in Nat \ {0} /\ job.page \in Nat \ {0}
  BY DEF JobType
<1>2. Bench!CeilDiv(job.size, job.page) \in Nat
  BY <1>1, PageOf
<1>3. CASE job.strategy = "all"
  <2>1. R = [k \in 1 .. job.size |-> {k}] /\ n = job.size /\ Bench!Reported(job) = 1 + n
    BY <1>3 DEF Bench!Requests, Bench!Reported, RequestCount
  <2> HIDE DEF R, n
  <2>2. R \in Seq(SUBSET Nat) /\ Len(R) = n
    BY <1>1, <2>1
  <2> QED  BY <1>1, <1>3, <2>1, <2>2 DEF R, n
<1>4. CASE job.strategy = "first"
  <2>1. R = <<Bench!Page(1, job.page, job.size)>> /\ n = 1 /\ Bench!Reported(job) = 1 + n
    BY <1>4 DEF Bench!Requests, Bench!Reported, RequestCount
  <2> HIDE DEF R, n
  <2> QED  BY <1>4, <2>1 DEF R, n
<1>5. CASE job.strategy = "pages"
  <2> DEFINE d == Bench!CeilDiv(job.size, job.page)
  <2>1. R = [k \in 1 .. d |-> Bench!Page(k, job.page, job.size)] /\ n = d /\ Bench!Reported(job) = 1 + n
    BY <1>5 DEF Bench!Requests, Bench!Reported, RequestCount
  <2> HIDE DEF R, n
  <2>2. d \in Nat
    BY <1>2
  <2> HIDE DEF d
  <2>3. Len(R) = n /\ DOMAIN R = 1 .. n
    BY <2>1, <2>2
  <2> QED  BY <1>5, <2>1, <2>2, <2>3 DEF R, n
<1> QED  BY <1>1, <1>3, <1>4, <1>5

LEMMA PagesCover ==
  ASSUME NEW n \in Nat \ {0}, NEW p \in Nat \ {0}
  PROVE  /\ \A k \in 1 .. Bench!CeilDiv(n, p) : Bench!Page(k, p, n) \in SUBSET (1 .. n)
         /\ \A x \in 1 .. n : \E k \in 1 .. Bench!CeilDiv(n, p) : x \in Bench!Page(k, p, n)
         /\ \A j, k \in Nat \ {0} : j < k => Bench!Page(j, p, n) \cap Bench!Page(k, p, n) = {}
<1> DEFINE d == Bench!CeilDiv(n, p)
<1>1. d \in Nat \ {0} /\ (d - 1) * p < n /\ n <= d * p
  BY PageOf
<1> HIDE DEF d
<1>2. ASSUME NEW k \in Nat \ {0}
      PROVE  \A x : x \in Bench!Page(k, p, n) <=> x \in Nat /\ (k - 1) * p < x /\ x <= k * p /\ x <= n
  <2>1. k - 1 \in Nat /\ (k - 1) * p \in Nat /\ k * p \in Nat
    <3>1. k - 1 \in Nat /\ k - 1 <= k /\ p \in Nat
      OBVIOUS
    <3> QED  BY <3>1, PagesStart
  <2> DEFINE a == (k - 1) * p
             b == k * p
  <2>2. Bench!Page(k, p, n) = a + 1 .. Bench!Least(b, n) /\ a \in Nat /\ b \in Nat
    BY <2>1 DEF Bench!Page
  <2> HIDE DEF a, b
  <2>3. \A x : x \in a + 1 .. Bench!Least(b, n) <=> x \in Nat /\ a < x /\ x <= b /\ x <= n
    BY <2>2 DEF Bench!Least
  <2> QED  BY <2>2, <2>3 DEF a, b
<1>3. ASSUME NEW k \in 1 .. d PROVE Bench!Page(k, p, n) \in SUBSET (1 .. n)
  <2>1. k \in Nat \ {0} /\ k - 1 \in Nat /\ (k - 1) * p \in Nat
    <3>1. k \in Nat \ {0} /\ k - 1 \in Nat /\ k - 1 <= k /\ p \in Nat
      BY <1>1, <1>3
    <3> QED  BY <3>1, PagesStart
  <2>2. \A x \in Bench!Page(k, p, n) : x \in Nat /\ (k - 1) * p < x /\ x <= n
    BY <1>2, <2>1
  <2> DEFINE a == (k - 1) * p
  <2>3. \A x \in Nat : a < x /\ x <= n => x \in 1 .. n
    <3>1. a \in Nat
      BY <2>1
    <3> HIDE DEF a
    <3> QED  BY <3>1
  <2> QED  BY <2>2, <2>3
<1>4. ASSUME NEW x \in 1 .. n PROVE \E k \in 1 .. d : x \in Bench!Page(k, p, n)
  <2> DEFINE k == Bench!CeilDiv(x, p)
  <2>1. k \in Nat \ {0} /\ (k - 1) * p < x /\ x <= k * p
    <3>1. x \in Nat \ {0}
      OBVIOUS
    <3> QED  BY <3>1, PageOf
  <2> HIDE DEF k
  <2>2. k <= d
    <3>1. SUFFICES ASSUME d < k PROVE FALSE
      BY <1>1, <2>1
    <3>2. d \in Nat /\ k - 1 \in Nat /\ d <= k - 1 /\ p \in Nat
      BY <1>1, <2>1, <3>1
    <3>3. d * p <= (k - 1) * p /\ d * p \in Nat /\ (k - 1) * p \in Nat
      BY <3>2, PagesStart
    <3> DEFINE a == d * p
               b == (k - 1) * p
    <3>4. a \in Nat /\ b \in Nat /\ a <= b /\ b < x /\ n <= a /\ x <= n
      BY <1>1, <2>1, <3>3
    <3> HIDE DEF a, b
    <3> QED  BY <3>4
  <2>3. x \in Bench!Page(k, p, n)
    BY <1>2, <2>1
  <2> QED  BY <1>1, <2>1, <2>2, <2>3
<1>5. ASSUME NEW j \in Nat \ {0}, NEW k \in Nat \ {0}, j < k
      PROVE  Bench!Page(j, p, n) \cap Bench!Page(k, p, n) = {}
  <2>1. j \in Nat /\ k - 1 \in Nat /\ j <= k - 1 /\ p \in Nat
    BY <1>5
  <2>2. j * p <= (k - 1) * p /\ j * p \in Nat /\ (k - 1) * p \in Nat
    BY <2>1, PagesStart
  <2>3. SUFFICES ASSUME NEW x \in Bench!Page(j, p, n), x \in Bench!Page(k, p, n) PROVE FALSE
    OBVIOUS
  <2>4. x \in Nat /\ x <= j * p /\ (k - 1) * p < x
    BY <1>2, <2>3
  <2> DEFINE a == j * p
             b == (k - 1) * p
  <2>5. a \in Nat /\ b \in Nat /\ x \in Nat /\ a <= b /\ x <= a /\ b < x
    BY <2>2, <2>4
  <2> HIDE DEF a, b
  <2> QED  BY <2>5
<1> QED  BY <1>3, <1>4, <1>5 DEF d

Covers(r, D, S) == (\A k \in D : r[k] \in SUBSET S) /\ \A x \in S : \E k \in D : x \in r[k]

Gathered(r) == UNION {r[k] : k \in DOMAIN r}

LEMMA UnionIs ==
  ASSUME NEW S, NEW D, NEW r, Covers(r, D, S), DOMAIN r = D
  PROVE  Gathered(r) = S
<1>1. \A x : x \in UNION {r[k] : k \in D} <=> \E k \in D : x \in r[k]
  OBVIOUS
<1> QED  BY <1>1 DEF Covers, Gathered

LEMMA RequestsCover ==
  ASSUME NEW job \in JobType, NEW r, DOMAIN r = 1 .. RequestCount(job),
         \A k \in 1 .. RequestCount(job) : r[k] = Bench!Requests(job)[k]
  PROVE  /\ Gathered(r) = 1 .. Total(job)
         /\ \A j, k \in DOMAIN r : j # k => r[j] \cap r[k] = {}
<1> DEFINE n == RequestCount(job)
<1>1. job.strategy \in {"all", "first", "pages"} /\ job.size \in Nat \ {0} /\ job.page \in Nat \ {0}
  BY DEF JobType
<1>2. /\ n \in Nat
      /\ \A k \in 1 .. n : r[k] = IF job.strategy = "all" THEN {k} ELSE Bench!Page(k, job.page, job.size)
  BY RequestsAre
<1>3. CASE job.strategy = "all"
  <2>1. n = job.size /\ Total(job) = job.size
    BY <1>3 DEF RequestCount, Total
  <2> HIDE DEF n
  <2>2. \A k \in 1 .. n : r[k] = {k}
    BY <1>2, <1>3
  <2>3. DOMAIN r = 1 .. n
    BY DEF n
  <2>4. Gathered(r) = 1 .. n
    <3>1. Covers(r, 1 .. n, 1 .. n)
      BY <2>2 DEF Covers
    <3> QED  BY <2>3, <3>1, UnionIs
  <2>5. \A j, k \in 1 .. n : j # k => r[j] \cap r[k] = {}
    BY <2>2
  <2> QED  BY <2>1, <2>3, <2>4, <2>5
<1>4. CASE job.strategy = "first"
  <2>1. n = 1 /\ Total(job) = Bench!Least(job.page, job.size)
    BY <1>4 DEF RequestCount, Total
  <2>2. r[1] = Bench!Page(1, job.page, job.size)
    BY <1>2, <1>4, <2>1
  <2>3. Bench!Page(1, job.page, job.size) = 1 .. Bench!Least(job.page, job.size)
    <3>1. (1 - 1) * job.page + 1 = 1 /\ 1 * job.page = job.page
      BY <1>1
    <3> QED  BY <3>1 DEF Bench!Page
  <2>4. DOMAIN r = {1}
    BY <2>1
  <2>5. Gathered(r) = r[1]
    BY <2>4 DEF Gathered
  <2> QED  BY <2>1, <2>2, <2>3, <2>4, <2>5
<1>5. CASE job.strategy = "pages"
  <2>1. n = Bench!CeilDiv(job.size, job.page) /\ Total(job) = job.size
    BY <1>5 DEF RequestCount, Total
  <2>2. \A k \in 1 .. n : r[k] = Bench!Page(k, job.page, job.size)
    BY <1>2, <1>5
  <2>3. DOMAIN r = 1 .. n
    OBVIOUS
  <2>4. /\ \A k \in 1 .. n : Bench!Page(k, job.page, job.size) \in SUBSET (1 .. job.size)
        /\ \A x \in 1 .. job.size : \E k \in 1 .. n : x \in Bench!Page(k, job.page, job.size)
        /\ \A j, k \in Nat \ {0} :
             j < k => Bench!Page(j, job.page, job.size) \cap Bench!Page(k, job.page, job.size) = {}
    BY <1>1, <2>1, PagesCover
  <2> HIDE DEF n
  <2>5. Gathered(r) = 1 .. job.size
    <3>1. Covers(r, 1 .. n, 1 .. job.size)
      BY <2>2, <2>4 DEF Covers
    <3> QED  BY <2>3, <3>1, UnionIs
  <2>6. ASSUME NEW j \in 1 .. n, NEW k \in 1 .. n, j # k
        PROVE  r[j] \cap r[k] = {}
    <3>1. j \in Nat \ {0} /\ k \in Nat \ {0} /\ (j < k \/ k < j)
      BY <1>2, <2>6
    <3> QED  BY <2>2, <2>4, <3>1
  <2> QED  BY <2>1, <2>3, <2>5, <2>6
<1> QED  BY <1>1, <1>3, <1>4, <1>5

(* The pool: q of n requests were made, in their order, and as many of     *)
(* them have a place as there are places, or none wait.                    *)
Waiting(n, q, w) == w \in Seq(Nat) /\ Len(w) = n - q /\ \A i \in 1 .. n - q : w[i] = q + i

Taken(f, h) == Cardinality(f) + Cardinality(h)

Pool(n, q, w, f, h) ==
  /\ n \in Nat /\ q \in 0 .. n
  /\ Waiting(n, q, w)
  /\ f \in SUBSET (1 .. q) /\ h \in SUBSET (1 .. q) /\ f \cap h = {}
  /\ Taken(f, h) <= concurrency

FullPool(n, q, w, f, h) == Pool(n, q, w, f, h) /\ (q < n => Taken(f, h) = concurrency)

AnswersAre(job, n, q, f, r) ==
  DOMAIN r = 1 .. n /\ \A k \in 1 .. q : k \notin f => r[k] = Bench!Requests(job)[k]

BenchOK ==
  /\ concurrency \in Nat
  /\ jobs \in Seq(JobType)
  /\ counted => 
       /\ jobs # << >>
       /\ \E q \in Nat :
            /\ FullPool(RequestCount(Head(jobs)), q, queue, inFlight, landed)
            /\ calls = 1 + q
            /\ AnswersAre(Head(jobs), RequestCount(Head(jobs)), q, inFlight, answers)

LEMMA SameCardinality ==
  ASSUME NEW S
  PROVE  Bench!Cardinality(S) = Cardinality(S)
  BY DEF Bench!Cardinality, Cardinality

LEMMA PoolIsFinite ==
  ASSUME NEW n, NEW q, NEW w, NEW f, NEW h, Pool(n, q, w, f, h)
  PROVE  /\ IsFiniteSet(f) /\ IsFiniteSet(h)
         /\ Cardinality(f) \in Nat /\ Cardinality(h) \in Nat /\ q \in Nat /\ n \in Nat
<1>1. q \in Nat /\ n \in Nat /\ f \in SUBSET (1 .. q) /\ h \in SUBSET (1 .. q)
  BY DEF Pool
<1>2. IsFiniteSet(1 .. q)
  BY <1>1, FS_Interval
<1>3. IsFiniteSet(f) /\ IsFiniteSet(h)
  BY <1>1, <1>2, FS_Subset
<1> QED  BY <1>1, <1>3, FS_CardinalityType

(* New elements beside a finite set.                                       *)
LEMMA SegmentJoins ==
  ASSUME NEW q \in Nat, NEW m \in Nat, NEW f \in SUBSET (1 .. q)
  PROVE  Cardinality(f \cup (q + 1 .. q + m)) = Cardinality(f) + m
<1> DEFINE N == {k \in Nat : Cardinality(f \cup (q + 1 .. q + k)) # Cardinality(f) + k}
<1>1. SUFFICES ASSUME N # {} PROVE FALSE
  OBVIOUS
<1>2. N \in SUBSET Nat
  OBVIOUS
<1> HIDE DEF N
<1>3. PICK k \in N : \A j \in N : k <= j
  BY <1>1, <1>2, LeastElement
<1>4. k \in Nat /\ Cardinality(f \cup (q + 1 .. q + k)) # Cardinality(f) + k
  BY <1>3 DEF N
<1>5. IsFiniteSet(f) /\ Cardinality(f) \in Nat
  <2>1. IsFiniteSet(1 .. q)
    BY FS_Interval
  <2>2. IsFiniteSet(f)
    BY <2>1, FS_Subset
  <2> QED  BY <2>2, FS_CardinalityType
<1>6. k # 0
  <2>1. f \cup (q + 1 .. q + 0) = f
    OBVIOUS
  <2> QED  BY <1>4, <1>5, <2>1
<1> DEFINE j == k - 1
           S == f \cup (q + 1 .. q + j)
<1>7. j \in Nat /\ j + 1 = k /\ ~(k <= j)
  BY <1>4, <1>6
<1> HIDE DEF j
<1>8. Cardinality(S) = Cardinality(f) + j
  BY <1>3, <1>7 DEF N
<1>9. IsFiniteSet(S)
  <2>1. S \in SUBSET (1 .. q + j)
    BY <1>7
  <2>2. IsFiniteSet(1 .. q + j)
    <3>1. q + j \in Int
      BY <1>7
    <3> QED  BY <3>1, FS_Interval
  <2> QED  BY <2>1, <2>2, FS_Subset
<1>10. q + k \notin S /\ f \cup (q + 1 .. q + k) = S \cup {q + k}
  <2>1. q + k \notin S
    BY <1>4, <1>7
  <2>2. q + 1 .. q + k = (q + 1 .. q + j) \cup {q + k}
    BY <1>4, <1>7
  <2> QED  BY <2>1, <2>2
<1> HIDE DEF S
<1>11. Cardinality(S \cup {q + k}) = Cardinality(S) + 1
  BY <1>9, <1>10, FS_AddElement
<1> QED  BY <1>4, <1>5, <1>7, <1>8, <1>10, <1>11

(* runNext leaves no place empty while a request waits.                    *)
LEMMA PlacesAreTaken ==
  ASSUME concurrency \in Nat, NEW n, NEW q, NEW w, NEW f, NEW h, Pool(n, q, w, f, h),
         Bench!RunNext(w, f, h)
  PROVE  \E x \in q .. n :
           /\ FullPool(n, x, queue', inFlight', landed')
           /\ calls' = (IF counted THEN calls ELSE 1) + (x - q)
           /\ \A k \in 1 .. x : k \notin inFlight' => k \in 1 .. q /\ k \notin f
<1> DEFINE m == Bench!Least(Len(w), concurrency - Cardinality(f) - Cardinality(h))
           x == q + m
<1>1. /\ IsFiniteSet(f) /\ IsFiniteSet(h)
      /\ Cardinality(f) \in Nat /\ Cardinality(h) \in Nat /\ q \in Nat /\ n \in Nat
  BY PoolIsFinite
<1>2. /\ q \in 0 .. n /\ w \in Seq(Nat) /\ Len(w) = n - q /\ \A i \in 1 .. n - q : w[i] = q + i
      /\ f \in SUBSET (1 .. q) /\ h \in SUBSET (1 .. q) /\ f \cap h = {}
      /\ Cardinality(f) + Cardinality(h) <= concurrency
  BY DEF Pool, Waiting, Taken
<1>3. /\ queue' = SubSeq(w, m + 1, Len(w))
      /\ inFlight' = f \cup {w[i] : i \in 1 .. m}
      /\ landed' = h
      /\ calls' = IF counted THEN calls + m ELSE 1 + m
  BY SameCardinality DEF Bench!RunNext
<1>4. /\ m \in 0 .. n - q
      /\ m <= concurrency - Cardinality(f) - Cardinality(h)
      /\ m = n - q \/ m = concurrency - Cardinality(f) - Cardinality(h)
  BY <1>1, <1>2 DEF Bench!Least
<1> HIDE DEF m
<1>5. m \in Nat /\ x \in q .. n /\ x \in Nat /\ x - q = m /\ n - x = n - q - m
  BY <1>1, <1>2, <1>4
<1>6. {w[i] : i \in 1 .. m} = q + 1 .. x
  <2>1. \A i \in 1 .. m : i \in 1 .. n - q
    BY <1>1, <1>2, <1>4
  <2>2. \A i \in 1 .. m : w[i] = q + i
    BY <1>2, <2>1
  <2>3. \A i \in 1 .. m : q + i \in q + 1 .. x
    BY <1>1, <1>5
  <2>4. \A k \in q + 1 .. x : k - q \in 1 .. m /\ k = q + (k - q)
    BY <1>1, <1>5
  <2> HIDE DEF x
  <2>5. \A k \in q + 1 .. x : k = w[k - q]
    BY <2>2, <2>4
  <2> QED  BY <2>2, <2>3, <2>4, <2>5
<1>7. inFlight' = f \cup (q + 1 .. q + m)
  BY <1>3, <1>6
<1>8. Cardinality(inFlight') = Cardinality(f) + m
  BY <1>1, <1>2, <1>5, <1>7, SegmentJoins
<1>9. Waiting(n, x, queue')
  <2>1. queue' \in Seq(Nat) /\ Len(queue') = n - x
    <3>1. w \in Seq(Nat) /\ Len(w) \in Nat /\ m + 1 \in 1 .. Len(w) + 1
          /\ Len(w) - (m + 1) + 1 = n - x
      BY <1>1, <1>2, <1>4, <1>5
    <3>2. SubSeq(w, m + 1, Len(w)) \in Seq(Nat)
          /\ Len(SubSeq(w, m + 1, Len(w))) = Len(w) - (m + 1) + 1
      BY <3>1
    <3> QED  BY <1>3, <3>1, <3>2
  <2>2. ASSUME NEW i \in 1 .. n - x PROVE queue'[i] = x + i
    <3>1. m + i \in 1 .. n - q /\ queue'[i] = w[m + i]
      BY <1>1, <1>2, <1>3, <1>4, <1>5
    <3>2. w[m + i] = q + (m + i)
      BY <1>2, <3>1
    <3> QED  BY <1>1, <1>5, <3>1, <3>2
  <2> QED  BY <2>1, <2>2 DEF Waiting
<1>10. /\ inFlight' \in SUBSET (1 .. x) /\ landed' \in SUBSET (1 .. x) /\ inFlight' \cap landed' = {}
  <2>1. /\ \A k \in 1 .. q : k \in 1 .. x
        /\ \A k \in q + 1 .. q + m : k \in 1 .. x /\ k \notin 1 .. q
    BY <1>1, <1>5
  <2> HIDE DEF x
  <2> QED  BY <1>2, <1>3, <1>7, <2>1
<1>11. Taken(inFlight', landed') <= concurrency /\ (x < n => Taken(inFlight', landed') = concurrency)
  <2>1. Taken(inFlight', landed') = Cardinality(f) + m + Cardinality(h)
    BY <1>3, <1>8 DEF Taken
  <2> QED  BY <1>1, <1>4, <1>5, <2>1
<1>12. FullPool(n, x, queue', inFlight', landed')
  BY <1>1, <1>5, <1>9, <1>10, <1>11 DEF FullPool, Pool
<1>13. \A k \in 1 .. x : k \notin inFlight' => k \in 1 .. q /\ k \notin f
  BY <1>1, <1>5, <1>7
<1>14. calls' = (IF counted THEN calls ELSE 1) + (x - q)
  BY <1>3, <1>5
<1> HIDE DEF x
<1> QED  BY <1>5, <1>12, <1>13, <1>14

LEMMA BenchStarts ==
  ASSUME Bench!Init
  PROVE  BenchOK
<1>1. concurrency \in Pools /\ jobs = Bench!JobsOf /\ ~counted
  BY DEF Bench!Init
<1>2. concurrency \in Nat
  BY <1>1, BenchAssumption
<1> QED  BY <1>1, <1>2, JobsType DEF BenchOK

LEMMA BenchKeeps ==
  ASSUME BenchOK, [Bench!Next]_(Bench!vars)
  PROVE  BenchOK'
<1> DEFINE job == Head(jobs)
           n == RequestCount(job)
<1>1. concurrency \in Nat /\ jobs \in Seq(JobType)
  BY DEF BenchOK
<1>2. ASSUME jobs # << >>
      PROVE  /\ job \in JobType /\ n \in Nat
             /\ Len(Bench!Requests(job)) = n /\ DOMAIN Bench!Requests(job) = 1 .. n
  <2>1. job \in JobType
    BY <1>1, <1>2
  <2> QED  BY <2>1, RequestsAre
<1>3. CASE Bench!RpcMode
  BY <1>3 DEF Bench!RpcMode, BenchOK, FullPool, Pool
<1>4. CASE Bench!CountAndAsk
  <2> DEFINE w == [k \in 1 .. n |-> k]
  <2>1. jobs # << >> /\ ~counted /\ counted' /\ concurrency' = concurrency /\ jobs' = jobs
    BY <1>4 DEF Bench!CountAndAsk, Bench!Measuring
  <2>2. n \in Nat /\ Len(Bench!Requests(job)) = n
    BY <1>2, <2>1
  <2>3. Bench!RunNext(w, {}, {}) /\ answers' = [k \in 1 .. n |-> {}]
    BY <1>4, <2>2 DEF Bench!CountAndAsk
  <2>4. Pool(n, 0, w, {}, {})
    <3>1. n - 0 = n /\ 0 \in 0 .. n
      BY <2>2
    <3>2. w \in Seq(Nat) /\ Len(w) = n /\ \A i \in 1 .. n : w[i] = 0 + i
      <4> HIDE DEF n
      <4> QED  BY <2>2
    <3>3. Taken({}, {}) <= concurrency
      BY <1>1, FS_EmptySet DEF Taken
    <3> HIDE DEF w, n
    <3> QED  BY <2>2, <3>1, <3>2, <3>3 DEF Pool, Waiting
  <2> HIDE DEF w, n
  <2>5. PICK x \in 0 .. n :
           /\ FullPool(n, x, queue', inFlight', landed')
           /\ calls' = (IF counted THEN calls ELSE 1) + (x - 0)
           /\ \A k \in 1 .. x : k \notin inFlight' => k \in 1 .. 0 /\ k \notin {}
    BY <1>1, <2>3, <2>4, PlacesAreTaken
  <2>6. x \in Nat /\ calls' = 1 + x
    BY <2>1, <2>2, <2>5
  <2>7. AnswersAre(job, n, x, inFlight', answers')
    <3>1. DOMAIN answers' = 1 .. n
      BY <2>3
    <3>2. \A k \in 1 .. x : k \notin inFlight' => FALSE
      BY <2>5
    <3> QED  BY <3>1, <3>2 DEF AnswersAre
  <2> QED  BY <1>1, <2>1, <2>5, <2>6, <2>7 DEF BenchOK, FullPool, Pool, n
<1>5. ASSUME counted, NEW q \in Nat,
             FullPool(n, q, queue, inFlight, landed), calls = 1 + q, AnswersAre(job, n, q, inFlight, answers),
             Bench!Answered \/ Bench!PlaceFree
      PROVE  BenchOK'
  <2>1. jobs # << >>
    BY <1>5 DEF BenchOK
  <2>2. n \in Nat /\ Pool(n, q, queue, inFlight, landed)
    BY <1>2, <1>5, <2>1 DEF FullPool
  <2>3. IsFiniteSet(inFlight) /\ IsFiniteSet(landed)
        /\ Cardinality(inFlight) \in Nat /\ Cardinality(landed) \in Nat
    BY <2>2, PoolIsFinite
  <2> HIDE DEF n
  <2>4. CASE Bench!Answered
    <3>1. PICK k \in inFlight :
             /\ inFlight' = inFlight \ {k}
             /\ landed' = landed \cup {k}
             /\ answers' = [answers EXCEPT ![k] = Bench!Requests(job)[k]]
      BY <2>4 DEF Bench!Answered
    <3>2. counted' /\ concurrency' = concurrency /\ jobs' = jobs /\ queue' = queue /\ calls' = calls
      BY <1>5, <2>4 DEF Bench!Answered
    <3>3. k \in 1 .. q /\ k \notin landed
      BY <2>2 DEF Pool
    <3>4. Cardinality(inFlight') = Cardinality(inFlight) - 1
      BY <2>3, <3>1, FS_RemoveElement
    <3>5. Cardinality(landed') = Cardinality(landed) + 1
      BY <2>3, <3>1, <3>3, FS_AddElement
    <3>6. Taken(inFlight', landed') = Taken(inFlight, landed)
      BY <2>3, <3>4, <3>5 DEF Taken
    <3>7. inFlight' \in SUBSET (1 .. q) /\ landed' \in SUBSET (1 .. q) /\ inFlight' \cap landed' = {}
      BY <2>2, <3>1, <3>3 DEF Pool
    <3>8. FullPool(n, q, queue', inFlight', landed')
      BY <1>5, <2>2, <3>2, <3>6, <3>7 DEF FullPool, Pool
    <3>9. AnswersAre(job, n, q, inFlight', answers')
      <4> DEFINE a == Bench!Requests(job)[k]
      <4>1. DOMAIN answers = 1 .. n /\ \A i \in 1 .. q : i \notin inFlight => answers[i] = Bench!Requests(job)[i]
        BY <1>5 DEF AnswersAre
      <4>2. answers' = [answers EXCEPT ![k] = a]
        BY <3>1
      <4>3. \A i \in 1 .. q : i \in 1 .. n
        BY <2>2 DEF Pool
      <4> HIDE DEF a
      <4>4. DOMAIN answers' = 1 .. n /\ \A i \in 1 .. n : answers'[i] = IF i = k THEN a ELSE answers[i]
        BY <4>1, <4>2
      <4> QED  BY <3>1, <4>1, <4>3, <4>4 DEF AnswersAre, a
    <3>10. FullPool(n, q, queue, inFlight, landed)'
      BY <2>1, <3>2, <3>8 DEF FullPool, Pool, n
    <3> QED  BY <1>1, <1>5, <2>1, <3>2, <3>9, <3>10 DEF BenchOK, n
  <2>5. CASE Bench!PlaceFree
    <3>1. PICK k \in landed : Bench!RunNext(queue, inFlight, landed \ {k})
      BY <2>5 DEF Bench!PlaceFree
    <3>2. counted' /\ concurrency' = concurrency /\ jobs' = jobs /\ answers' = answers
      BY <1>5, <2>5 DEF Bench!PlaceFree
    <3> DEFINE h == landed \ {k}
    <3>3. Cardinality(h) = Cardinality(landed) - 1
      BY <2>3, <3>1, FS_RemoveElement
    <3>4. Taken(inFlight, h) <= concurrency
      BY <1>1, <2>2, <2>3, <3>3 DEF Pool, Taken
    <3>5. Pool(n, q, queue, inFlight, h)
      BY <2>2, <3>4 DEF Pool
    <3> HIDE DEF h
    <3>6. Bench!RunNext(queue, inFlight, h)
      BY <3>1 DEF h
    <3>7. PICK x \in q .. n :
             /\ FullPool(n, x, queue', inFlight', landed')
             /\ calls' = (IF counted THEN calls ELSE 1) + (x - q)
             /\ \A i \in 1 .. x : i \notin inFlight' => i \in 1 .. q /\ i \notin inFlight
      BY <1>1, <3>5, <3>6, PlacesAreTaken
    <3>8. x \in Nat /\ calls' = 1 + x
      BY <1>5, <2>2, <3>7
    <3>9. AnswersAre(job, n, x, inFlight', answers')
      BY <1>5, <3>2, <3>7 DEF AnswersAre
    <3> QED  BY <1>1, <2>1, <3>2, <3>7, <3>8, <3>9 DEF BenchOK, FullPool, Pool, n
  <2> QED  BY <1>5, <2>4, <2>5
<1>6. CASE Bench!Answered \/ Bench!PlaceFree
  <2>1. CASE counted
    BY <1>5, <1>6, <2>1 DEF BenchOK
  <2>2. CASE ~counted
    BY <1>6, <2>2 DEF BenchOK, Bench!Answered, Bench!PlaceFree
  <2> QED  BY <2>1, <2>2
<1>7. CASE Bench!RunEnds
  <2>1. ~counted' /\ concurrency' = concurrency /\ (jobs' = jobs \/ jobs' = Tail(jobs)) /\ jobs # << >>
    BY <1>7 DEF Bench!RunEnds, Bench!Measuring
  <2>2. jobs' \in Seq(JobType)
    BY <1>1, <2>1
  <2> QED  BY <1>1, <2>1, <2>2 DEF BenchOK
<1>8. CASE UNCHANGED Bench!vars
  BY <1>8 DEF BenchOK, Bench!vars, FullPool, Pool
<1> QED  BY <1>3, <1>4, <1>6, <1>7, <1>8 DEF Bench!Next

LEMMA BenchSuffices ==
  ASSUME BenchOK
  PROVE  RunsAreAsReported
<1> SUFFICES ASSUME counted
             PROVE  /\ Bench!Cardinality(inFlight) <= concurrency
                    /\ queue # << >> /\ concurrency > 0 =>
                         Bench!Cardinality(inFlight \cup landed) = concurrency
                    /\ Bench!AllRead =>
                         LET job == Head(jobs)
                         IN  /\ calls = Bench!Reported(job)
                             /\ UNION Bench!Range(answers) =
                                  1 .. IF job.strategy = "first" THEN Bench!Least(job.page, job.size)
                                       ELSE job.size
                             /\ \A j, k \in DOMAIN answers : j # k => answers[j] \cap answers[k] = {}
  BY DEF RunsAreAsReported, Bench!RunsAreAsReported
<1> DEFINE job == Head(jobs)
           n == RequestCount(job)
<1>1. PICK q \in Nat :
         FullPool(n, q, queue, inFlight, landed) /\ calls = 1 + q /\ AnswersAre(job, n, q, inFlight, answers)
  BY DEF BenchOK
<1>2. job \in JobType /\ concurrency \in Nat
  BY DEF BenchOK
<1>3. n \in Nat /\ Bench!Reported(job) = 1 + n
  BY <1>2, RequestsAre
<1> HIDE DEF n
<1>4. Pool(n, q, queue, inFlight, landed)
  BY <1>1 DEF FullPool
<1>5. IsFiniteSet(inFlight) /\ IsFiniteSet(landed)
      /\ Cardinality(inFlight) \in Nat /\ Cardinality(landed) \in Nat
  BY <1>4, PoolIsFinite
<1>6. q \in 0 .. n /\ queue \in Seq(Nat) /\ Len(queue) = n - q /\ inFlight \cap landed = {}
      /\ Cardinality(inFlight) + Cardinality(landed) <= concurrency
  BY <1>4 DEF Pool, Waiting, Taken
<1>7. Bench!Cardinality(inFlight) <= concurrency
  BY <1>2, <1>5, <1>6, SameCardinality
<1>8. ASSUME queue # << >> PROVE Bench!Cardinality(inFlight \cup landed) = concurrency
  <2>1. q < n
    BY <1>3, <1>6, <1>8
  <2>2. Cardinality(inFlight) + Cardinality(landed) = concurrency
    BY <1>1, <2>1 DEF FullPool, Taken
  <2>3. Cardinality(inFlight \cup landed) = Cardinality(inFlight) + Cardinality(landed)
    <3>1. Cardinality(inFlight \cap landed) = 0
      BY <1>6, FS_EmptySet
    <3>2. Cardinality(inFlight \cup landed)
            = Cardinality(inFlight) + Cardinality(landed) - Cardinality(inFlight \cap landed)
      BY <1>5, FS_Union
    <3> QED  BY <1>5, <3>1, <3>2
  <2> QED  BY <2>2, <2>3, SameCardinality
<1>9. ASSUME Bench!AllRead
      PROVE  /\ calls = Bench!Reported(job)
             /\ UNION Bench!Range(answers) = 1 .. Total(job)
             /\ \A j, k \in DOMAIN answers : j # k => answers[j] \cap answers[k] = {}
  <2>1. queue = << >> /\ inFlight = {}
    BY <1>9 DEF Bench!AllRead
  <2>2. q = n
    BY <1>3, <1>6, <2>1
  <2>3. calls = Bench!Reported(job)
    BY <1>1, <1>3, <2>2
  <2>4. DOMAIN answers = 1 .. n /\ \A k \in 1 .. n : answers[k] = Bench!Requests(job)[k]
    BY <1>1, <2>1, <2>2 DEF AnswersAre
  <2>5. /\ Gathered(answers) = 1 .. Total(job)
        /\ \A j, k \in DOMAIN answers : j # k => answers[j] \cap answers[k] = {}
    BY <1>2, <2>4, RequestsCover DEF n
  <2>6. UNION Bench!Range(answers) = Gathered(answers)
    BY DEF Bench!Range, Gathered
  <2> QED  BY <2>3, <2>5, <2>6
<1> QED  BY <1>7, <1>8, <1>9 DEF Total

(* ListBench: for every list of sizes, page sizes and runs and every       *)
(* concurrency, a run that ends has read each proposal of its strategy     *)
(* once, in the calls the report prints; and no more requests are under    *)
(* way than the concurrency asked for, nor fewer places taken while one    *)
(* waits.                                                                  *)
THEOREM ReportsAreRight == Bench!Spec => []RunsAreAsReported
<1>1. Bench!Init => BenchOK
  BY BenchStarts
<1>2. BenchOK /\ [Bench!Next]_(Bench!vars) => BenchOK'
  BY BenchKeeps
<1>3. BenchOK => RunsAreAsReported
  BY BenchSuffices
<1> QED  BY <1>1, <1>2, <1>3, PTL DEF Bench!Spec

------------------------------------------------------------------------------
(* The seeding script.  What main has made of each proposal is a function  *)
(* of the step it is at, whatever others open meanwhile.                   *)

Names == {"queued", "failed", "executed", "active"}

CreatedAt(n) ==
  CASE n = "queued"   -> 4
    [] n = "failed"   -> 6
    [] n = "executed" -> 8
    [] n = "active"   -> 16

Made(k, n) == k > CreatedAt(n)

Passed == IF deployment.reachesQuorum THEN "Queued" ELSE "Failed"

StatusAt(k, n) ==
  CASE n = "queued"   -> IF k > 11 THEN Passed ELSE "Active"
    [] n = "failed"   -> IF k > 12 THEN "Failed" ELSE "Active"
    [] n = "executed" -> IF k > 15 THEN "Executed" ELSE IF k > 13 THEN Passed ELSE "Active"
    [] n = "active"   -> "Active"

ForAt(k, n) == IF (n = "queued" /\ k > 5) \/ (n = "executed" /\ k > 9) THEN 1 ELSE 0
AgainstAt(k, n) == IF n = "failed" /\ k > 7 THEN 1 ELSE 0

As(k, n, p) ==
  /\ p.status = StatusAt(k, n)
  /\ n # "active" => p.for = ForAt(k, n) /\ p.against = AgainstAt(k, n)

Fresh(p) == p.status = "Active" /\ p.for = 0 /\ p.against = 0

(* What may be under way when a proposal is opened.                        *)
Creations == Names \cup {"none"}

Proposal ==
  [start : Nat, end : Nat, queue : Nat,
   status : {"Active", "Queued", "Failed", "Executed"},
   for : Nat, against : Nat, own : BOOLEAN, during : Creations]

(* Proposals end in the order of their numbers.                            *)
Ordered(l, ps) ==
  /\ l \in Nat \ {0}
  /\ ps \in Seq(Proposal)
  /\ \A i \in DOMAIN ps : ps[i].end <= l + 1 + VotingPeriod
  /\ \A i, j \in DOMAIN ps : i <= j => ps[i].end <= ps[j].end

(* Each proposal of the script is as it is to be; the others are as new.   *)
AsMade(k, ps, named) ==
  /\ named \in [Names -> Nat]
  /\ \A n \in Names : Made(k, n) => named[n] \in DOMAIN ps /\ As(k, n, ps[named[n]])
  /\ \A m, n \in Names : Made(k, n) /\ CreatedAt(m) < CreatedAt(n) => named[m] < named[n]
  /\ \A i \in DOMAIN ps : (\A n \in Names : Made(k, n) => named[n] # i) => Fresh(ps[i])

Waited(k, l, ps, named) ==
  /\ k > 10 => l > ps[named["executed"]].end
  /\ k > 14 => l >= ps[named["executed"]].queue
  /\ k > 15 => deployment.reachesQuorum

(* The names are of proposals opened while the script opened its own.      *)
OfTheirCalls(k, ps, named) ==
  \A n \in Names : IF Made(k, n) THEN ps[named[n]].during = n ELSE named[n] = 0

(* What was opened since the count was read was opened during the call.    *)
CountWas(k, c, b, ps, named) ==
  /\ c \in {"none", "counted", "sent"}
  /\ c # "none" => k \in 1 .. 19 /\ Seed!Main[k].do \in {"create", "vote", "finalize", "execute"}
  /\ c # "none" /\ Seed!Main[k].do = "create" =>
       /\ b \in 0 .. Len(ps)
       /\ \A n \in Names : Made(k, n) => named[n] <= b
       /\ \A i \in b + 1 .. Len(ps) : ps[i].during = Seed!Main[k].on

SeedHolds(k, l, ps, named, c, b) ==
  /\ k \in 1 .. 20
  /\ Ordered(l, ps)
  /\ AsMade(k, ps, named)
  /\ Waited(k, l, ps, named)
  /\ OfTheirCalls(k, ps, named)
  /\ CountWas(k, c, b, ps, named)

SeedOK ==
  /\ SeedHolds(pc, ledger, opened, seeded, invoked, before)
  /\ ended \notin {"VotingStillOpen", "TimelockNotExpired"}

(* The steps of main, one by one.                                          *)
LEMMA MainIs ==
  /\ Len(Seed!Main) = 19
  /\ \A k \in {4, 6, 8, 16} : Seed!Main[k].do = "create"
  /\ \A k \in {5, 7, 9, 18, 19} : Seed!Main[k].do = "vote"
  /\ \A k \in {11, 12, 13} : Seed!Main[k].do = "finalize"
  /\ Seed!Main[15].do = "execute"
  /\ \A k \in {10, 14, 17} : Seed!Main[k].do = "wait"
  /\ Seed!Main[1].do = "contracts" /\ Seed!Main[2].do = "distribute" /\ Seed!Main[3].do = "threshold"
  /\ \A k \in {4, 5, 11} : Seed!Main[k].on = "queued"
  /\ \A k \in {6, 7, 12} : Seed!Main[k].on = "failed"
  /\ \A k \in {8, 9, 10, 13, 14, 15} : Seed!Main[k].on = "executed"
  /\ \A k \in {16, 17, 18, 19} : Seed!Main[k].on = "active"
  /\ Seed!Main[5].with = "FOR" /\ Seed!Main[7].with = "AGAINST" /\ Seed!Main[9].with = "FOR"
  /\ Seed!Main[10].with = "end" /\ Seed!Main[14].with = "queue" /\ Seed!Main[17].with = "start"
<1> USE DEF Seed!Main, Seed!Step, Seed!ToExecute
<1>0. Len(Seed!Main) = 19  OBVIOUS
<1>d1. Seed!Main[1].do = "contracts"  OBVIOUS
<1>d2. Seed!Main[2].do = "distribute"  OBVIOUS
<1>d3. Seed!Main[3].do = "threshold"  OBVIOUS
<1>d4. Seed!Main[4].do = "create"  OBVIOUS
<1>d5. Seed!Main[5].do = "vote"  OBVIOUS
<1>d6. Seed!Main[6].do = "create"  OBVIOUS
<1>d7. Seed!Main[7].do = "vote"  OBVIOUS
<1>d8. Seed!Main[8].do = "create"  OBVIOUS
<1>d9. Seed!Main[9].do = "vote"  OBVIOUS
<1>d10. Seed!Main[10].do = "wait"  OBVIOUS
<1>d11. Seed!Main[11].do = "finalize"  OBVIOUS
<1>d12. Seed!Main[12].do = "finalize"  OBVIOUS
<1>d13. Seed!Main[13].do = "finalize"  OBVIOUS
<1>d14. Seed!Main[14].do = "wait"  OBVIOUS
<1>d15. Seed!Main[15].do = "execute"  OBVIOUS
<1>d16. Seed!Main[16].do = "create"  OBVIOUS
<1>d17. Seed!Main[17].do = "wait"  OBVIOUS
<1>d18. Seed!Main[18].do = "vote"  OBVIOUS
<1>d19. Seed!Main[19].do = "vote"  OBVIOUS
<1>o4. Seed!Main[4].on = "queued"  OBVIOUS
<1>o5. Seed!Main[5].on = "queued"  OBVIOUS
<1>o6. Seed!Main[6].on = "failed"  OBVIOUS
<1>o7. Seed!Main[7].on = "failed"  OBVIOUS
<1>o8. Seed!Main[8].on = "executed"  OBVIOUS
<1>o9. Seed!Main[9].on = "executed"  OBVIOUS
<1>o10. Seed!Main[10].on = "executed"  OBVIOUS
<1>o11. Seed!Main[11].on = "queued"  OBVIOUS
<1>o12. Seed!Main[12].on = "failed"  OBVIOUS
<1>o13. Seed!Main[13].on = "executed"  OBVIOUS
<1>o14. Seed!Main[14].on = "executed"  OBVIOUS
<1>o15. Seed!Main[15].on = "executed"  OBVIOUS
<1>o16. Seed!Main[16].on = "active"  OBVIOUS
<1>o17. Seed!Main[17].on = "active"  OBVIOUS
<1>o18. Seed!Main[18].on = "active"  OBVIOUS
<1>o19. Seed!Main[19].on = "active"  OBVIOUS
<1>w5. Seed!Main[5].with = "FOR"  OBVIOUS
<1>w7. Seed!Main[7].with = "AGAINST"  OBVIOUS
<1>w9. Seed!Main[9].with = "FOR"  OBVIOUS
<1>w10. Seed!Main[10].with = "end"  OBVIOUS
<1>w14. Seed!Main[14].with = "queue"  OBVIOUS
<1>w17. Seed!Main[17].with = "start"  OBVIOUS
<1> HIDE DEF Seed!Main, Seed!Step, Seed!ToExecute
<1> QED
  BY <1>0, <1>d1, <1>d2, <1>d3, <1>d4, <1>d5, <1>d6, <1>d7, <1>d8, <1>d9,
     <1>d10, <1>d11, <1>d12, <1>d13, <1>d14, <1>d15, <1>d16, <1>d17, <1>d18,
     <1>d19, <1>o4, <1>o5, <1>o6, <1>o7, <1>o8, <1>o9, <1>o10, <1>o11,
     <1>o12, <1>o13, <1>o14, <1>o15, <1>o16, <1>o17, <1>o18, <1>o19, <1>w5,
     <1>w7, <1>w9, <1>w10, <1>w14, <1>w17

LEMMA StepIs ==
  ASSUME NEW k \in 1 .. 19
  PROVE  /\ Seed!Main[k].do = "create" <=> k \in {4, 6, 8, 16}
         /\ Seed!Main[k].do = "vote" <=> k \in {5, 7, 9, 18, 19}
         /\ Seed!Main[k].do = "finalize" <=> k \in {11, 12, 13}
         /\ Seed!Main[k].do = "execute" <=> k = 15
         /\ Seed!Main[k].do = "wait" <=> k \in {10, 14, 17}
         /\ Seed!Main[k].do \in {"contracts", "distribute", "threshold"} <=> k \in {1, 2, 3}
<1>1. \/ k \in {1, 2, 3} \/ k \in {4, 6, 8, 16} \/ k \in {5, 7, 9, 18, 19}
      \/ k \in {11, 12, 13} \/ k = 15 \/ k \in {10, 14, 17}
  OBVIOUS
<1> QED  BY <1>1, MainIs

(* A step that opens none changes what is to be of its own proposal only.  *)
LEMMA OthersStay ==
  ASSUME NEW k \in 1 .. 19, NEW n \in Names, NEW p,
         Made(k, n), As(k, n, p), Seed!Main[k].on # n \/ k \in {1, 2, 3, 4, 6, 8, 10, 14, 16, 17}
  PROVE  As(k + 1, n, p)
<1>1. k \in 1 .. 19 /\ n \in {"queued", "failed", "executed", "active"}
  BY DEF Names
<1>2. CASE k \in {1, 2, 3, 4, 6, 8, 10, 14, 16, 17}
  BY <1>1, <1>2 DEF As, StatusAt, ForAt, AgainstAt
<1>3. CASE k \in {5, 7, 9, 11, 12, 13, 15, 18, 19}
  <2>1. Seed!Main[k].on # n
    BY <1>3
  <2>2. CASE n = "queued"
    <3>1. k \notin {5, 11}
      BY <2>1, <2>2, MainIs
    <3> QED  BY <1>3, <2>2, <3>1 DEF As, StatusAt, ForAt, AgainstAt
  <2>3. CASE n = "failed"
    <3>1. k \notin {7, 12}
      BY <2>1, <2>3, MainIs
    <3> QED  BY <1>3, <2>3, <3>1 DEF As, StatusAt, ForAt, AgainstAt
  <2>4. CASE n = "executed"
    <3>1. k \notin {9, 13, 15}
      BY <2>1, <2>4, MainIs
    <3> QED  BY <1>3, <2>4, <3>1 DEF As, StatusAt, ForAt, AgainstAt
  <2>5. CASE n = "active"
    BY <2>5 DEF As, StatusAt
  <2> QED  BY <1>1, <2>2, <2>3, <2>4, <2>5
<1> QED  BY <1>1, <1>2, <1>3

LEMMA MadeNext ==
  ASSUME NEW k \in 1 .. 19, NEW n \in Names
  PROVE  /\ k \notin {4, 6, 8, 16} => (Made(k + 1, n) <=> Made(k, n))
         /\ k \in {4, 6, 8, 16} => (Made(k + 1, n) <=> Made(k, n) \/ n = Seed!Main[k].on)
<1>1. n \in {"queued", "failed", "executed", "active"}
  BY DEF Names
<1>2. k \notin {4, 6, 8, 16} => (Made(k + 1, n) <=> Made(k, n))
  BY <1>1 DEF Made, CreatedAt
<1>3. CASE k = 4
  BY <1>1, <1>3, MainIs DEF Made, CreatedAt
<1>4. CASE k = 6
  BY <1>1, <1>4, MainIs DEF Made, CreatedAt
<1>5. CASE k = 8
  BY <1>1, <1>5, MainIs DEF Made, CreatedAt
<1>6. CASE k = 16
  BY <1>1, <1>6, MainIs DEF Made, CreatedAt
<1> QED  BY <1>2, <1>3, <1>4, <1>5, <1>6

(* What each call does to its proposal.                                    *)
LEMMA CreatesAs ==
  ASSUME NEW k \in {4, 6, 8, 16}, NEW p, Fresh(p)
  PROVE  /\ Seed!Main[k].on \in Names /\ CreatedAt(Seed!Main[k].on) = k
         /\ As(k + 1, Seed!Main[k].on, p)
<1>1. CASE k = 4
  BY <1>1, MainIs DEF Names, CreatedAt, As, StatusAt, ForAt, AgainstAt, Fresh
<1>2. CASE k = 6
  BY <1>2, MainIs DEF Names, CreatedAt, As, StatusAt, ForAt, AgainstAt, Fresh
<1>3. CASE k = 8
  BY <1>3, MainIs DEF Names, CreatedAt, As, StatusAt, ForAt, AgainstAt, Fresh
<1>4. CASE k = 16
  BY <1>4, MainIs DEF Names, CreatedAt, As, StatusAt, ForAt, AgainstAt, Fresh
<1> QED  BY <1>1, <1>2, <1>3, <1>4

LEMMA VotesAs ==
  ASSUME NEW k \in {5, 7, 9, 18, 19}, NEW p, NEW q, As(k, Seed!Main[k].on, p),
         q.status = p.status,
         q.for = IF Seed!Main[k].with = "FOR" THEN p.for + 1 ELSE p.for,
         q.against = IF Seed!Main[k].with = "AGAINST" THEN p.against + 1 ELSE p.against
  PROVE  Seed!Main[k].on \in Names /\ Made(k, Seed!Main[k].on) /\ As(k + 1, Seed!Main[k].on, q)
<1>1. CASE k = 5
  BY <1>1, MainIs DEF Names, Made, CreatedAt, As, StatusAt, ForAt, AgainstAt
<1>2. CASE k = 7
  BY <1>2, MainIs DEF Names, Made, CreatedAt, As, StatusAt, ForAt, AgainstAt
<1>3. CASE k = 9
  BY <1>3, MainIs DEF Names, Made, CreatedAt, As, StatusAt, ForAt, AgainstAt
<1>4. CASE k = 18 \/ k = 19
  BY <1>4, MainIs DEF Names, Made, CreatedAt, As, StatusAt
<1> QED  BY <1>1, <1>2, <1>3, <1>4

LEMMA FinalizesAs ==
  ASSUME NEW k \in {11, 12, 13}, NEW p, NEW q, As(k, Seed!Main[k].on, p),
         q.status = IF deployment.reachesQuorum /\ p.for > p.against THEN "Queued" ELSE "Failed",
         q.for = p.for, q.against = p.against
  PROVE  Seed!Main[k].on \in Names /\ Made(k, Seed!Main[k].on) /\ As(k + 1, Seed!Main[k].on, q)
<1>1. CASE k = 11
  BY <1>1, MainIs DEF Names, Made, CreatedAt, As, StatusAt, ForAt, AgainstAt, Passed
<1>2. CASE k = 12
  BY <1>2, MainIs DEF Names, Made, CreatedAt, As, StatusAt, ForAt, AgainstAt, Passed
<1>3. CASE k = 13
  BY <1>3, MainIs DEF Names, Made, CreatedAt, As, StatusAt, ForAt, AgainstAt, Passed
<1> QED  BY <1>1, <1>2, <1>3

LEMMA ExecutesAs ==
  ASSUME NEW p, NEW q, As(15, "executed", p), p.status = "Queued",
         q.status = "Executed", q.for = p.for, q.against = p.against
  PROVE  /\ "executed" \in Names /\ Made(15, "executed") /\ As(16, "executed", q)
         /\ deployment.reachesQuorum
  BY DEF Names, Made, CreatedAt, As, StatusAt, ForAt, AgainstAt, Passed

(* What is to be depends on the deployment, which stays the same.          *)
LEMMA SamePlan ==
  ASSUME deployment' = deployment
  PROVE  SeedHolds(pc, ledger, opened, seeded, invoked, before)'
           <=> SeedHolds(pc', ledger', opened', seeded', invoked', before')
  BY DEF SeedHolds, Ordered, AsMade, Waited, OfTheirCalls, CountWas, As, StatusAt, Passed, ForAt,
         AgainstAt, Made, CreatedAt, Fresh, Names, Creations, Proposal

(* The proposals, and those the script knows by name.                      *)
LEMMA PartsAre ==
  ASSUME NEW ps \in Seq(Proposal), NEW i \in DOMAIN ps
  PROVE  /\ ps[i] \in Proposal
         /\ i \in 1 .. Len(ps)
         /\ ps[i].start \in Nat /\ ps[i].end \in Nat /\ ps[i].queue \in Nat
         /\ ps[i].for \in Nat /\ ps[i].against \in Nat /\ ps[i].own \in BOOLEAN
<1>1. ps[i] \in Proposal /\ i \in 1 .. Len(ps)
  OBVIOUS
<1>2. ASSUME NEW p \in Proposal
      PROVE  /\ p.start \in Nat /\ p.end \in Nat /\ p.queue \in Nat
             /\ p.for \in Nat /\ p.against \in Nat /\ p.own \in BOOLEAN
  BY DEF Proposal
<1> QED  BY <1>1, <1>2

LEMMA MadeAre ==
  /\ CreatedAt("queued") = 4 /\ CreatedAt("failed") = 6 /\ CreatedAt("executed") = 8
  /\ CreatedAt("active") = 16
  /\ \A k : /\ Made(k, "queued") <=> k > 4
            /\ Made(k, "failed") <=> k > 6
            /\ Made(k, "executed") <=> k > 8
            /\ Made(k, "active") <=> k > 16
  BY DEF CreatedAt, Made

(* The proposal to be executed, and the two that end before it.            *)
LEMMA ExecutedIs ==
  ASSUME NEW k \in 9 .. 20, NEW ps \in Seq(Proposal), NEW named, AsMade(k, ps, named)
  PROVE  /\ "executed" \in Names
         /\ named["executed"] \in DOMAIN ps
         /\ ps[named["executed"]].end \in Nat /\ ps[named["executed"]].queue \in Nat
         /\ As(k, "executed", ps[named["executed"]])
<1>1. "executed" \in Names
  BY DEF Names
<1>2. Made(k, "executed")
  BY MadeAre
<1>3. named["executed"] \in DOMAIN ps /\ As(k, "executed", ps[named["executed"]])
  BY <1>1, <1>2 DEF AsMade
<1> QED  BY <1>1, <1>3, PartsAre

(* A ledger that closes without a proposal, or with a stranger's.          *)
LEMMA LaterStillHolds ==
  ASSUME NEW k, NEW l, NEW ps, NEW named, NEW c, NEW b, SeedHolds(k, l, ps, named, c, b)
  PROVE  SeedHolds(k, l + 1, ps, named, c, b)
<1>1. Ordered(l + 1, ps)
  <2>1. Ordered(l, ps)
    BY DEF SeedHolds
  <2>2. \A i \in DOMAIN ps : ps[i].end \in Nat
    BY <2>1, PartsAre DEF Ordered
  <2> QED  BY <2>1, <2>2, SeedAssumption DEF Ordered
<1>2. Waited(k, l + 1, ps, named)
  <2>1. /\ k \in 1 .. 20 /\ l \in Nat /\ ps \in Seq(Proposal)
        /\ Waited(k, l, ps, named) /\ AsMade(k, ps, named)
    BY DEF SeedHolds, Ordered
  <2>2. k > 10 => ps[named["executed"]].end \in Nat /\ ps[named["executed"]].queue \in Nat
    BY <2>1, ExecutedIs
  <2> QED  BY <2>1, <2>2 DEF Waited
<1> QED  BY <1>1, <1>2 DEF SeedHolds

(* One more proposal.                                                      *)
LEMMA AppendedIs ==
  ASSUME NEW ps \in Seq(Proposal), NEW p \in Proposal
  PROVE  /\ Append(ps, p) \in Seq(Proposal)
         /\ Len(Append(ps, p)) = Len(ps) + 1
         /\ DOMAIN ps = 1 .. Len(ps) /\ Len(ps) \in Nat
         /\ DOMAIN Append(ps, p) = 1 .. Len(ps) + 1
         /\ \A i \in 1 .. Len(ps) : Append(ps, p)[i] = ps[i]
         /\ Append(ps, p)[Len(ps) + 1] = p
  OBVIOUS

LEMMA AppendedOrdered ==
  ASSUME NEW l, NEW ps, Ordered(l, ps), NEW own \in BOOLEAN,
         NEW d \in Creations
  PROVE  /\ Seed!Opened(l + 1, own, d) \in Proposal
         /\ Ordered(l + 1, Append(ps, Seed!Opened(l + 1, own, d)))
<1> DEFINE p == Seed!Opened(l + 1, own, d)
           qs == Append(ps, p)
<1>1. l \in Nat \ {0} /\ ps \in Seq(Proposal) /\ VotingPeriod \in Nat
  BY SeedAssumption DEF Ordered
<1>2. p \in Proposal /\ p.end = l + 1 + 1 + VotingPeriod
  BY <1>1 DEF Seed!Opened, Proposal
<1> HIDE DEF p
<1>3. \A i \in 1 .. Len(ps) : ps[i].end \in Nat
  BY <1>1, PartsAre
<1>4. /\ qs \in Seq(Proposal) /\ DOMAIN ps = 1 .. Len(ps) /\ Len(ps) \in Nat
      /\ DOMAIN qs = 1 .. Len(ps) + 1
      /\ \A i \in 1 .. Len(ps) : qs[i] = ps[i]
      /\ qs[Len(ps) + 1] = p
  BY <1>1, <1>2, AppendedIs
<1> HIDE DEF qs
<1>5. \A i \in DOMAIN qs : qs[i].end <= l + 1 + 1 + VotingPeriod
  <2> SUFFICES ASSUME NEW i \in DOMAIN qs  PROVE qs[i].end <= l + 1 + 1 + VotingPeriod
    OBVIOUS
  <2>1. i \in 1 .. Len(ps) \/ i = Len(ps) + 1
    BY <1>4
  <2>2. ASSUME i \in 1 .. Len(ps)  PROVE ps[i].end <= l + 1 + VotingPeriod
    BY <2>2, <1>4 DEF Ordered
  <2> QED  BY <1>1, <1>2, <1>3, <1>4, <2>1, <2>2
<1>6. \A i, j \in DOMAIN qs : i <= j => qs[i].end <= qs[j].end
  <2> SUFFICES ASSUME NEW i \in DOMAIN qs, NEW j \in DOMAIN qs, i <= j  PROVE qs[i].end <= qs[j].end
    OBVIOUS
  <2>1. CASE j = Len(ps) + 1
    BY <1>2, <1>4, <1>5, <2>1
  <2>2. CASE j # Len(ps) + 1
    <3>1. i \in DOMAIN ps /\ j \in DOMAIN ps
      BY <1>4, <2>2
    <3>2. ps[i].end <= ps[j].end
      BY <3>1 DEF Ordered
    <3> QED  BY <1>4, <3>1, <3>2
  <2> QED  BY <2>1, <2>2
<1>7. l + 1 \in Nat \ {0}
  BY <1>1
<1>8. Ordered(l + 1, qs)
  BY <1>4, <1>5, <1>6, <1>7 DEF Ordered
<1> QED  BY <1>2, <1>8 DEF p, qs

LEMMA OpenedIs ==
  ASSUME NEW l \in Nat \ {0}, NEW own \in BOOLEAN, NEW d
  PROVE  Fresh(Seed!Opened(l + 1, own, d)) /\ Seed!Opened(l + 1, own, d).during = d
<1>1. /\ Seed!Opened(l + 1, own, d).status = "Active" /\ Seed!Opened(l + 1, own, d).for = 0
      /\ Seed!Opened(l + 1, own, d).against = 0 /\ Seed!Opened(l + 1, own, d).during = d
  BY DEF Seed!Opened
<1> QED  BY <1>1, Zenon DEF Fresh

LEMMA NextIn ==
  ASSUME NEW n \in Nat, NEW b \in 0 .. n, b # n
  PROVE  b + 1 \in 1 .. n /\ b + 1 \in b + 1 .. n
  OBVIOUS

LEMMA StrangerStillHolds ==
  ASSUME NEW k, NEW l, NEW ps, NEW named, NEW c, NEW b, SeedHolds(k, l, ps, named, c, b),
         NEW d \in Creations,
         c # "none" /\ Seed!Main[k].do = "create" => d = Seed!Main[k].on
  PROVE  SeedHolds(k, l + 1, Append(ps, Seed!Opened(l + 1, FALSE, d)), named, c, b)
<1> DEFINE p == Seed!Opened(l + 1, FALSE, d)
           qs == Append(ps, p)
<1>1. /\ k \in 1 .. 20 /\ Ordered(l, ps) /\ AsMade(k, ps, named) /\ Waited(k, l, ps, named)
      /\ OfTheirCalls(k, ps, named) /\ CountWas(k, c, b, ps, named)
  BY DEF SeedHolds
<1>2. p \in Proposal /\ Ordered(l + 1, qs)
  BY <1>1, AppendedOrdered
<1>3. l \in Nat \ {0} /\ ps \in Seq(Proposal)
  BY <1>1 DEF Ordered
<1>4. Fresh(p) /\ p.during = d
  BY <1>3, OpenedIs
<1> HIDE DEF p
<1>5. /\ DOMAIN ps = 1 .. Len(ps) /\ Len(ps) \in Nat
      /\ DOMAIN qs = 1 .. Len(ps) + 1 /\ Len(qs) = Len(ps) + 1
      /\ \A i \in 1 .. Len(ps) : qs[i] = ps[i]
      /\ qs[Len(ps) + 1] = p
  BY <1>2, <1>3, AppendedIs
<1> HIDE DEF qs
<1>6. AsMade(k, qs, named)
  <2>1. ASSUME NEW n \in Names, Made(k, n)
        PROVE  named[n] \in DOMAIN qs /\ As(k, n, qs[named[n]])
    <3>1. named[n] \in DOMAIN ps /\ As(k, n, ps[named[n]])
      BY <1>1, <2>1 DEF AsMade
    <3> QED  BY <1>5, <3>1
  <2>2. ASSUME NEW i \in DOMAIN qs, \A n \in Names : Made(k, n) => named[n] # i
        PROVE  Fresh(qs[i])
    <3>1. CASE i = Len(ps) + 1
      BY <1>4, <1>5, <3>1
    <3>2. CASE i # Len(ps) + 1
      <4>1. i \in DOMAIN ps
        BY <1>5, <3>2
      <4>2. Fresh(ps[i])
        BY <1>1, <2>2, <4>1 DEF AsMade
      <4> QED  BY <1>5, <4>1, <4>2
    <3> QED  BY <3>1, <3>2
  <2> QED  BY <1>1, <2>1, <2>2 DEF AsMade
<1>7. Waited(k, l + 1, qs, named)
  <2>1. k > 10 => /\ named["executed"] \in 1 .. Len(ps)
                  /\ ps[named["executed"]].end \in Nat /\ ps[named["executed"]].queue \in Nat
    BY <1>1, <1>3, <1>5, ExecutedIs
  <2> QED  BY <1>1, <1>3, <1>5, <2>1 DEF Waited
<1>8. OfTheirCalls(k, qs, named)
  <2> SUFFICES ASSUME NEW n \in Names, Made(k, n)  PROVE qs[named[n]].during = n
    BY <1>1 DEF OfTheirCalls
  <2>1. named[n] \in DOMAIN ps /\ ps[named[n]].during = n
    BY <1>1 DEF AsMade, OfTheirCalls
  <2> QED  BY <1>5, <2>1
<1>9. CountWas(k, c, b, qs, named)
  <2>1. ASSUME NEW i \in b + 1 .. Len(qs), b \in 0 .. Len(ps), d = Seed!Main[k].on,
               \A j \in b + 1 .. Len(ps) : ps[j].during = Seed!Main[k].on
        PROVE  qs[i].during = Seed!Main[k].on
    BY <1>4, <1>5, <2>1
  <2>2. b \in 0 .. Len(ps) => b \in 0 .. Len(qs)
    BY <1>5
  <2> QED  BY <1>1, <2>1, <2>2 DEF CountWas
<1> QED  BY <1>1, <1>2, <1>6, <1>7, <1>8, <1>9 DEF SeedHolds, p, qs

(* The proposal opened by the call: what it is called is the count read    *)
(* before and one, which is its number, or that of another's, as new.      *)
LEMMA CreatedStillHolds ==
  ASSUME NEW k \in {4, 6, 8, 16}, NEW l, NEW ps, NEW named, NEW b,
         SeedHolds(k, l, ps, named, "sent", b)
  PROVE  SeedHolds(k + 1, l + 1, Append(ps, Seed!Opened(l + 1, TRUE, Seed!Main[k].on)),
                   [named EXCEPT ![Seed!Main[k].on] = b + 1], "none", 0)
<1> DEFINE o == Seed!Main[k].on
           p == Seed!Opened(l + 1, TRUE, o)
           qs == Append(ps, p)
           knows == [named EXCEPT ![o] = b + 1]
<1>1. /\ Ordered(l, ps) /\ AsMade(k, ps, named) /\ Waited(k, l, ps, named)
      /\ OfTheirCalls(k, ps, named) /\ CountWas(k, "sent", b, ps, named)
  BY DEF SeedHolds
<1>0. o \in Names
  BY MainIs DEF Names
<1>2. p \in Proposal /\ Ordered(l + 1, qs)
  BY <1>0, <1>1, AppendedOrdered DEF Creations
<1>3. l \in Nat \ {0} /\ ps \in Seq(Proposal)
  BY <1>1 DEF Ordered
<1>4. Fresh(p) /\ p.during = o
  BY <1>3, OpenedIs
<1> HIDE DEF p
<1>5. /\ DOMAIN ps = 1 .. Len(ps) /\ Len(ps) \in Nat
      /\ DOMAIN qs = 1 .. Len(ps) + 1 /\ Len(qs) = Len(ps) + 1
      /\ \A i \in 1 .. Len(ps) : qs[i] = ps[i]
      /\ qs[Len(ps) + 1] = p
  BY <1>2, <1>3, AppendedIs
<1> HIDE DEF qs
<1>6. o \in Names /\ CreatedAt(o) = k
  <2>1. Fresh(p)
    BY <1>4
  <2> QED  BY <2>1, CreatesAs
<1>7. /\ b \in 0 .. Len(ps)
      /\ \A n \in Names : Made(k, n) => named[n] <= b
      /\ \A i \in b + 1 .. Len(ps) : ps[i].during = o
  <2>1. Seed!Main[k].do = "create"
    BY MainIs
  <2> QED  BY <1>1, <2>1 DEF CountWas
<1>8. \A n \in Names : Made(k + 1, n) <=> Made(k, n) \/ n = o
  BY MadeNext
<1> HIDE DEF o
<1>9. /\ named \in [Names -> Nat] /\ knows \in [Names -> Nat] /\ knows[o] = b + 1
      /\ \A n \in Names : n # o => knows[n] = named[n]
      /\ ~Made(k, o)
  <2>1. named \in [Names -> Nat] /\ b + 1 \in Nat
    BY <1>1, <1>5, <1>7 DEF AsMade
  <2> QED  BY <1>6, <2>1 DEF Made
<1> HIDE DEF knows
<1>10. AsMade(k + 1, qs, knows)
  <2>1. ASSUME NEW n \in Names, Made(k, n)
        PROVE  knows[n] \in DOMAIN qs /\ As(k + 1, n, qs[knows[n]])
    <3>1. named[n] \in DOMAIN ps /\ As(k, n, ps[named[n]]) /\ n # o
      BY <1>1, <1>9, <2>1 DEF AsMade
    <3>2. As(k + 1, n, ps[named[n]])
      BY <2>1, <3>1, OthersStay
    <3> QED  BY <1>5, <1>9, <3>1, <3>2
  <2>2. b + 1 \in DOMAIN qs /\ Fresh(qs[b + 1])
    <3>1. CASE b = Len(ps)
      BY <1>4, <1>5, <3>1
    <3>2. CASE b # Len(ps)
      <4>1. b + 1 \in DOMAIN ps
        BY <1>5, <1>7, <3>2, NextIn, Zenon
      <4>2. \A n \in Names : Made(k, n) => named[n] # b + 1
        BY <1>5, <1>7, <1>9
      <4>3. Fresh(ps[b + 1])
        BY <1>1, <4>1, <4>2 DEF AsMade
      <4> QED  BY <1>5, <4>1, <4>3
    <3> QED  BY <3>1, <3>2
  <2>3. knows[o] \in DOMAIN qs /\ As(k + 1, o, qs[knows[o]])
    <3>1. As(k + 1, o, qs[b + 1])
      BY <2>2, CreatesAs DEF o
    <3> QED  BY <1>9, <2>2, <3>1
  <2>4. ASSUME NEW m \in Names, NEW n \in Names, Made(k + 1, n), CreatedAt(m) < CreatedAt(n)
        PROVE  knows[m] < knows[n]
    <3>1. CASE n = o
      <4>1. Made(k, m) /\ m # o
        BY <1>6, <2>4, <3>1 DEF Made, CreatedAt, Names
      <4> QED  BY <1>5, <1>7, <1>9, <3>1, <4>1
    <3>2. CASE n # o
      <4>1. Made(k, n)
        BY <1>8, <2>4, <3>2
      <4>2. m # o
        BY <1>6, <2>4, <4>1 DEF Made, CreatedAt, Names
      <4>3. named[m] < named[n]
        BY <1>1, <2>4, <4>1 DEF AsMade
      <4> QED  BY <1>9, <3>2, <4>2, <4>3
    <3> QED  BY <3>1, <3>2
  <2>5. ASSUME NEW i \in DOMAIN qs, \A n \in Names : Made(k + 1, n) => knows[n] # i
        PROVE  Fresh(qs[i])
    <3>1. CASE i = Len(ps) + 1
      BY <1>4, <1>5, <3>1
    <3>2. CASE i # Len(ps) + 1
      <4>1. i \in DOMAIN ps
        BY <1>5, <3>2
      <4>2. \A n \in Names : Made(k, n) => named[n] # i
        BY <1>8, <1>9, <2>5
      <4>3. Fresh(ps[i])
        BY <1>1, <4>1, <4>2 DEF AsMade
      <4> QED  BY <1>5, <4>1, <4>3
    <3> QED  BY <3>1, <3>2
  <2> QED  BY <1>8, <1>9, <2>1, <2>3, <2>4, <2>5 DEF AsMade
<1>11. Waited(k + 1, l + 1, qs, knows)
  <2>1. CASE k = 16
    <3>1. /\ named["executed"] \in 1 .. Len(ps)
          /\ ps[named["executed"]].end \in Nat /\ ps[named["executed"]].queue \in Nat
          /\ "executed" \in Names
      BY <1>1, <1>3, <1>5, <2>1, ExecutedIs
    <3>2. knows["executed"] = named["executed"]
      BY <1>6, <1>9, <2>1, <3>1, MadeAre
    <3> QED  BY <1>1, <1>3, <1>5, <2>1, <3>1, <3>2 DEF Waited
  <2>2. CASE k # 16
    BY <2>2 DEF Waited
  <2> QED  BY <2>1, <2>2
<1>12. OfTheirCalls(k + 1, qs, knows)
  <2>1. qs[b + 1].during = o
    <3>1. CASE b = Len(ps)
      BY <1>4, <1>5, <3>1
    <3>2. CASE b # Len(ps)
      <4>1. b + 1 \in 1 .. Len(ps) /\ b + 1 \in b + 1 .. Len(ps)
        BY <1>5, <1>7, <3>2, NextIn, Zenon
      <4> QED  BY <1>5, <1>7, <4>1
    <3> QED  BY <3>1, <3>2
  <2>2. ASSUME NEW n \in Names, Made(k, n)
        PROVE  qs[knows[n]].during = n
    <3>1. ps[named[n]].during = n /\ named[n] \in DOMAIN ps
      BY <1>1, <2>2 DEF OfTheirCalls, AsMade
    <3>2. n # o
      BY <1>9, <2>2
    <3> QED  BY <1>5, <1>9, <3>1, <3>2
  <2>3. ASSUME NEW n \in Names, ~Made(k + 1, n)
        PROVE  knows[n] = 0
    BY <1>1, <1>8, <1>9, <2>3 DEF OfTheirCalls
  <2> QED  BY <1>8, <1>9, <2>1, <2>2, <2>3 DEF OfTheirCalls
<1>13. CountWas(k + 1, "none", 0, qs, knows)
  BY DEF CountWas
<1>14. k + 1 \in 1 .. 20
  OBVIOUS
<1> QED  BY <1>2, <1>10, <1>11, <1>12, <1>13, <1>14 DEF SeedHolds, knows, o, p, qs

LEMMA NamedApart ==
  ASSUME NEW k \in 1 .. 20, NEW ps, NEW named, AsMade(k, ps, named),
         NEW m \in Names, NEW n \in Names, m # n, Made(k, m), Made(k, n)
  PROVE  named[m] # named[n]
<1>1. CreatedAt(m) < CreatedAt(n) \/ CreatedAt(n) < CreatedAt(m)
  BY DEF Names, CreatedAt
<1>2. named[m] \in Nat /\ named[n] \in Nat
  BY DEF AsMade
<1>3. named[m] < named[n] \/ named[n] < named[m]
  BY <1>1 DEF AsMade
<1> QED  BY <1>2, <1>3

(* The steps that vote, finalize or execute.                               *)
Changing == {5, 7, 9, 11, 12, 13, 15, 18, 19}

(* A call on the proposal of its step changes that one only, as it should. *)
LEMMA ChangedStillHolds ==
  ASSUME NEW k \in Changing, NEW l, NEW ps, NEW named, NEW c, NEW b,
         SeedHolds(k, l, ps, named, c, b),
         NEW o \in Names, o = Seed!Main[k].on, Made(k, o),
         NEW qs \in Seq(Proposal), Len(qs) = Len(ps),
         \A i \in DOMAIN ps : i # named[o] => qs[i] = ps[i],
         qs[named[o]].start = ps[named[o]].start, qs[named[o]].end = ps[named[o]].end,
         qs[named[o]].during = ps[named[o]].during,
         k > 13 => qs[named[o]].queue = ps[named[o]].queue,
         As(k + 1, o, qs[named[o]]),
         k = 15 => deployment.reachesQuorum
  PROVE  SeedHolds(k + 1, l + 1, qs, named, "none", 0)
<1>0. k \in {5, 7, 9, 11, 12, 13, 15, 18, 19}
  BY DEF Changing
<1> USE <1>0
<1>1. /\ Ordered(l, ps) /\ AsMade(k, ps, named) /\ Waited(k, l, ps, named)
      /\ OfTheirCalls(k, ps, named) /\ l \in Nat \ {0} /\ ps \in Seq(Proposal)
  BY DEF SeedHolds, Ordered
<1>2. DOMAIN qs = DOMAIN ps
  BY <1>1
<1>3. \A i \in DOMAIN ps : /\ qs[i].end = ps[i].end /\ qs[i].start = ps[i].start
                           /\ qs[i].during = ps[i].during
                           /\ (k > 13 => qs[i].queue = ps[i].queue)
                           /\ ps[i].end \in Nat
  <2> SUFFICES ASSUME NEW i \in DOMAIN ps
               PROVE  /\ qs[i].end = ps[i].end /\ qs[i].start = ps[i].start
                      /\ qs[i].during = ps[i].during
                      /\ (k > 13 => qs[i].queue = ps[i].queue)
                      /\ ps[i].end \in Nat
    OBVIOUS
  <2>1. ps[i].end \in Nat
    BY <1>1, PartsAre
  <2>2. CASE i = named[o]
    BY <2>1, <2>2, Zenon
  <2>3. CASE i # named[o]
    BY <2>1, <2>3, Zenon
  <2> QED  BY <2>2, <2>3, Zenon
<1>4. Ordered(l + 1, qs)
  <2>1. \A i \in DOMAIN qs : qs[i].end <= l + 1 + 1 + VotingPeriod
    <3> SUFFICES ASSUME NEW i \in DOMAIN qs  PROVE qs[i].end <= l + 1 + 1 + VotingPeriod
      OBVIOUS
    <3>1. ps[i].end <= l + 1 + VotingPeriod /\ qs[i].end = ps[i].end /\ ps[i].end \in Nat
      BY <1>1, <1>2, <1>3 DEF Ordered
    <3> QED  BY <1>1, <3>1, SeedAssumption
  <2>2. \A i, j \in DOMAIN qs : i <= j => qs[i].end <= qs[j].end
    <3> SUFFICES ASSUME NEW i \in DOMAIN qs, NEW j \in DOMAIN qs, i <= j
                 PROVE  qs[i].end <= qs[j].end
      OBVIOUS
    <3>1. ps[i].end <= ps[j].end
      BY <1>1, <1>2 DEF Ordered
    <3>2. qs[i].end = ps[i].end /\ qs[j].end = ps[j].end
      BY <1>2, <1>3
    <3> QED  BY <3>1, <3>2
  <2>3. l + 1 \in Nat \ {0}
    BY <1>1
  <2> QED  BY <2>1, <2>2, <2>3 DEF Ordered
<1>5. \A n \in Names : Made(k + 1, n) <=> Made(k, n)
  <2>1. k \in 1 .. 19 /\ k \notin {4, 6, 8, 16}
    OBVIOUS
  <2> QED  BY <2>1, MadeNext
<1>6. AsMade(k + 1, qs, named)
  <2>1. ASSUME NEW n \in Names, Made(k, n)
        PROVE  named[n] \in DOMAIN qs /\ As(k + 1, n, qs[named[n]])
    <3>1. named[n] \in DOMAIN ps /\ As(k, n, ps[named[n]])
      BY <1>1, <2>1 DEF AsMade
    <3>2. CASE n = o
      BY <1>2, <3>1, <3>2
    <3>3. CASE n # o
      <4>1. As(k + 1, n, ps[named[n]])
        BY <2>1, <3>1, <3>3, OthersStay
      <4>2. named[n] # named[o]
        BY <1>1, <2>1, <3>3, NamedApart
      <4> QED  BY <1>2, <3>1, <4>1, <4>2
    <3> QED  BY <3>2, <3>3
  <2>2. ASSUME NEW i \in DOMAIN qs, \A n \in Names : Made(k, n) => named[n] # i
        PROVE  Fresh(qs[i])
    <3>1. i # named[o] /\ i \in DOMAIN ps
      BY <1>2, <2>2
    <3>2. Fresh(ps[i])
      BY <1>1, <2>2, <3>1 DEF AsMade
    <3> QED  BY <3>1, <3>2
  <2>3. \A m, n \in Names : Made(k, n) /\ CreatedAt(m) < CreatedAt(n) => named[m] < named[n]
    BY <1>1 DEF AsMade
  <2>4. named \in [Names -> Nat]
    BY <1>1 DEF AsMade
  <2> QED  BY <1>5, <2>1, <2>2, <2>3, <2>4 DEF AsMade
<1>7. Waited(k + 1, l + 1, qs, named)
  <2>1. CASE k > 10
    <3>1. /\ named["executed"] \in DOMAIN ps
          /\ ps[named["executed"]].end \in Nat /\ ps[named["executed"]].queue \in Nat
      <4>1. k \in 9 .. 20
        BY <2>1
      <4> QED  BY <1>1, <4>1, ExecutedIs
    <3>2. /\ qs[named["executed"]].end = ps[named["executed"]].end
          /\ k > 13 => qs[named["executed"]].queue = ps[named["executed"]].queue
      BY <1>3, <3>1
    <3> QED  BY <1>1, <2>1, <3>1, <3>2 DEF Waited
  <2>2. CASE ~(k > 10)
    BY <2>2 DEF Waited
  <2> QED  BY <2>1, <2>2
<1>8. OfTheirCalls(k + 1, qs, named)
  <2>1. ASSUME NEW n \in Names, Made(k, n)
        PROVE  qs[named[n]].during = n
    <3>1. ps[named[n]].during = n /\ named[n] \in DOMAIN ps
      BY <1>1, <2>1 DEF OfTheirCalls, AsMade
    <3> QED  BY <1>3, <3>1
  <2> QED  BY <1>1, <1>5, <2>1 DEF OfTheirCalls
<1>9. CountWas(k + 1, "none", 0, qs, named) /\ k + 1 \in 1 .. 20
  BY DEF CountWas
<1> QED  BY <1>4, <1>6, <1>7, <1>8, <1>9 DEF SeedHolds

(* The calls.                                                              *)
LEMMA CallsFind ==
  ASSUME NEW k \in {5, 7, 9, 11, 12, 13, 15, 18, 19}, NEW ps \in Seq(Proposal), NEW named,
         AsMade(k, ps, named)
  PROVE  /\ Seed!Main[k].on \in Names /\ Made(k, Seed!Main[k].on)
         /\ named[Seed!Main[k].on] \in DOMAIN ps
         /\ As(k, Seed!Main[k].on, ps[named[Seed!Main[k].on]])
<1>1. Seed!Main[k].on \in Names /\ Made(k, Seed!Main[k].on)
  <2>1. k \in {5, 11} \/ k \in {7, 12} \/ k \in {9, 13, 15} \/ k \in {18, 19}
    OBVIOUS
  <2>2. k \in {5, 11} => Seed!Main[k].on = "queued"
    BY MainIs
  <2>3. k \in {7, 12} => Seed!Main[k].on = "failed"
    BY MainIs
  <2>4. k \in {9, 13, 15} => Seed!Main[k].on = "executed"
    BY MainIs
  <2>5. k \in {18, 19} => Seed!Main[k].on = "active"
    BY MainIs
  <2> QED  BY <2>1, <2>2, <2>3, <2>4, <2>5, MadeAre DEF Names
<1> QED  BY <1>1 DEF AsMade

LEMMA VoteIs ==
  ASSUME opened \in Seq(Proposal), NEW id \in DOMAIN opened, NEW with
  PROVE  /\ Seed!Voted(id, with) \in Seq(Proposal) /\ Len(Seed!Voted(id, with)) = Len(opened)
         /\ \A i \in DOMAIN opened : i # id => Seed!Voted(id, with)[i] = opened[i]
         /\ Seed!Voted(id, with)[id].start = opened[id].start
         /\ Seed!Voted(id, with)[id].end = opened[id].end
         /\ Seed!Voted(id, with)[id].queue = opened[id].queue
         /\ Seed!Voted(id, with)[id].during = opened[id].during
         /\ Seed!Voted(id, with)[id].status = opened[id].status
         /\ Seed!Voted(id, with)[id].for = IF with = "FOR" THEN opened[id].for + 1 ELSE opened[id].for
         /\ Seed!Voted(id, with)[id].against
              = IF with = "AGAINST" THEN opened[id].against + 1 ELSE opened[id].against
<1> DEFINE p == opened[id]
           f == IF with = "FOR" THEN p.for + 1 ELSE p.for
           a == IF with = "AGAINST" THEN p.against + 1 ELSE p.against
           q == [p EXCEPT !.for = f, !.against = a]
<1>1. p \in Proposal /\ p.for \in Nat /\ p.against \in Nat
  BY PartsAre
<1>2. f \in Nat /\ a \in Nat
  BY <1>1
<1> HIDE DEF f, a
<1>3. /\ q \in Proposal /\ q.start = p.start /\ q.end = p.end /\ q.queue = p.queue
      /\ q.during = p.during /\ q.status = p.status /\ q.for = f /\ q.against = a
  BY <1>1, <1>2 DEF Proposal
<1>4. Seed!Voted(id, with) = [opened EXCEPT ![id] = q]
  BY <1>1 DEF Seed!Voted, f, a
<1> HIDE DEF q, p
<1>5. /\ [opened EXCEPT ![id] = q] \in Seq(Proposal) /\ Len([opened EXCEPT ![id] = q]) = Len(opened)
      /\ \A i \in DOMAIN opened : i # id => [opened EXCEPT ![id] = q][i] = opened[i]
      /\ [opened EXCEPT ![id] = q][id] = q
  BY <1>3
<1> QED  BY <1>3, <1>4, <1>5 DEF f, a, p

LEMMA FinalizeIs ==
  ASSUME opened \in Seq(Proposal), NEW id \in DOMAIN opened, NEW l \in Nat
  PROVE  LET qs == Seed!Finalized(id, l)
         IN  /\ qs \in Seq(Proposal) /\ Len(qs) = Len(opened)
             /\ \A i \in DOMAIN opened : i # id => qs[i] = opened[i]
             /\ qs[id].start = opened[id].start /\ qs[id].end = opened[id].end
             /\ qs[id].during = opened[id].during
             /\ qs[id].for = opened[id].for /\ qs[id].against = opened[id].against
             /\ qs[id].status = IF deployment.reachesQuorum /\ opened[id].for > opened[id].against
                                THEN "Queued" ELSE "Failed"
<1> DEFINE p == opened[id]
           q == [p EXCEPT !.status = "Queued", !.queue = l + TimelockPeriod]
           r == [p EXCEPT !.status = "Failed"]
           passes == deployment.reachesQuorum /\ p.for > p.against
<1>1. p \in Proposal
  BY PartsAre
<1>2. l + TimelockPeriod \in Nat
  BY SeedAssumption
<1>3. /\ q \in Proposal /\ q.start = p.start /\ q.end = p.end /\ q.during = p.during
      /\ q.for = p.for /\ q.against = p.against /\ q.status = "Queued"
  BY <1>1, <1>2 DEF Proposal
<1>4. /\ r \in Proposal /\ r.start = p.start /\ r.end = p.end /\ r.during = p.during
      /\ r.for = p.for /\ r.against = p.against /\ r.status = "Failed"
  BY <1>1 DEF Proposal
<1>5. /\ passes => Seed!Finalized(id, l) = [opened EXCEPT ![id] = q]
      /\ ~passes => Seed!Finalized(id, l) = [opened EXCEPT ![id] = r]
  BY <1>1 DEF Seed!Finalized
<1> HIDE DEF q, r, p, passes
<1>6. \A x \in {q, r} :
        /\ [opened EXCEPT ![id] = x] \in Seq(Proposal) /\ Len([opened EXCEPT ![id] = x]) = Len(opened)
        /\ \A i \in DOMAIN opened : i # id => [opened EXCEPT ![id] = x][i] = opened[i]
        /\ [opened EXCEPT ![id] = x][id] = x
  BY <1>3, <1>4
<1>7. CASE passes
  BY <1>3, <1>5, <1>6, <1>7 DEF passes, p
<1>8. CASE ~passes
  BY <1>4, <1>5, <1>6, <1>8 DEF passes, p
<1> QED  BY <1>7, <1>8

LEMMA ExecuteIs ==
  ASSUME opened \in Seq(Proposal), NEW id \in DOMAIN opened
  PROVE  LET qs == [opened EXCEPT ![id].status = "Executed"]
         IN  /\ qs \in Seq(Proposal) /\ Len(qs) = Len(opened)
             /\ \A i \in DOMAIN opened : i # id => qs[i] = opened[i]
             /\ qs[id].start = opened[id].start /\ qs[id].end = opened[id].end
             /\ qs[id].queue = opened[id].queue /\ qs[id].during = opened[id].during
             /\ qs[id].for = opened[id].for /\ qs[id].against = opened[id].against
             /\ qs[id].status = "Executed"
<1> DEFINE p == opened[id]
           q == [p EXCEPT !.status = "Executed"]
<1>1. p \in Proposal
  BY PartsAre
<1>2. /\ q \in Proposal /\ q.start = p.start /\ q.end = p.end /\ q.queue = p.queue /\ q.during = p.during
      /\ q.for = p.for /\ q.against = p.against /\ q.status = "Executed"
  BY <1>1 DEF Proposal
<1>3. [opened EXCEPT ![id].status = "Executed"] = [opened EXCEPT ![id] = q]
  BY <1>1
<1> HIDE DEF q, p
<1>4. /\ [opened EXCEPT ![id] = q] \in Seq(Proposal) /\ Len([opened EXCEPT ![id] = q]) = Len(opened)
      /\ \A i \in DOMAIN opened : i # id => [opened EXCEPT ![id] = q][i] = opened[i]
      /\ [opened EXCEPT ![id] = q][id] = q
  BY <1>2
<1> QED  BY <1>2, <1>3, <1>4 DEF p

(* Neither finalize nor execute is ever refused for being early.           *)
LEMMA NeverEarly ==
  ASSUME SeedOK, pc \in 1 .. 19, NEW seq \in {ledger, ledger + 1},
         Seed!Main[pc].do \in {"create", "vote", "finalize", "execute"}
  PROVE  Seed!Refused(seq) \notin {"VotingStillOpen", "TimelockNotExpired"}
<1> DEFINE on == Seed!Main[pc].on
<1>1. /\ Ordered(ledger, opened) /\ AsMade(pc, opened, seeded) /\ Waited(pc, ledger, opened, seeded)
      /\ ledger \in Nat \ {0} /\ opened \in Seq(Proposal)
  BY DEF SeedOK, SeedHolds, Ordered
<1>2. CASE Seed!Main[pc].do = "create"
  BY <1>2 DEF Seed!Refused, Seed!Now
<1>3. CASE Seed!Main[pc].do = "vote"
  <2>1. Seed!Refused(seq) = Seed!VoteRefused(seeded[on], seq)
    BY <1>3 DEF Seed!Refused, Seed!Now
  <2> QED  BY <2>1 DEF Seed!VoteRefused
<1>4. CASE Seed!Main[pc].do = "finalize"
  <2>1. pc \in {11, 12, 13}
    BY <1>4, StepIs
  <2>2. Seed!Refused(seq) = Seed!FinalizeRefused(seeded[on], seq)
    BY <1>4 DEF Seed!Refused, Seed!Now
  <2>3. on \in Names /\ Made(pc, on) /\ seeded[on] \in DOMAIN opened
    BY <1>1, <2>1, CallsFind
  <2>4. pc \in 9 .. 20
    BY <2>1
  <2>5. /\ "executed" \in Names /\ seeded["executed"] \in DOMAIN opened
        /\ opened[seeded["executed"]].end \in Nat
    BY <1>1, <2>4, ExecutedIs
  <2>6. seeded[on] <= seeded["executed"]
    <3>1. on = "executed" \/ CreatedAt(on) < CreatedAt("executed")
      BY <2>3, <2>1 DEF Names, CreatedAt, Made
    <3>2. Made(pc, "executed")
      BY <2>1, MadeAre
    <3>3. on = "executed" \/ seeded[on] < seeded["executed"]
      BY <1>1, <2>3, <2>5, <3>1, <3>2 DEF AsMade
    <3>4. seeded[on] \in Nat /\ seeded["executed"] \in Nat
      BY <1>1, <2>3, <2>5 DEF AsMade
    <3> QED  BY <3>3, <3>4
  <2>7. opened[seeded[on]].end <= opened[seeded["executed"]].end
    BY <1>1, <2>3, <2>5, <2>6 DEF Ordered
  <2>8. ledger > opened[seeded["executed"]].end
    BY <1>1, <2>1 DEF Waited
  <2>9. opened[seeded[on]].end \in Nat
    BY <1>1, <2>3, PartsAre
  <2>10. ~(seq <= opened[seeded[on]].end)
    BY <1>1, <2>5, <2>7, <2>8, <2>9
  <2> QED  BY <2>2, <2>10 DEF Seed!FinalizeRefused
<1>5. CASE Seed!Main[pc].do = "execute"
  <2>1. pc = 15
    BY <1>5, StepIs
  <2>2. Seed!Refused(seq) = Seed!ExecuteRefused(seeded["executed"], seq)
    BY <1>5, <2>1, MainIs DEF Seed!Refused, Seed!Now
  <2>3. pc \in 9 .. 20
    BY <2>1
  <2>4. opened[seeded["executed"]].queue \in Nat
    BY <1>1, <2>3, ExecutedIs
  <2>5. ledger >= opened[seeded["executed"]].queue
    BY <1>1, <2>1 DEF Waited
  <2>6. ~(seq < opened[seeded["executed"]].queue)
    BY <1>1, <2>4, <2>5
  <2> QED  BY <2>2, <2>6 DEF Seed!ExecuteRefused
<1> QED  BY <1>2, <1>3, <1>4, <1>5

LEMMA RunningIs ==
  ASSUME SeedOK, NEW do, Seed!Running(do)
  PROVE  pc \in 1 .. 19 /\ Seed!Main[pc].do = do /\ ended = "none"
<1>1. pc \in 1 .. 20 /\ ~(pc > 19)
  BY MainIs DEF Seed!Running, Seed!Done, SeedOK, SeedHolds
<1> QED  BY <1>1 DEF Seed!Running

(* A step without a call, one that waits for nothing any more.             *)
LEMMA SteppedStillHolds ==
  ASSUME NEW k \in {1, 2, 3, 10, 14, 17}, NEW l, NEW ps, NEW named, NEW c, NEW b,
         SeedHolds(k, l, ps, named, c, b),
         k = 10 => l > ps[named["executed"]].end,
         k = 14 => l >= ps[named["executed"]].queue
  PROVE  SeedHolds(k + 1, l, ps, named, c, b)
<1>1. AsMade(k + 1, ps, named)
  <2>1. AsMade(k, ps, named)
    BY DEF SeedHolds
  <2>2. \A n \in Names : Made(k + 1, n) <=> Made(k, n)
    BY MadeNext
  <2>3. ASSUME NEW n \in Names, Made(k, n)
        PROVE  named[n] \in DOMAIN ps /\ As(k + 1, n, ps[named[n]])
    BY <2>1, <2>3, OthersStay DEF AsMade
  <2>4. /\ \A m, n \in Names : Made(k, n) /\ CreatedAt(m) < CreatedAt(n) => named[m] < named[n]
        /\ named \in [Names -> Nat]
        /\ \A i \in DOMAIN ps : (\A n \in Names : Made(k, n) => named[n] # i) => Fresh(ps[i])
    BY <2>1 DEF AsMade
  <2> QED  BY <2>2, <2>3, <2>4 DEF AsMade
<1>2. Waited(k + 1, l, ps, named)
  BY DEF SeedHolds, Waited
<1>3. OfTheirCalls(k + 1, ps, named)
  <2>1. \A n \in Names : Made(k + 1, n) <=> Made(k, n)
    BY MadeNext
  <2> QED  BY <2>1 DEF SeedHolds, OfTheirCalls
<1>4. c = "none"
  <2>1. Seed!Main[k].do \notin {"create", "vote", "finalize", "execute"}
    <3>1. k \in {1, 2, 3} \/ k \in {10, 14, 17}
      OBVIOUS
    <3> QED  BY <3>1, MainIs
  <2> QED  BY <2>1 DEF SeedHolds, CountWas
<1>5. CountWas(k + 1, c, b, ps, named)
  BY <1>4 DEF CountWas
<1> QED  BY <1>1, <1>2, <1>3, <1>5 DEF SeedHolds

LEMMA SeedStarts ==
  ASSUME Seed!Init
  PROVE  SeedOK
<1>1. pc = 1 /\ ledger = 1 /\ invoked = "none" /\ before = 0 /\ ended = "none"
  BY DEF Seed!Init
<1>2. seeded = [n \in Names |-> 0]
  BY DEF Seed!Init, Names
<1>3. Ordered(1, opened) /\ \A i \in DOMAIN opened : Fresh(opened[i])
  <2> DEFINE p == [start |-> 1, end |-> VotingPeriod, queue |-> 0, status |-> "Active",
                   for |-> 0, against |-> 0, own |-> FALSE, during |-> "none"]
  <2>1. p \in Proposal /\ p.end = VotingPeriod /\ Fresh(p)
    BY SeedAssumption DEF Proposal, Creations, Fresh
  <2>2. opened = << >> \/ opened = <<p>>
    BY DEF Seed!Init
  <2> HIDE DEF p
  <2>3. CASE opened = << >>
    BY <2>3 DEF Ordered
  <2>4. CASE opened = <<p>>
    <3>1. opened \in Seq(Proposal) /\ DOMAIN opened = {1} /\ opened[1] = p
      BY <2>1, <2>4
    <3> QED  BY <2>1, <3>1, SeedAssumption DEF Ordered
  <2> QED  BY <2>2, <2>3, <2>4
<1>4. \A n \in Names : ~Made(1, n)
  BY DEF Names, Made, CreatedAt
<1>5. AsMade(1, opened, seeded)
  BY <1>2, <1>3, <1>4 DEF AsMade
<1>6. Waited(1, 1, opened, seeded) /\ OfTheirCalls(1, opened, seeded)
  BY <1>2, <1>4 DEF Waited, OfTheirCalls
<1>7. CountWas(1, "none", 0, opened, seeded)
  BY DEF CountWas
<1> QED  BY <1>1, <1>3, <1>5, <1>6, <1>7 DEF SeedOK, SeedHolds

LEMMA IncludedKeeps ==
  ASSUME SeedOK, Seed!Included
  PROVE  SeedOK'
<1> DEFINE on == Seed!Main[pc].on
           do == Seed!Main[pc].do
<1>1. /\ invoked = "sent" /\ ended = "none" /\ ledger' = ledger + 1 /\ invoked' = "none"
      /\ before' = 0 /\ deployment' = deployment
  BY DEF Seed!Included
<1>2. SeedHolds(pc, ledger, opened, seeded, "sent", before)
  BY <1>1 DEF SeedOK
<1>3. pc \in 1 .. 19 /\ do \in {"create", "vote", "finalize", "execute"}
  BY <1>2 DEF SeedHolds, CountWas
<1>4. /\ AsMade(pc, opened, seeded) /\ ledger \in Nat /\ ledger + 1 \in Nat /\ opened \in Seq(Proposal)
  BY <1>2 DEF SeedHolds, Ordered
<1>5. Seed!Refused(ledger') = Seed!Refused(ledger + 1)
  BY <1>1
<1>6. CASE Seed!Refused(ledger') # "none"
  <2>1. /\ ended' = Seed!Refused(ledger + 1) /\ opened' = opened /\ seeded' = seeded /\ pc' = pc
    BY <1>5, <1>6 DEF Seed!Included
  <2>2. ended' \notin {"VotingStillOpen", "TimelockNotExpired"}
    BY <1>3, <2>1, NeverEarly
  <2>3. SeedHolds(pc, ledger + 1, opened, seeded, "none", 0)
    <3>1. SeedHolds(pc, ledger + 1, opened, seeded, "sent", before)
      BY <1>2, LaterStillHolds
    <3> QED  BY <3>1 DEF SeedHolds, CountWas
  <2> QED  BY <1>1, <2>1, <2>2, <2>3, SamePlan DEF SeedOK
<1>7. CASE Seed!Refused(ledger') = "none"
  <2>1. /\ ended' = ended /\ pc' = pc + 1 /\ opened' = Seed!Effect(ledger')
        /\ seeded' = IF do = "create" THEN [seeded EXCEPT ![on] = before + 1] ELSE seeded
    BY <1>7 DEF Seed!Included, Seed!GoOn, Seed!Now, Seed!NewId
  <2>2. SUFFICES SeedHolds(pc', ledger', opened', seeded', "none", 0)
    BY <1>1, <2>1, SamePlan DEF SeedOK
  <2>3. CASE do = "create"
    <3>1. pc \in {4, 6, 8, 16}
      BY <1>3, <2>3, StepIs
    <3>2. opened' = Append(opened, Seed!Opened(ledger + 1, TRUE, on))
      BY <1>1, <2>1, <2>3 DEF Seed!Effect, Seed!Now
    <3> QED  BY <1>1, <1>2, <2>1, <2>3, <3>1, <3>2, CreatedStillHolds
  <2>4. CASE do = "vote"
    <3>1. pc \in {5, 7, 9, 18, 19}
      BY <1>3, <2>4, StepIs
    <3>2. opened' = Seed!Voted(seeded[on], Seed!Main[pc].with)
      BY <2>1, <2>4 DEF Seed!Effect, Seed!Now
    <3>3. /\ on \in Names /\ Made(pc, on) /\ seeded[on] \in DOMAIN opened
          /\ As(pc, on, opened[seeded[on]])
      BY <1>4, <3>1, CallsFind
    <3>4. /\ opened' \in Seq(Proposal) /\ Len(opened') = Len(opened)
          /\ \A i \in DOMAIN opened : i # seeded[on] => opened'[i] = opened[i]
          /\ opened'[seeded[on]].start = opened[seeded[on]].start
          /\ opened'[seeded[on]].end = opened[seeded[on]].end
          /\ opened'[seeded[on]].queue = opened[seeded[on]].queue
          /\ opened'[seeded[on]].during = opened[seeded[on]].during
      BY <1>4, <3>2, <3>3, VoteIs
    <3>5. As(pc + 1, on, opened'[seeded[on]])
      <4> DEFINE p == opened[seeded[on]]
                 q == opened'[seeded[on]]
                 with == Seed!Main[pc].with
      <4>1. /\ q.status = p.status
            /\ q.for = IF with = "FOR" THEN p.for + 1 ELSE p.for
            /\ q.against = IF with = "AGAINST" THEN p.against + 1 ELSE p.against
        BY <1>4, <3>2, <3>3, VoteIs
      <4> HIDE DEF p, q
      <4>2. As(pc, on, p)
        BY <3>3 DEF p
      <4>3. As(pc + 1, on, q)
        BY <3>1, <4>1, <4>2, VotesAs
      <4> QED  BY <4>3 DEF q
    <3>6. /\ seeded' = seeded /\ pc \in Changing
          /\ pc = 15 => deployment.reachesQuorum
          /\ pc > 13 => opened'[seeded[on]].queue = opened[seeded[on]].queue
      BY <2>1, <2>4, <3>1, <3>4 DEF Changing
    <3> HIDE DEF on
    <3>7. on = Seed!Main[pc].on
      BY DEF on
    <3>8. SeedHolds(pc + 1, ledger + 1, opened', seeded, "none", 0)
      BY <1>2, <3>3, <3>4, <3>5, <3>6, <3>7, ChangedStillHolds
    <3> QED  BY <1>1, <2>1, <3>6, <3>8
  <2>5. CASE do = "finalize"
    <3>1. pc \in {11, 12, 13}
      BY <1>3, <2>5, StepIs
    <3>2. opened' = Seed!Finalized(seeded[on], ledger + 1)
      BY <1>1, <2>1, <2>5 DEF Seed!Effect, Seed!Now
    <3>3. /\ on \in Names /\ Made(pc, on) /\ seeded[on] \in DOMAIN opened
          /\ As(pc, on, opened[seeded[on]])
      BY <1>4, <3>1, CallsFind
    <3>4. /\ opened' \in Seq(Proposal) /\ Len(opened') = Len(opened)
          /\ \A i \in DOMAIN opened : i # seeded[on] => opened'[i] = opened[i]
          /\ opened'[seeded[on]].start = opened[seeded[on]].start
          /\ opened'[seeded[on]].end = opened[seeded[on]].end
          /\ opened'[seeded[on]].during = opened[seeded[on]].during
      BY <1>4, <3>2, <3>3, FinalizeIs
    <3>5. As(pc + 1, on, opened'[seeded[on]])
      BY <1>4, <3>1, <3>2, <3>3, FinalizeIs, FinalizesAs
    <3>6. /\ seeded' = seeded /\ pc \in Changing
          /\ pc = 15 => deployment.reachesQuorum
          /\ pc > 13 => opened'[seeded[on]].queue = opened[seeded[on]].queue
      BY <2>1, <2>5, <3>1 DEF Changing
    <3> HIDE DEF on
    <3>7. on = Seed!Main[pc].on
      BY DEF on
    <3>8. SeedHolds(pc + 1, ledger + 1, opened', seeded, "none", 0)
      BY <1>2, <3>3, <3>4, <3>5, <3>6, <3>7, ChangedStillHolds
    <3> QED  BY <1>1, <2>1, <3>6, <3>8
  <2>6. CASE do = "execute"
    <3>1. pc = 15 /\ on = "executed"
      BY <1>3, <2>6, StepIs, MainIs
    <3> HIDE DEF on
    <3>2. opened' = [opened EXCEPT ![seeded["executed"]].status = "Executed"]
      BY <2>1, <2>6, <3>1, MainIs DEF Seed!Effect, Seed!Now
    <3>3. /\ "executed" \in Names /\ Made(15, "executed") /\ seeded["executed"] \in DOMAIN opened
          /\ As(15, "executed", opened[seeded["executed"]])
      BY <1>4, <3>1, CallsFind DEF on
    <3>4. LET qs == opened'
              id == seeded["executed"]
          IN  /\ qs \in Seq(Proposal) /\ Len(qs) = Len(opened)
              /\ \A i \in DOMAIN opened : i # id => qs[i] = opened[i]
              /\ qs[id].start = opened[id].start /\ qs[id].end = opened[id].end
              /\ qs[id].queue = opened[id].queue /\ qs[id].during = opened[id].during
              /\ qs[id].for = opened[id].for /\ qs[id].against = opened[id].against
              /\ qs[id].status = "Executed"
      BY <1>4, <3>2, <3>3, ExecuteIs
    <3>5. opened[seeded["executed"]].status = "Queued"
      <4>1. Seed!ExecuteRefused(seeded["executed"], ledger') = "none"
        BY <1>7, <2>6, <3>1, MainIs DEF Seed!Refused, Seed!Now
      <4> QED  BY <4>1 DEF Seed!ExecuteRefused
    <3>6. As(16, "executed", opened'[seeded["executed"]]) /\ deployment.reachesQuorum
      BY <3>3, <3>4, <3>5, ExecutesAs
    <3>7. seeded' = seeded /\ Seed!Main[15].on = "executed" /\ 15 \in Changing
      BY <2>1, <2>6, MainIs DEF Changing
    <3>8. pc' = 15 + 1 /\ ledger' = ledger + 1
      BY <1>1, <2>1, <3>1
    <3>9. SeedHolds(15, ledger, opened, seeded, "sent", before)
      BY <1>2, <3>1
    <3>10. SeedHolds(15 + 1, ledger + 1, opened', seeded, "none", 0)
      BY <3>3, <3>4, <3>6, <3>7, <3>9, ChangedStillHolds
    <3> QED  BY <3>7, <3>8, <3>10
  <2> QED  BY <1>3, <2>3, <2>4, <2>5, <2>6
<1> QED  BY <1>6, <1>7

LEMMA SeedKeeps ==
  ASSUME SeedOK, [Seed!Next]_(Seed!vars)
  PROVE  SeedOK'
<1>1. CASE Seed!Contracts
  <2>1. pc \in 1 .. 19 /\ Seed!Main[pc].do = "contracts" /\ ended = "none"
    BY <1>1, RunningIs DEF Seed!Contracts
  <2>2. pc \in {1, 2, 3}
    BY <2>1, StepIs
  <2>3. /\ ledger' = ledger /\ opened' = opened /\ invoked' = invoked /\ before' = before
        /\ seeded' = seeded /\ deployment' = deployment
        /\ (pc' = pc /\ ended' = "period") \/ (pc' = pc + 1 /\ ended' = "none")
    BY <1>1, <2>1 DEF Seed!Contracts, Seed!GoOn
  <2>4. SeedHolds(pc, ledger, opened, seeded, invoked, before)
    BY DEF SeedOK
  <2>5. SeedHolds(pc + 1, ledger, opened, seeded, invoked, before)
    BY <2>2, <2>4, SteppedStillHolds
  <2>6. SeedHolds(pc', ledger', opened', seeded', invoked', before')
    BY <2>3, <2>4, <2>5
  <2> QED  BY <2>3, <2>6, SamePlan DEF SeedOK
<1>2. CASE Seed!Distribute
  <2>1. pc \in 1 .. 19 /\ Seed!Main[pc].do = "distribute" /\ ended = "none"
    BY <1>2, RunningIs DEF Seed!Distribute
  <2>2. pc \in {1, 2, 3}
    BY <2>1, StepIs
  <2>3. /\ ledger' = ledger /\ opened' = opened /\ invoked' = invoked /\ before' = before
        /\ seeded' = seeded /\ deployment' = deployment /\ pc' = pc + 1 /\ ended' = "none"
    BY <1>2, <2>1 DEF Seed!Distribute, Seed!GoOn
  <2>4. SeedHolds(pc, ledger, opened, seeded, invoked, before)
    BY DEF SeedOK
  <2>5. SeedHolds(pc + 1, ledger, opened, seeded, invoked, before)
    BY <2>2, <2>4, SteppedStillHolds
  <2>6. SeedHolds(pc', ledger', opened', seeded', invoked', before')
    BY <2>3, <2>5
  <2> QED  BY <2>3, <2>6, SamePlan DEF SeedOK
<1>3. CASE Seed!Threshold
  <2>1. pc \in 1 .. 19 /\ Seed!Main[pc].do = "threshold" /\ ended = "none"
    BY <1>3, RunningIs DEF Seed!Threshold
  <2>2. pc \in {1, 2, 3}
    BY <2>1, StepIs
  <2>3. /\ ledger' = ledger /\ opened' = opened /\ invoked' = invoked /\ before' = before
        /\ seeded' = seeded /\ deployment' = deployment
        /\ (pc' = pc /\ ended' = "threshold") \/ (pc' = pc + 1 /\ ended' = "none")
    BY <1>3, <2>1 DEF Seed!Threshold, Seed!GoOn
  <2>4. SeedHolds(pc, ledger, opened, seeded, invoked, before)
    BY DEF SeedOK
  <2>5. SeedHolds(pc + 1, ledger, opened, seeded, invoked, before)
    BY <2>2, <2>4, SteppedStillHolds
  <2>6. SeedHolds(pc', ledger', opened', seeded', invoked', before')
    BY <2>3, <2>4, <2>5
  <2> QED  BY <2>3, <2>6, SamePlan DEF SeedOK
<1>4. CASE Seed!CountRead
  <2>1. pc \in 1 .. 19 /\ Seed!Main[pc].do = "create" /\ ended = "none"
    BY <1>4, RunningIs DEF Seed!CountRead
  <2>2. /\ ledger' = ledger /\ opened' = opened /\ invoked' = "counted" /\ before' = Len(opened)
        /\ seeded' = seeded /\ deployment' = deployment /\ pc' = pc /\ ended' = ended
    BY <1>4 DEF Seed!CountRead
  <2>3. SeedHolds(pc, ledger, opened, seeded, invoked, before)
    BY DEF SeedOK
  <2>4. CountWas(pc, "counted", Len(opened), opened, seeded)
    <3>1. AsMade(pc, opened, seeded) /\ opened \in Seq(Proposal) /\ Len(opened) \in Nat
      BY <2>3 DEF SeedHolds, Ordered
    <3>2. ASSUME NEW n \in Names, Made(pc, n)
          PROVE  seeded[n] <= Len(opened)
      <4>1. seeded[n] \in 1 .. Len(opened)
        BY <3>1, <3>2 DEF AsMade
      <4> QED  BY <3>1, <4>1
    <3> QED  BY <2>1, <3>1, <3>2 DEF CountWas
  <2>5. SeedHolds(pc, ledger, opened, seeded, "counted", Len(opened))
    BY <2>3, <2>4 DEF SeedHolds
  <2>6. SeedHolds(pc', ledger', opened', seeded', invoked', before')
    BY <2>2, <2>5
  <2> QED  BY <2>2, <2>6, SamePlan DEF SeedOK
<1>5. CASE Seed!Simulate
  <2>1. /\ pc \in 1 .. 19 /\ Seed!Main[pc].do \in {"create", "vote", "finalize", "execute"}
        /\ ended = "none"
        /\ Seed!Main[pc].do = "create" => invoked = "counted"
    BY <1>5, RunningIs DEF Seed!Simulate
  <2>2. /\ ledger' = ledger /\ opened' = opened /\ before' = before
        /\ seeded' = seeded /\ deployment' = deployment /\ pc' = pc
        /\ \/ invoked' = "sent" /\ ended' = ended
           \/ \E seq \in {ledger, ledger + 1} : ended' = Seed!Refused(seq) /\ invoked' = invoked
    BY <1>5 DEF Seed!Simulate
  <2>3. SeedHolds(pc, ledger, opened, seeded, invoked, before)
    BY DEF SeedOK
  <2>4. CountWas(pc, "sent", before, opened, seeded)
    BY <2>1, <2>3 DEF CountWas, SeedHolds
  <2>5. SeedHolds(pc, ledger, opened, seeded, "sent", before)
    BY <2>3, <2>4 DEF SeedHolds
  <2>6. SeedHolds(pc', ledger', opened', seeded', invoked', before')
    BY <2>2, <2>3, <2>5
  <2>7. ended' \notin {"VotingStillOpen", "TimelockNotExpired"}
    BY <2>1, <2>2, NeverEarly
  <2> QED  BY <2>2, <2>6, <2>7, SamePlan DEF SeedOK
<1>6. CASE Seed!Included
  BY <1>6, IncludedKeeps
<1>7. CASE Seed!Reached
  <2>1. pc \in 1 .. 19 /\ Seed!Main[pc].do = "wait" /\ ended = "none"
    BY <1>7, RunningIs DEF Seed!Reached
  <2>2. pc \in {10, 14, 17}
    BY <2>1, StepIs
  <2>3. /\ ledger' = ledger /\ opened' = opened /\ invoked' = invoked /\ before' = before
        /\ seeded' = seeded /\ deployment' = deployment /\ pc' = pc + 1 /\ ended' = "none"
        /\ ledger >= Seed!LedgerWaitedFor(opened[seeded[Seed!Main[pc].on]])
    BY <1>7, <2>1 DEF Seed!Reached, Seed!GoOn, Seed!TargetReached, Seed!Now
  <2>4. SeedHolds(pc, ledger, opened, seeded, invoked, before)
    BY DEF SeedOK
  <2>5. AsMade(pc, opened, seeded) /\ opened \in Seq(Proposal) /\ ledger \in Nat
    BY <2>4 DEF SeedHolds, Ordered
  <2>6. pc \in 9 .. 20
    BY <2>2
  <2>7. opened[seeded["executed"]].end \in Nat
    BY <2>5, <2>6, ExecutedIs
  <2>8. pc = 10 => ledger > opened[seeded["executed"]].end
    <3>1. pc = 10 => ledger >= opened[seeded["executed"]].end + 1
      BY <2>3, MainIs DEF Seed!LedgerWaitedFor, Seed!Now
    <3> QED  BY <2>5, <2>7, <3>1
  <2>9. pc = 14 => ledger >= opened[seeded["executed"]].queue
    BY <2>3, MainIs DEF Seed!LedgerWaitedFor, Seed!Now
  <2>10. SeedHolds(pc + 1, ledger, opened, seeded, invoked, before)
    BY <2>2, <2>4, <2>8, <2>9, SteppedStillHolds
  <2>11. SeedHolds(pc', ledger', opened', seeded', invoked', before')
    BY <2>3, <2>10
  <2> QED  BY <2>3, <2>11, SamePlan DEF SeedOK
<1>8. CASE Seed!CloseLedger
  <2>1. /\ ledger' = ledger + 1 /\ invoked' = invoked /\ before' = before
        /\ seeded' = seeded /\ deployment' = deployment /\ pc' = pc /\ ended' = ended
        /\ \/ opened' = opened
           \/ opened' = Append(opened, Seed!Opened(ledger + 1, FALSE, Seed!Creating))
        /\ ended = "none"
    BY <1>8 DEF Seed!CloseLedger
  <2>2. SeedHolds(pc, ledger, opened, seeded, invoked, before)
    BY DEF SeedOK
  <2>3. /\ Seed!Creating \in Creations
        /\ invoked # "none" /\ Seed!Main[pc].do = "create" => Seed!Creating = Seed!Main[pc].on
    <3>1. CASE Seed!Running("create") /\ invoked # "none"
      <4>1. pc \in {4, 6, 8, 16}
        BY <3>1, RunningIs, StepIs
      <4>2. Seed!Main[pc].on \in Names
        BY <4>1, MainIs DEF Names
      <4> QED  BY <3>1, <4>2 DEF Seed!Creating, Seed!Now, Creations
    <3>2. CASE ~(Seed!Running("create") /\ invoked # "none")
      <4>1. pc \in 1 .. 19 /\ Seed!Main[pc].do = "create" => Seed!Running("create")
        BY <2>1, MainIs DEF Seed!Running, Seed!Done
      <4>2. invoked # "none" => pc \in 1 .. 19
        BY <2>2 DEF SeedHolds, CountWas
      <4> QED  BY <3>2, <4>1, <4>2 DEF Seed!Creating, Creations
    <3> QED  BY <3>1, <3>2
  <2>4. /\ SeedHolds(pc, ledger + 1, opened, seeded, invoked, before)
        /\ SeedHolds(pc, ledger + 1, Append(opened, Seed!Opened(ledger + 1, FALSE, Seed!Creating)),
                     seeded, invoked, before)
    BY <2>2, <2>3, LaterStillHolds, StrangerStillHolds
  <2>5. SeedHolds(pc', ledger', opened', seeded', invoked', before')
    BY <2>1, <2>4
  <2> QED  BY <2>1, <2>5, SamePlan DEF SeedOK
<1>9. CASE UNCHANGED Seed!vars
  <2>1. /\ ledger' = ledger /\ opened' = opened /\ invoked' = invoked /\ before' = before
        /\ seeded' = seeded /\ deployment' = deployment /\ pc' = pc /\ ended' = ended
    BY <1>9 DEF Seed!vars
  <2>2. SeedHolds(pc', ledger', opened', seeded', invoked', before')
    BY <2>1 DEF SeedOK
  <2> QED  BY <2>1, <2>2, SamePlan DEF SeedOK
<1> QED  BY <1>1, <1>2, <1>3, <1>4, <1>5, <1>6, <1>7, <1>8, <1>9 DEF Seed!Next

LEMMA SeedSuffices ==
  ASSUME SeedOK
  PROVE  SeededAsPromised
<1>1. SeedHolds(pc, ledger, opened, seeded, invoked, before)
  BY DEF SeedOK
<1>2. ended \notin {"VotingStillOpen", "TimelockNotExpired"}
  BY DEF SeedOK
<1>3. ASSUME Seed!Done
      PROVE  /\ opened[seeded["queued"]].status = "Queued"
             /\ opened[seeded["failed"]].status = "Failed"
             /\ opened[seeded["executed"]].status = "Executed"
             /\ opened[seeded["active"]].status = "Active"
             /\ Seed!IsInjective(seeded)
  <2>1. pc = 20
    BY <1>1, <1>3, MainIs DEF Seed!Done, SeedHolds
  <2>2. /\ AsMade(20, opened, seeded) /\ Waited(20, ledger, opened, seeded)
    BY <1>1, <2>1 DEF SeedHolds
  <2>3. \A n \in Names : Made(20, n)
    BY DEF Names, Made, CreatedAt
  <2>4. deployment.reachesQuorum
    BY <2>2 DEF Waited
  <2>5. \A n \in Names : As(20, n, opened[seeded[n]])
    BY <2>2, <2>3 DEF AsMade
  <2>6. /\ opened[seeded["queued"]].status = "Queued"
        /\ opened[seeded["failed"]].status = "Failed"
        /\ opened[seeded["executed"]].status = "Executed"
        /\ opened[seeded["active"]].status = "Active"
    BY <2>4, <2>5 DEF Names, As, StatusAt, Passed
  <2>7. DOMAIN seeded = Names
    BY <2>2 DEF AsMade
  <2>8. \A m, n \in Names : m # n => seeded[m] # seeded[n]
    BY <2>2, <2>3, NamedApart
  <2>9. Seed!IsInjective(seeded)
    BY <2>7, <2>8 DEF Seed!IsInjective
  <2> QED  BY <2>6, <2>9
<1>4. ASSUME NEW name \in DOMAIN seeded, seeded[name] # 0
      PROVE  Seed!Known(seeded[name]) /\ opened[seeded[name]].during = name
  <2>1. AsMade(pc, opened, seeded) /\ OfTheirCalls(pc, opened, seeded)
    BY <1>1 DEF SeedHolds
  <2>2. name \in Names
    BY <1>4, <2>1 DEF AsMade
  <2>3. Made(pc, name)
    BY <1>4, <2>1, <2>2 DEF OfTheirCalls
  <2> QED  BY <2>1, <2>2, <2>3 DEF AsMade, OfTheirCalls, Seed!Known
<1>5. Seed!IdsAreOfTheirCalls
  BY <1>4 DEF Seed!IdsAreOfTheirCalls
<1> QED  BY <1>2, <1>3, <1>5 DEF SeededAsPromised, Seed!SeededAsPromised

(* What the seeding script's header promises, whatever the periods, grace  *)
(* periods of zero included, the deployment and the proposals of others:   *)
(* it is never too early, and when it gets to its end the four proposals   *)
(* it goes by are in the four states.  Each was opened while the script    *)
(* opened it: its own, or one that others opened after the count was read. *)
THEOREM DemosAreSeeded == Seed!Spec => []SeededAsPromised
<1>1. Seed!Init => SeedOK
  BY SeedStarts
<1>2. SeedOK /\ [Seed!Next]_(Seed!vars) => SeedOK'
  BY SeedKeeps
<1>3. SeedOK => SeededAsPromised
  BY SeedSuffices
<1> QED  BY <1>1, <1>2, <1>3, PTL DEF Seed!Spec

------------------------------------------------------------------------------
(* The wallet session.  Where its answer is not there, the read for the    *)
(* account and the proposal on the page is under way, and no other read is *)
(* listened to.                                                            *)

SessionOK ==
  /\ read.status \in {"none", "ready", "error"}
  /\ \A r \in reads : r \in [readFor : {r.readFor}, current : BOOLEAN]
  /\ \A r \in reads : r.current => loggedInAs # Session!Null /\ r.readFor = Session!readFor
  /\ loggedInAs # Session!Null =>
       \/ read.readFor = Session!readFor /\ read.status # "none"
       \/ \E r \in reads : r.current /\ r.readFor = Session!readFor

(* After a render of another account or proposal.                          *)
LEMMA RenderKeeps ==
  ASSUME SessionOK, Session!Effects, read' = read
  PROVE  SessionOK'
<1> DEFINE old == {[r EXCEPT !.current = FALSE] : r \in reads}
           new == [readFor |-> Session!readFor', current |-> TRUE]
<1>1. reads' = old \cup (IF loggedInAs' = Session!Null THEN {} ELSE {new})
  BY DEF Session!Effects
<1>2. \A s \in old : s \in [readFor : {s.readFor}, current : BOOLEAN] /\ s.current = FALSE
  <2> SUFFICES ASSUME NEW s \in old
               PROVE  s \in [readFor : {s.readFor}, current : BOOLEAN] /\ s.current = FALSE
    OBVIOUS
  <2>1. PICK r \in reads : s = [r EXCEPT !.current = FALSE]
    OBVIOUS
  <2>2. r \in [readFor : {r.readFor}, current : BOOLEAN]
    BY DEF SessionOK
  <2> QED  BY <2>1, <2>2
<1>3. new \in [readFor : {new.readFor}, current : BOOLEAN] /\ new.current /\ new.readFor = Session!readFor'
  OBVIOUS
<1> HIDE DEF old, new
<1>4. \A s \in reads' : s \in old \/ (s = new /\ loggedInAs' # Session!Null)
  BY <1>1
<1>5. loggedInAs' # Session!Null => new \in reads'
  BY <1>1
<1>6. read'.status \in {"none", "ready", "error"}
  BY DEF SessionOK
<1>7. \A s \in reads' : s \in [readFor : {s.readFor}, current : BOOLEAN]
  BY <1>2, <1>3, <1>4
<1>8. \A s \in reads' : s.current => loggedInAs' # Session!Null /\ s.readFor = Session!readFor'
  BY <1>2, <1>3, <1>4
<1>9. loggedInAs' # Session!Null => \E s \in reads' : s.current /\ s.readFor = Session!readFor'
  BY <1>3, <1>5
<1> QED  BY <1>6, <1>7, <1>8, <1>9 DEF SessionOK

LEMMA AnswerKeeps ==
  ASSUME SessionOK, NEW r \in reads, Session!Answered(r)
  PROVE  SessionOK'
<1>1. /\ reads' = reads \ {r} /\ loggedInAs' = loggedInAs /\ snapshotLedger' = snapshotLedger
  BY DEF Session!Answered
<1>2. Session!readFor' = Session!readFor
  BY <1>1 DEF Session!readFor
<1>3. CASE r.current
  <2>1. PICK ok \in [1..3 -> BOOLEAN] :
          read' = [readFor |-> r.readFor, status |-> Session!getVotingPower(ok[1], ok[2], ok[3])]
    BY <1>3 DEF Session!Answered
  <2>2. read'.status \in {"ready", "error"}
    BY <2>1 DEF Session!getVotingPower
  <2>3. read'.readFor = Session!readFor
    BY <1>3, <2>1 DEF SessionOK
  <2> QED  BY <1>1, <1>2, <2>2, <2>3 DEF SessionOK
<1>4. CASE ~r.current
  <2>1. read' = read
    BY <1>4 DEF Session!Answered
  <2> QED  BY <1>1, <1>2, <1>4, <2>1 DEF SessionOK
<1> QED  BY <1>3, <1>4

LEMMA SessionKeeps ==
  ASSUME SessionOK, [Session!Next]_(Session!vars)
  PROVE  SessionOK'
<1>1. ASSUME UNCHANGED <<loggedInAs, snapshotLedger, reads, read>>
      PROVE  SessionOK'
  BY <1>1 DEF SessionOK, Session!readFor
<1>2. CASE Session!connect
  BY <1>1, <1>2 DEF Session!connect
<1>3. CASE Session!Refused
  BY <1>1, <1>3 DEF Session!Refused
<1>4. CASE Session!disconnect
  BY <1>4, RenderKeeps DEF Session!disconnect
<1>5. CASE Session!SwitchFails
  BY <1>1, <1>5 DEF Session!SwitchFails
<1>6. CASE \E a \in Accounts : Session!Connected(a)
  BY <1>6, RenderKeeps DEF Session!Connected, Session!Becomes
<1>7. CASE \E a \in Accounts : Session!switchAccount(a)
  BY <1>7, RenderKeeps DEF Session!switchAccount, Session!Becomes
<1>8. CASE \E s \in Snapshots : Session!ShowProposal(s)
  BY <1>8, RenderKeeps DEF Session!ShowProposal
<1>9. CASE \E r \in reads : Session!Answered(r)
  BY <1>9, AnswerKeeps
<1>10. CASE UNCHANGED Session!vars
  BY <1>1, <1>10 DEF Session!vars
<1> QED  BY <1>2, <1>3, <1>4, <1>5, <1>6, <1>7, <1>8, <1>9, <1>10 DEF Session!Next

LEMMA SessionSuffices ==
  ASSUME SessionOK
  PROVE  PreviewIsOwn
<1>1. loggedInAs = Session!Null => Session!Preview = "connect"
  BY DEF Session!Preview
<1>2. CASE loggedInAs # Session!Null /\ read.readFor = Session!readFor /\ read.status # "none"
  <2>1. Session!State = read.status /\ read.status \in {"ready", "error"}
    BY <1>2 DEF Session!State, SessionOK
  <2>2. CASE read.status = "ready"
    <3>1. Session!Preview = IF read.readFor \in Holders THEN "weight" ELSE "noPower"
      BY <1>2, <2>1, <2>2 DEF Session!Preview, Session!Power
    <3> QED  BY <1>2, <2>2, <3>1 DEF PreviewIsOwn, Session!PreviewIsOwn, Session!readFor
  <2>3. CASE read.status = "error"
    <3>1. Session!Preview = "failure"
      BY <1>2, <2>1, <2>3 DEF Session!Preview
    <3> QED  BY <3>1 DEF PreviewIsOwn, Session!PreviewIsOwn
  <2> QED  BY <2>1, <2>2, <2>3
<1>3. CASE loggedInAs # Session!Null /\ ~(read.readFor = Session!readFor /\ read.status # "none")
  <2>1. Session!State = "none"
    BY <1>3 DEF Session!State
  <2>2. Session!Preview = "reading"
    BY <1>3, <2>1 DEF Session!Preview
  <2>3. \E r \in reads : r.current /\ r.readFor = Session!readFor
    BY <1>3 DEF SessionOK
  <2> QED  BY <2>2, <2>3 DEF PreviewIsOwn, Session!PreviewIsOwn
<1>4. CASE loggedInAs = Session!Null
  BY <1>1, <1>4 DEF PreviewIsOwn, Session!PreviewIsOwn
<1> QED  BY <1>2, <1>3, <1>4

(* WalletSession: however accounts, proposals and answers follow each      *)
(* other, the voting power on the page is that of its account at its       *)
(* proposal's snapshot, and a preview that waits has its read under way.   *)
THEOREM PreviewsAreOwn == Session!Spec => []PreviewIsOwn
<1>1. Session!Init => SessionOK
  BY DEF Session!Init, SessionOK, Session!NoRead
<1>2. SessionOK /\ [Session!Next]_(Session!vars) => SessionOK'
  BY SessionKeeps
<1>3. SessionOK => PreviewIsOwn
  BY SessionSuffices
<1> QED  BY <1>1, <1>2, <1>3, PTL DEF Session!Spec
==============================================================================
