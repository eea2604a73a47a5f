----------------------------- MODULE WalletSession -----------------------------
(***************************************************************************)
(* The connected wallet of the site (components/WalletProvider.tsx with    *)
(* lib/wallets), the buttons that drive it (Navbar.tsx,                    *)
(* AccountSwitcher.tsx), and the voting power shown before a vote is       *)
(* signed (VotingPowerPreview.tsx, lib/voting-power.ts).                   *)
(*                                                                         *)
(* An effect runs with the render that follows a state change, and both    *)
(* are one step.  The weight of an account at a snapshot ledger is history *)
(* and does not change.                                                    *)
(***************************************************************************)
EXTENDS Integers, Sequences, FiniteSets, Functions

CONSTANTS
  Accounts,   \* addresses the wallet may expose
  Snapshots,  \* snapshot ledgers of the proposals visited
  Holders,    \* <<account, snapshot>> with a weight above zero
  Cap         \* connected addresses remembered

VARIABLES
  address,
  connectedAddresses,
  activeWalletId,
  pending,         \* connect awaits the wallet
  error,           \* the alert under the navigation bar
  snapshotLedger,  \* of the proposal on the page
  reads,           \* calls of getVotingPower not answered yet, and their "current"
  read             \* the last answer kept, and what it was for

vars == <<address, connectedAddresses, activeWalletId, pending, error,
          snapshotLedger, reads, read>>

Null == "null"
NoRead == [readFor |-> <<Null, 0>>, status |-> "none"]

Init ==
  /\ address = Null
  /\ connectedAddresses = << >>
  /\ activeWalletId = Null
  /\ pending = FALSE
  /\ error = Null
  /\ snapshotLedger \in Snapshots
  /\ reads = {}
  /\ read = NoRead

readFor == <<address, snapshotLedger>>

(* Clean-up of the effect of the last render, and the effect of this one.  *)
Effects ==
  reads' = {[r EXCEPT !.current = FALSE] : r \in reads}
             \cup (IF address' = Null THEN {} ELSE {[readFor |-> readFor', current |-> TRUE]})

Capped(list) == SubSeq(list, 1, IF Len(list) < Cap THEN Len(list) ELSE Cap)

(* connectedAddresses with this account in front.                          *)
MostRecent(account) ==
  Capped(<<account>> \o SelectSeq(connectedAddresses, LAMBDA a : a # account))

Becomes(account) ==
  /\ address' = account
  /\ connectedAddresses' = MostRecent(account)
  /\ UNCHANGED <<snapshotLedger, read>>
  /\ Effects

------------------------------------------------------------------------------
(* The provider, driven by the buttons.                                    *)

(* The button is there without an address, and disabled while pending.     *)
connect ==
  /\ address = Null
  /\ ~pending
  /\ \/ error' = Null /\ pending' = TRUE
     \/ error' = "noWallet" /\ UNCHANGED pending  \* no wallet available
  /\ UNCHANGED <<address, connectedAddresses, activeWalletId, snapshotLedger, reads, read>>

(* The wallet gives its account.                                           *)
Connected(account) ==
  /\ pending
  /\ pending' = FALSE
  /\ activeWalletId' = "freighter"
  /\ Becomes(account)
  /\ UNCHANGED error

Refused ==
  /\ pending
  /\ pending' = FALSE
  /\ error' = "refused"
  /\ UNCHANGED <<address, connectedAddresses, activeWalletId, snapshotLedger, reads, read>>

disconnect ==
  /\ address # Null
  /\ address' = Null
  /\ activeWalletId' = Null
  /\ error' = Null
  /\ UNCHANGED <<connectedAddresses, pending, snapshotLedger, read>>
  /\ Effects

otherAddresses == {a \in Range(connectedAddresses) : a # address}

switchAccount(account) ==
  /\ address # Null
  /\ account \in otherAddresses
  /\ ~pending
  /\ error' = Null
  /\ Becomes(account)
  /\ UNCHANGED <<activeWalletId, pending>>

(* The extension is gone: the adapter is not found any more.               *)
SwitchFails ==
  /\ address # Null
  /\ otherAddresses # {}
  /\ ~pending
  /\ error' = "walletNotFound"
  /\ UNCHANGED <<address, connectedAddresses, activeWalletId, pending, snapshotLedger, reads, read>>

(* Another proposal comes into view.                                       *)
ShowProposal(snapshot) ==
  /\ snapshot # snapshotLedger
  /\ snapshotLedger' = snapshot
  /\ UNCHANGED address
  /\ Effects
  /\ UNCHANGED <<connectedAddresses, activeWalletId, pending, error, read>>

------------------------------------------------------------------------------
(* The preview.                                                            *)

(* Outcome of the three reads of getVotingPower: decimals are cosmetic.    *)
getVotingPower(snapshotRead, balanceRead, decimalsRead) ==
  IF snapshotRead /\ balanceRead THEN "ready" ELSE "error"

(* A superseded answer is dropped.                                         *)
Answered(r) ==
  /\ reads' = reads \ {r}
  /\ IF r.current
     THEN \E ok \in [1..3 -> BOOLEAN] :
            read' = [readFor |-> r.readFor, status |-> getVotingPower(ok[1], ok[2], ok[3])]
     ELSE UNCHANGED read
  /\ UNCHANGED <<address, connectedAddresses, activeWalletId, pending, error, snapshotLedger>>

(* Mutant: the last answer, whatever it was for.                           *)
LastAnswer == read.status

State == IF read.readFor = readFor THEN read.status ELSE "none"

(* The weight in an answer.                                                *)
Power(r) == IF r.readFor \in Holders THEN "weight" ELSE "noPower"

Preview ==
  IF address = Null THEN "connect"
  ELSE CASE State = "none"  -> "reading"
         [] State = "error" -> "failure"
         [] State = "ready" -> Power(read)

Next ==
  \/ connect \/ Refused \/ disconnect \/ SwitchFails
  \/ \E a \in Accounts : Connected(a) \/ switchAccount(a)
  \/ \E s \in Snapshots : ShowProposal(s)
  \/ \E r \in reads : Answered(r)

Spec == Init /\ [][Next]_vars

------------------------------------------------------------------------------
(* Properties.                                                             *)

(* However accounts, proposals and answers follow each other, a weight or  *)
(* the lack of one is shown only for the account and the proposal on the   *)
(* page, and it is theirs; a read that failed is never shown as zero; and  *)
(* where the preview waits for an answer, a read that will be kept is      *)
(* under way.                                                              *)
PreviewIsOwn ==
  /\ Preview = "weight"  => <<address, snapshotLedger>> \in Holders
  /\ Preview = "noPower" => /\ <<address, snapshotLedger>> \notin Holders
                            /\ address # Null
                            /\ read.status = "ready"
  /\ Preview = "reading" => \E r \in reads : r.current /\ r.readFor = readFor
==============================================================================
