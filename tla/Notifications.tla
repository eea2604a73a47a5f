----------------------------- MODULE Notifications -----------------------------
(***************************************************************************)
(* Notifications of status changes: lib/notifications.ts, useNotifications *)
(* and NotificationCenter in the browser, the list route on the server.    *)
(*                                                                         *)
(* Each tab keeps its own copy of the state and writes all of it to the    *)
(* storage the tabs share; none listens to the others.  The list a visit   *)
(* reads may come from a node one step behind.  A status is the number of  *)
(* the stage a proposal has come to, 0 before it exists.  A notification   *)
(* is known by its id; whether it was read is left out.                    *)
(***************************************************************************)
EXTENDS Integers, Sequences, FiniteSets, Functions

CONSTANTS
  Proposals, Addresses,
  Proposers,  \* <<proposal, address>>: who made which
  Tabs,
  Logins,     \* <<tab, address>>: accounts the wallet connects in which
  MaxStage,   \* last status a proposal comes to
  MAX_NOTIFICATIONS_PER_WALLET

VARIABLES
  stage,    \* status of every proposal on the ledger
  behind,   \* and before the last change, as a node behind still has it
  storage,  \* the localStorage entry
  tabs      \* of every tab: address, list read, and its copy of the state

vars == <<stage, behind, storage, tabs>>

Null == "null"
Stages == [Proposals -> 0..MaxStage]
Nothing == [p \in Proposals |-> 0]

(* "unwatched" is not stored: the last status recorded for a proposal when *)
(* it was first seen, or when no wallet it concerns was looking.           *)
EMPTY_NOTIFICATION_STATE ==
  [statuses |-> Nothing, inbox |-> [a \in Addresses |-> << >>], unwatched |-> Nothing]

Away == [address |-> Null, list |-> << >>, state |-> EMPTY_NOTIFICATION_STATE]

Init ==
  /\ stage = Nothing
  /\ behind = Nothing
  /\ storage = EMPTY_NOTIFICATION_STATE
  /\ tabs = [t \in Tabs |-> Away]

------------------------------------------------------------------------------
(* lib/notifications.ts.                                                   *)

(* On a live network no votes are listed: only the proposer is concerned.  *)
isRelevantTo(p, address) == <<p, address>> \in Proposers

Changed(state, list, address) ==
  {p \in Proposals : /\ list[p] # 0
                     /\ state.statuses[p] \notin {0, list[p]}
                     /\ isRelevantTo(p, address)}

(* Mutant: one notification per proposal.                                  *)
ProposalKnown(p, list, inbox) == \E id \in Range(inbox) : id[1] = p

Known(p, list, inbox) == <<p, list[p]>> \in Range(inbox)

recordStatusChanges(state, list, address) ==
  LET existing == state.inbox[address]
      fresh    == {p \in Changed(state, list, address) : ~Known(p, list, existing)}
      added    == CHOOSE order \in [1 .. Cardinality(fresh) -> fresh] : IsInjective(order)
      all      == [n \in DOMAIN added |-> <<added[n], list[added[n]]>>] \o existing
  IN  [statuses  |-> [p \in Proposals |-> IF list[p] = 0 THEN state.statuses[p] ELSE list[p]],
       inbox     |-> [state.inbox EXCEPT ![address] =
                        SubSeq(all, 1, IF Len(all) < MAX_NOTIFICATIONS_PER_WALLET THEN Len(all)
                                       ELSE MAX_NOTIFICATIONS_PER_WALLET)],
       unwatched |-> [p \in Proposals |->
                        IF \/ list[p] \in {0, state.statuses[p]}
                           \/ state.statuses[p] # 0 /\ isRelevantTo(p, address)
                        THEN state.unwatched[p] ELSE list[p]]]

(* The new state is written; a write that fails is ignored.                *)
SetState(t, state) ==
  /\ tabs' = [tabs EXCEPT ![t].state = state]
  /\ storage' \in {storage, state}
  /\ UNCHANGED <<stage, behind>>

------------------------------------------------------------------------------
(* The ledger.                                                             *)

Move(p) ==
  /\ stage[p] < MaxStage
  /\ stage' = [stage EXCEPT ![p] = @ + 1]
  /\ behind' = stage
  /\ UNCHANGED <<storage, tabs>>

------------------------------------------------------------------------------
(* A tab.  The bell is there while a wallet is connected.                  *)

(* Mounted: the state is loaded (and written back), the list asked for.    *)
Mount(t, address) ==
  /\ tabs[t].address = Null
  /\ <<t, address>> \in Logins
  /\ tabs' = [tabs EXCEPT ![t] = [address |-> address, list |-> << >>, state |-> storage]]
  /\ UNCHANGED <<stage, behind, storage>>

(* Disconnected, or the tab is closed.  An answer still to come is dropped.*)
Unmount(t) ==
  /\ tabs[t].address # Null
  /\ tabs' = [tabs EXCEPT ![t] = Away]
  /\ UNCHANGED <<stage, behind, storage>>

(* The list comes, once per visit.  If it does not, nothing changes.       *)
Listed(t) ==
  /\ tabs[t].address # Null
  /\ tabs[t].list = << >>
  /\ \E list \in {stage, behind} :
       LET state == recordStatusChanges(tabs[t].state, list, tabs[t].address)
       IN  /\ tabs' = [tabs EXCEPT ![t].list = list, ![t].state = state]
           /\ storage' \in {storage, state}
  /\ UNCHANGED <<stage, behind>>

(* Another account of the wallet: the list is gone through for it.         *)
SwitchTo(t, address) ==
  /\ tabs[t].address \notin {Null, address}
  /\ <<t, address>> \in Logins
  /\ IF tabs[t].list = << >>
     THEN tabs' = [tabs EXCEPT ![t].address = address] /\ UNCHANGED storage
     ELSE LET state == recordStatusChanges(tabs[t].state, tabs[t].list, address)
          IN  /\ tabs' = [tabs EXCEPT ![t].address = address, ![t].state = state]
              /\ storage' \in {storage, state}
  /\ UNCHANGED <<stage, behind>>

(* One notification opened, or all marked: the copy is written.            *)
markRead(t) ==
  /\ tabs[t].address # Null
  /\ tabs[t].state.inbox[tabs[t].address] # << >>
  /\ SetState(t, tabs[t].state)

Next ==
  \/ \E p \in Proposals : Move(p)
  \/ \E t \in Tabs :
       \/ Unmount(t) \/ Listed(t) \/ markRead(t)
       \/ \E a \in Addresses : Mount(t, a) \/ SwitchTo(t, a)

Spec == Init /\ [][Next]_vars

------------------------------------------------------------------------------
(* Property.                                                               *)

Copies == {storage} \cup {tabs[t].state : t \in Tabs}

(* Whichever tab writes last, whatever writes fail: a copy never says of a *)
(* proposal that its new status is known, recorded while its proposer was  *)
(* looking, without holding the notification of it; unless the proposer's  *)
(* inbox is full.  So a change overwritten by another tab is found again;  *)
(* and, however often found, it is in an inbox once (notifications.ts:21), *)
(* and only in that of the wallet it concerns.                             *)
BaselineIsReported ==
  \A c \in Copies :
    /\ \A pa \in Proposers :
         LET p == pa[1]  inbox == c.inbox[pa[2]]
         IN  \/ c.statuses[p] = c.unwatched[p]
             \/ <<p, c.statuses[p]>> \in Range(inbox)
             \/ Len(inbox) = MAX_NOTIFICATIONS_PER_WALLET
    /\ \A a \in Addresses :
         /\ IsInjective(c.inbox[a])
         /\ \A id \in Range(c.inbox[a]) : isRelevantTo(id[1], a) /\ id[2] <= stage[id[1]]
==============================================================================
