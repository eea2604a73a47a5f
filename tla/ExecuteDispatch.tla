--------------------------- MODULE ExecuteDispatch ---------------------------
(***************************************************************************)
(* What Governor!Execute does in one step, step by step: execute of the    *)
(* governance contract commits the status, then invokes the proposal's     *)
(* actions one after the other.  A target that runs may call the contract  *)
(* again, whatever the host would say to that, and may fail.               *)
(*                                                                         *)
(* The host keeps all a call wrote, or, when it returns an error, none of  *)
(* it, whatever calls it made.  Calls that are refused change nothing and  *)
(* are left out.  The proposals are queued to begin with.                  *)
(***************************************************************************)
EXTENDS Integers, Sequences, Functions

CONSTANTS
  Ids,      \* queued proposals
  Actions,  \* the targets of each, in order
  Target    \* contracts that may be on the allowlist

VARIABLES
  status,   \* of every proposal
  allowed,  \* the allowlist
  paused,
  effects,  \* of every proposal: the positions of its actions that ran
  age,      \* "early" before the queue ledger, "due", then "late"
  stack     \* executions in progress, the innermost last

settings == <<allowed, paused>>
vars == <<status, settings, effects, age, stack>>

World == [status |-> status, allowed |-> allowed, paused |-> paused, effects |-> effects]
Top   == stack[Len(stack)]
Outer == SubSeq(stack, 1, Len(stack) - 1)

(* The contract is called by a transaction, or by the target that runs.    *)
Callable == stack # << >> => Top.running

Init ==
  /\ status = [id \in Ids |-> "Queued"]
  /\ allowed = Target
  /\ paused = FALSE
  /\ effects = [id \in Ids |-> << >>]
  /\ age = [id \in Ids |-> "early"]
  /\ stack = << >>

------------------------------------------------------------------------------
(* The calls.                                                              *)

Execute(id) ==
  /\ Callable
  /\ ~paused
  /\ status[id] = "Queued"
  /\ age[id] = "due"
  /\ Range(Actions[id]) \subseteq allowed
  /\ status' = [status EXCEPT ![id] = "Executed"]
  /\ stack' = Append(stack, [id |-> id, next |-> 1, running |-> FALSE, before |-> World])
  /\ UNCHANGED <<settings, effects, age>>

(* try_invoke_contract: the next target starts ...                         *)
Invoke ==
  /\ stack # << >>
  /\ ~Top.running
  /\ Top.next <= Len(Actions[Top.id])
  /\ stack' = [stack EXCEPT ![Len(stack)].running = TRUE]
  /\ UNCHANGED <<status, settings, effects, age>>

(* ... and has done its work, ...                                          *)
Succeed ==
  /\ stack # << >>
  /\ Top.running
  /\ effects' = [effects EXCEPT ![Top.id] = Append(@, Top.next)]
  /\ stack' = [stack EXCEPT ![Len(stack)].running = FALSE, ![Len(stack)].next = @ + 1]
  /\ UNCHANGED <<status, settings, age>>

(* Mutant: a failing action ends the loop, not the call.                   *)
FailQuietly ==
  /\ stack # << >>
  /\ Top.running
  /\ stack' = Outer
  /\ UNCHANGED <<status, settings, effects, age>>

(* ... or fails, and with it the execution: what both wrote is undone.  A  *)
(* target that made the failing call itself goes on.                       *)
Fail ==
  /\ stack # << >>
  /\ Top.running
  /\ status' = Top.before.status
  /\ allowed' = Top.before.allowed
  /\ paused' = Top.before.paused
  /\ effects' = Top.before.effects
  /\ stack' = Outer
  /\ UNCHANGED age

Return ==
  /\ stack # << >>
  /\ ~Top.running
  /\ Top.next > Len(Actions[Top.id])
  /\ stack' = Outer
  /\ UNCHANGED <<status, settings, effects, age>>

(* What others, or a target that has the role, may call meanwhile.         *)
Veto(id) ==
  /\ Callable
  /\ status[id] = "Queued"
  /\ age[id] = "early"
  /\ status' = [status EXCEPT ![id] = "Vetoed"]
  /\ UNCHANGED <<settings, effects, age, stack>>

MarkExpired(id) ==
  /\ Callable
  /\ status[id] = "Queued"
  /\ age[id] = "late"
  /\ status' = [status EXCEPT ![id] = "Expired"]
  /\ UNCHANGED <<settings, effects, age, stack>>

SetTargetAllowed(t, isAllowed) ==
  /\ Callable
  /\ allowed' = IF isAllowed THEN allowed \cup {t} ELSE allowed \ {t}
  /\ UNCHANGED <<status, paused, effects, age, stack>>

Pause(isPaused) ==
  /\ Callable
  /\ paused' = isPaused
  /\ UNCHANGED <<status, allowed, effects, age, stack>>

(* Ledgers close between transactions.                                     *)
Age(id) ==
  /\ stack = << >>
  /\ \/ age[id] = "early" /\ age' = [age EXCEPT ![id] = "due"]
     \/ age[id] = "due" /\ age' = [age EXCEPT ![id] = "late"]
  /\ UNCHANGED <<status, settings, effects, stack>>

Next ==
  \/ \E id \in Ids : Execute(id) \/ Veto(id) \/ MarkExpired(id) \/ Age(id)
  \/ Invoke \/ Succeed \/ Fail \/ Return
  \/ \E t \in Target, isAllowed \in BOOLEAN : SetTargetAllowed(t, isAllowed)
  \/ \E isPaused \in BOOLEAN : Pause(isPaused)

Spec == Init /\ [][Next]_vars

------------------------------------------------------------------------------
(* Properties.                                                             *)

UpTo(n) == [i \in 1..n |-> i]

(* However executions call each other and fail inside one another: what    *)
(* ran of a proposal is all of its actions, once and in order, if it is    *)
(* Executed, and nothing of them if it is not; but for an execution in     *)
(* progress, which has run those before its next ("no earlier call's       *)
(* effects are kept", governance/README.md:627; "it must observe Executed  *)
(* and fail rather than dispatch twice", lib.rs:724-725).                  *)
AllOrNothing ==
  /\ \A i \in DOMAIN stack :
       LET e == stack[i]
       IN  status[e.id] = "Executed" /\ effects[e.id] = UpTo(e.next - 1)
  /\ \A id \in Ids \ {stack[i].id : i \in DOMAIN stack} :
       effects[id] = IF status[id] = "Executed" THEN UpTo(Len(Actions[id])) ELSE << >>
==============================================================================
