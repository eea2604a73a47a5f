----------------------- MODULE ProposalLifecycle_proofs -----------------------
(***************************************************************************)
(* The abstract life of a proposal keeps its promises for every choice of  *)
(* the periods, any number of proposals and any number of ledgers.         *)
(***************************************************************************)
EXTENDS ProposalLifecycle, TLAPS

(* Replacing one element of a sequence by one of the same set.             *)
LEMMA EntryReplaced ==
  ASSUME NEW S, NEW s \in Seq(S), NEW i \in DOMAIN s, NEW e \in S
  PROVE  s[i] \in S /\ [s EXCEPT ![i] = e] \in Seq(S)
  OBVIOUS

(* Ledgers and entries keep their types; the steps below rest on it.       *)
LEMMA LifecycleTypeOK == ASSUME Periods PROVE Spec => []TypeOK
<1>1. Init => TypeOK
  BY DEF Init, TypeOK
<1>2. TypeOK /\ [Next]_vars => TypeOK'
  <2> SUFFICES ASSUME TypeOK, [Next]_vars
               PROVE  TypeOK'
    OBVIOUS
  <2> USE DEF TypeOK, Entry, Final
  <2>1. CASE Open
    <3>1. [status |-> "Active", closes |-> now + 1 + VotingPeriod, ready |-> 0] \in Entry
      BY DEF Periods
    <3>2. QED
      BY <2>1, <3>1 DEF Open
  <2>2. CASE Tick
    BY <2>2 DEF Tick
  <2>3. CASE \E id \in DOMAIN history :
               Pass(id) \/ Fail(id) \/ Cancel(id) \/ Veto(id) \/ Execute(id) \/ Expire(id)
    <3>1. PICK id \in DOMAIN history :
               Pass(id) \/ Fail(id) \/ Cancel(id) \/ Veto(id) \/ Execute(id) \/ Expire(id)
      BY <2>3
    <3> history[id] \in Entry
      <4> HIDE DEF Entry
      <4> QED
        BY EntryReplaced
    <3> now + TimelockPeriod \in Nat
      BY DEF Periods
    <3>2. CASE Pass(id)
      <4>1. [status |-> "Queued", closes |-> history[id].closes,
             ready |-> now + TimelockPeriod] \in Entry
        OBVIOUS
      <4>2. QED
        BY <3>1, <3>2, <4>1, EntryReplaced DEF Pass
    <3>3. CASE Fail(id) \/ Cancel(id) \/ Veto(id) \/ Execute(id) \/ Expire(id)
      <4>1. PICK status \in Final : Becomes(id, status)
        BY <3>3 DEF Fail, Cancel, Veto, Execute, Expire
      <4>2. [history[id] EXCEPT !.status = status] \in Entry
        OBVIOUS
      <4>3. QED
        BY <3>1, <4>1, <4>2, EntryReplaced DEF Becomes
    <3>4. QED
      BY <3>1, <3>2, <3>3
  <2>4. CASE UNCHANGED vars
    BY <2>4 DEF vars
  <2>5. QED
    BY <2>1, <2>2, <2>3, <2>4 DEF Next
<1>3. QED
  BY <1>1, <1>2, PTL DEF Spec

(* The conjuncts of StatusEarned for one entry, at ledger l.               *)
Earned(p, l) ==
  /\ p.status \in {"Queued", "Executed", "Expired", "Vetoed"} =>
       p.closes + TimelockPeriod < p.ready
  /\ p.status = "Failed" => p.closes < l
  /\ p.status = "Executed" => p.ready <= l
  /\ p.status = "Expired" => GracePeriod > 0 /\ p.ready + GracePeriod < l

(* Every status is earned: what was decided was decided after its window,  *)
(* what was queued waited out the timelock, what ran ran in its time.      *)
THEOREM LifecycleEarned == ASSUME Periods PROVE Spec => []StatusEarned
<1>1. Init => StatusEarned
  BY DEF Init, StatusEarned
<1>2. TypeOK /\ StatusEarned /\ [Next]_vars => StatusEarned'
  <2> SUFFICES ASSUME TypeOK, StatusEarned, [Next]_vars,
                      NEW j \in DOMAIN history'
               PROVE  Earned(history'[j], now')
    BY DEF StatusEarned, Earned
  <2>1. /\ now \in Nat /\ history \in Seq(Entry)
        /\ \A i \in DOMAIN history : history[i] \in Entry /\ Earned(history[i], now)
    BY DEF TypeOK, StatusEarned, Earned
  <2>2. CASE Open
    <3>1. (j \in DOMAIN history /\ history'[j] = history[j]) \/ history'[j].status = "Active"
      BY <2>1, <2>2 DEF Open
    <3>2. now' = now
      BY <2>2 DEF Open
    <3>3. QED
      BY <2>1, <3>1, <3>2 DEF Earned
  <2>3. CASE Tick
    BY <2>1, <2>3 DEF Tick, Earned, Entry, Periods
  <2>4. CASE \E id \in DOMAIN history :
               Pass(id) \/ Fail(id) \/ Cancel(id) \/ Veto(id) \/ Execute(id) \/ Expire(id)
    <3>1. PICK id \in DOMAIN history :
               Pass(id) \/ Fail(id) \/ Cancel(id) \/ Veto(id) \/ Execute(id) \/ Expire(id)
      BY <2>4
    <3>2. now' = now /\ DOMAIN history' = DOMAIN history
      BY <2>1, <3>1 DEF Pass, Fail, Cancel, Veto, Execute, Expire, Becomes
    <3>3. CASE j # id
      <4>1. history'[j] = history[j]
        BY <2>1, <3>1, <3>2, <3>3 DEF Pass, Fail, Cancel, Veto, Execute, Expire, Becomes
      <4>2. QED
        BY <2>1, <3>2, <4>1
    <3>4. CASE j = id
      <4>1. history[id] \in Entry /\ Earned(history[id], now)
        BY <2>1
      <4>2. CASE Pass(id)
        <5>1. history'[j] = [status |-> "Queued", closes |-> history[id].closes,
                             ready |-> now + TimelockPeriod]
          BY <2>1, <3>4, <4>2 DEF Pass
        <5>2. /\ history'[j].status = "Queued"
              /\ history'[j].closes = history[id].closes
              /\ history'[j].ready = now + TimelockPeriod
          BY <4>1, <5>1 DEF Entry
        <5>3. history[id].closes \in Nat /\ history[id].closes < now
          BY <4>1, <4>2, <2>1 DEF Pass, Entry
        <5>4. QED
          BY <2>1, <5>2, <5>3 DEF Earned, Periods
      <4>3. CASE Fail(id)
        BY <2>1, <3>2, <3>4, <4>1, <4>3 DEF Fail, Becomes, Earned, Entry
      <4>4. CASE Cancel(id)
        BY <2>1, <3>2, <3>4, <4>1, <4>4 DEF Cancel, Becomes, Earned, Entry
      <4>5. CASE Veto(id)
        BY <2>1, <3>2, <3>4, <4>1, <4>5 DEF Veto, Becomes, Earned, Entry
      <4>6. CASE Execute(id)
        BY <2>1, <3>2, <3>4, <4>1, <4>6 DEF Execute, Becomes, Earned, Entry
      <4>7. CASE Expire(id)
        BY <2>1, <3>2, <3>4, <4>1, <4>7 DEF Expire, Lapsed, Becomes, Earned, Entry
      <4>8. QED
        BY <3>1, <4>2, <4>3, <4>4, <4>5, <4>6, <4>7
    <3>5. QED
      BY <3>3, <3>4
  <2>5. CASE UNCHANGED vars
    BY <2>1, <2>5 DEF vars
  <2>6. QED
    BY <2>2, <2>3, <2>4, <2>5 DEF Next
<1>3. QED
  BY <1>1, <1>2, LifecycleTypeOK, PTL DEF Spec

(* No step takes a proposal out of a final status or removes one.          *)
THEOREM LifecycleIsFinal == ASSUME Periods PROVE Spec => FinalIsFinal
<1> DEFINE Kept == \A id \in DOMAIN history :
                     /\ id \in DOMAIN history'
                     /\ history[id].status \in Final => history'[id] = history[id]
<1>1. TypeOK /\ [Next]_vars => [Kept]_vars
  <2> SUFFICES ASSUME TypeOK, [Next]_vars, NEW j \in DOMAIN history
               PROVE  /\ j \in DOMAIN history'
                      /\ history[j].status \in Final => history'[j] = history[j]
    OBVIOUS
  <2>1. history \in Seq(Entry)
    BY DEF TypeOK
  <2>2. CASE Open
    BY <2>1, <2>2 DEF Open
  <2>3. CASE \E id \in DOMAIN history :
               Pass(id) \/ Fail(id) \/ Cancel(id) \/ Veto(id) \/ Execute(id) \/ Expire(id)
    BY <2>1, <2>3 DEF Pass, Fail, Cancel, Veto, Execute, Expire, Becomes, Final
  <2>4. CASE Tick \/ UNCHANGED vars
    BY <2>4 DEF Tick, vars
  <2>5. QED
    BY <2>2, <2>3, <2>4 DEF Next
<1>2. QED
  BY <1>1, LifecycleTypeOK, PTL DEF Spec, FinalIsFinal
==============================================================================
