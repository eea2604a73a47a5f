-------------------------- MODULE QuorumToken_proofs --------------------------
(***************************************************************************)
(* The token contract, for every set of holders, any retention, lock       *)
(* lengths and widths: histories stay in order and agree with the live     *)
(* values, answers about closed ledgers never change while they are kept,  *)
(* stakes stay in their owners' balances, allowances add up, votes are the *)
(* balances delegated and add up to the supply at every ledger kept.       *)
(***************************************************************************)
EXTENDS QuorumToken, Sums_proofs

(***************************************************************************)
(* What the histories keep and answer, whatever they hold: a write leaves  *)
(* every answer about an earlier ledger as it was, and pruning leaves      *)
(* every answer from the cutoff on.                                        *)
(***************************************************************************)

(* A history as the contract keeps it: entries of E in increasing ledger   *)
(* order, none later than now.                                             *)
Sane(history, E, now) ==
  /\ history \in Seq(E)
  /\ \A i, j \in DOMAIN history : i < j => history[i].ledger < history[j].ledger
  /\ \A i \in DOMAIN history : history[i].ledger \in 0 .. now

(* What a search for ledger takes into account.                            *)
Counted(entry, at, strict) == entry.ledger < at \/ (~strict /\ entry.ledger = at)

(* Two histories give the same answer about a ledger.                      *)
SameAnswer(g, h, at, strict) ==
  LET i == LastUpTo(g, at, strict)
      j == LastUpTo(h, at, strict)
  IN  (i = 0 /\ j = 0) \/ (i # 0 /\ j # 0 /\ g[i] = h[j])

(* A search ends on the last entry that counts ...                         *)
LEMMA LastUpToIs ==
  ASSUME NEW E, NEW now \in Nat, NEW h, Sane(h, E, now), NEW at \in Nat, NEW strict \in BOOLEAN
  PROVE  /\ LastUpTo(h, at, strict) \in 0 .. Len(h)
         /\ \A j \in 1 .. Len(h) : j <= LastUpTo(h, at, strict) <=> Counted(h[j], at, strict)
<1> DEFINE Splits(i) == \A j \in 1 .. Len(h) : j <= i <=> Counted(h[j], at, strict)
           S == {j \in 1 .. Len(h) : Counted(h[j], at, strict)}
<1>1. /\ Len(h) \in Nat /\ DOMAIN h = 1 .. Len(h)
      /\ \A i \in 1 .. Len(h) : h[i].ledger \in Nat
      /\ \A i, j \in 1 .. Len(h) : i < j => h[i].ledger < h[j].ledger
  BY DEF Sane
<1>2. \A i \in S : \A j \in 1 .. i : j \in S
  <2> SUFFICES ASSUME NEW i \in S, NEW j \in 1 .. i
               PROVE  j \in S
    OBVIOUS
  <2>1. j \in 1 .. Len(h) /\ i \in 1 .. Len(h) /\ (j = i \/ j < i)
    BY <1>1
  <2>2. Counted(h[i], at, strict)
    OBVIOUS
  <2>3. j # i => Counted(h[j], at, strict)
    BY <1>1, <2>1, <2>2 DEF Counted
  <2>4. QED
    BY <2>1, <2>2, <2>3
<1>3. PICK k \in 0 .. Len(h) : S = 1 .. k
  BY <1>1, <1>2, InitialSegment
<1>4. Splits(k)
  BY <1>1, <1>3
<1>5. LastUpTo(h, at, strict) = CHOOSE i \in 0 .. Len(h) : Splits(i)
  BY <1>1 DEF LastUpTo, Counted
<1> HIDE DEF Splits
<1>6. LastUpTo(h, at, strict) \in 0 .. Len(h) /\ Splits(LastUpTo(h, at, strict))
  BY <1>4, <1>5
<1>7. QED
  BY <1>6 DEF Splits

(* ... and only there.                                                     *)
LEMMA LastUpToOnly ==
  ASSUME NEW E, NEW now \in Nat, NEW h, Sane(h, E, now), NEW at \in Nat, NEW strict \in BOOLEAN,
         NEW i \in 0 .. Len(h),
         \A j \in 1 .. Len(h) : j <= i <=> Counted(h[j], at, strict)
  PROVE  i = LastUpTo(h, at, strict)
<1> DEFINE k == LastUpTo(h, at, strict)
<1>1. k \in 0 .. Len(h) /\ \A j \in 1 .. Len(h) : j <= k <=> Counted(h[j], at, strict)
  BY LastUpToIs
<1>2. Len(h) \in Nat
  BY DEF Sane
<1> HIDE DEF k
<1>3. ~(i < k)
  <2>1. i < k => k \in 1 .. Len(h) /\ k <= k /\ ~(k <= i)
    BY <1>1, <1>2
  <2>2. QED
    BY <1>1, <2>1
<1>4. ~(k < i)
  <2>1. k < i => i \in 1 .. Len(h) /\ i <= i /\ ~(i <= k)
    BY <1>1, <1>2
  <2>2. QED
    BY <1>1, <2>1
<1>5. i = k
  BY <1>1, <1>2, <1>3, <1>4
<1>6. QED
  BY <1>5 DEF k

(* What pruning keeps starts at the newest stale entry, or at the first.   *)
LEMMA PruneShape ==
  ASSUME NEW E, NEW now \in Nat, NEW h, Sane(h, E, now), h # << >>, NEW cutoff \in Nat
  PROVE  \E k \in 1 .. Len(h) :
           /\ Prune(h, cutoff) = SubSeq(h, k, Len(h))
           /\ k # 1 => h[k].ledger < cutoff
<1> DEFINE S == Stale(h, cutoff)
<1>1. Len(h) \in Nat \ {0} /\ DOMAIN h = 1 .. Len(h) /\ \A i \in 1 .. Len(h) : h[i].ledger \in Nat
  BY DEF Sane
<1>2. S \in SUBSET (1 .. Len(h)) /\ \A i \in S : \A j \in 1 .. i : j \in S
  BY <1>1 DEF Stale
<1>3. PICK k \in 0 .. Len(h) : S = 1 .. k
  BY <1>1, <1>2, InitialSegment
<1>4. CASE k = 0
  <2>1. S = {}
    BY <1>3, <1>4
  <2>2. Prune(h, cutoff) = SubSeq(h, 1, Len(h))
    BY <2>1 DEF Prune
  <2>3. QED
    BY <1>1, <2>2
<1>5. CASE k # 0
  <2>1. k \in S /\ S # {} /\ \A j \in S : j <= k
    BY <1>1, <1>3, <1>5
  <2>2. \A i \in S : (\A j \in S : j <= i) => i = k
    BY <1>1, <1>3, <2>1
  <2> HIDE DEF S
  <2>3. k = CHOOSE i \in S : \A j \in S : j <= i
    BY <2>1, <2>2
  <2>4. Prune(h, cutoff) = SubSeq(h, k, Len(h))
    BY <2>1, <2>3 DEF Prune, S
  <2>5. h[k].ledger < cutoff
    BY <1>1, <2>1 DEF Stale, S
  <2>6. QED
    BY <1>1, <1>5, <2>4, <2>5
<1>6. QED
  BY <1>4, <1>5

(* Pruning keeps a history one, and its newest entry.                      *)
LEMMA PruneSane ==
  ASSUME NEW E, NEW now \in Nat, NEW h, Sane(h, E, now), h # << >>, NEW cutoff \in Nat
  PROVE  /\ Sane(Prune(h, cutoff), E, now)
         /\ Prune(h, cutoff) # << >>
         /\ Prune(h, cutoff)[Len(Prune(h, cutoff))] = h[Len(h)]
<1>1. PICK k \in 1 .. Len(h) : Prune(h, cutoff) = SubSeq(h, k, Len(h))
  BY PruneShape
<1>2. h \in Seq(E) /\ Len(h) \in Nat \ {0} /\ DOMAIN h = 1 .. Len(h)
  BY DEF Sane
<1> DEFINE g == SubSeq(h, k, Len(h))
<1>3. /\ g \in Seq(E) /\ Len(g) = Len(h) - k + 1 /\ DOMAIN g = 1 .. Len(g)
      /\ \A i \in 1 .. Len(g) : g[i] = h[i + k - 1] /\ i + k - 1 \in 1 .. Len(h)
  BY <1>2
<1> HIDE DEF g
<1>4. Sane(g, E, now)
  <2>1. ASSUME NEW i \in 1 .. Len(g) PROVE g[i].ledger \in 0 .. now
    BY <1>2, <1>3 DEF Sane
  <2>2. ASSUME NEW i \in 1 .. Len(g), NEW j \in 1 .. Len(g), i < j
        PROVE  g[i].ledger < g[j].ledger
    <3>1. /\ g[i] = h[i + k - 1] /\ g[j] = h[j + k - 1] /\ i + k - 1 < j + k - 1
          /\ i + k - 1 \in DOMAIN h /\ j + k - 1 \in DOMAIN h
      BY <1>2, <1>3, <2>2
    <3>2. QED
      BY <3>1 DEF Sane
  <2>3. QED
    BY <1>3, <2>1, <2>2 DEF Sane
<1>5. g # << >> /\ g[Len(g)] = h[Len(h)]
  BY <1>2, <1>3
<1>6. QED
  BY <1>1, <1>4, <1>5 DEF g

(* Nothing asked about the cutoff or later is answered otherwise.          *)
LEMMA PruneAnswers ==
  ASSUME NEW E, NEW now \in Nat, NEW h, Sane(h, E, now), h # << >>, NEW cutoff \in Nat,
         NEW at \in Nat, cutoff <= at, NEW strict \in BOOLEAN
  PROVE  SameAnswer(Prune(h, cutoff), h, at, strict)
<1>1. PICK k \in 1 .. Len(h) : /\ Prune(h, cutoff) = SubSeq(h, k, Len(h))
                               /\ k # 1 => h[k].ledger < cutoff
  BY PruneShape
<1>2. /\ h \in Seq(E) /\ Len(h) \in Nat \ {0} /\ DOMAIN h = 1 .. Len(h)
      /\ \A i \in 1 .. Len(h) : h[i].ledger \in Nat
  BY DEF Sane
<1> DEFINE g == SubSeq(h, k, Len(h))
           i == LastUpTo(h, at, strict)
           j == LastUpTo(g, at, strict)
<1>3. /\ Len(g) = Len(h) - k + 1 /\ DOMAIN g = 1 .. Len(g) /\ Len(g) \in Nat
      /\ \A n \in 1 .. Len(g) : g[n] = h[n + k - 1] /\ n + k - 1 \in 1 .. Len(h)
  BY <1>2
<1>4. Sane(g, E, now)
  BY <1>1, PruneSane
<1> HIDE DEF g
<1>5. /\ i \in 0 .. Len(h)
      /\ \A n \in 1 .. Len(h) : n <= i <=> Counted(h[n], at, strict)
  BY LastUpToIs
<1>6. ASSUME NEW m \in 0 .. Len(g),
             \A n \in 1 .. Len(g) : n <= m <=> Counted(g[n], at, strict)
      PROVE  m = j
  BY <1>4, <1>6, LastUpToOnly
<1> HIDE DEF i, j
<1>7. k # 1 => k <= i
  <2> SUFFICES ASSUME k # 1 PROVE k <= i
    OBVIOUS
  <2>1. h[k].ledger < at
    BY <1>1, <1>2
  <2>2. QED
    BY <1>5, <2>1 DEF Counted
<1> DEFINE m == IF i = 0 THEN 0 ELSE i - k + 1
<1>8. m \in 0 .. Len(g)
  BY <1>2, <1>3, <1>5, <1>7
<1>9. \A n \in 1 .. Len(g) : n <= m <=> Counted(g[n], at, strict)
  <2> SUFFICES ASSUME NEW n \in 1 .. Len(g)
               PROVE  n <= m <=> Counted(g[n], at, strict)
    OBVIOUS
  <2>1. g[n] = h[n + k - 1] /\ n + k - 1 \in 1 .. Len(h)
    BY <1>3
  <2>2. Counted(g[n], at, strict) <=> n + k - 1 <= i
    BY <1>5, <2>1
  <2>3. n <= m <=> n + k - 1 <= i
    BY <1>2, <1>3, <1>5, <1>7
  <2>4. QED
    BY <2>2, <2>3
<1>10. j = m
  BY <1>6, <1>8, <1>9
<1>11. (i = 0 /\ j = 0) \/ (i # 0 /\ j # 0 /\ g[j] = h[i])
  <2>1. CASE i = 0
    BY <1>10, <2>1
  <2>2. CASE i # 0
    <3>1. j = i - k + 1 /\ j \in 1 .. Len(g)
      BY <1>2, <1>3, <1>5, <1>7, <1>8, <1>10, <2>2
    <3>2. g[j] = h[j + k - 1] /\ j + k - 1 = i
      BY <1>2, <1>3, <1>5, <3>1
    <3>3. QED
      BY <2>2, <3>1, <3>2
  <2>3. QED
    BY <2>1, <2>2
<1>12. QED
  BY <1>1, <1>11 DEF SameAnswer, g, i, j

Dated(entry, now) == entry.ledger = now

(* r is h with the entry of now added or replaced.                         *)
Rewritten(r, h, now) ==
  /\ Len(r) \in {Len(h), Len(h) + 1}
  /\ \A i \in 1 .. Len(r) - 1 : r[i] = h[i]
  /\ Len(r) = Len(h) => h[Len(h)].ledger = now

(* What a write leaves: the entries before this ledger, then the new one.  *)
LEMMA RecordShape ==
  ASSUME NEW E, NEW now \in Nat, NEW h, Sane(h, E, now), NEW e \in E, Dated(e, now)
  PROVE  /\ Sane(Record(h, e), E, now)
         /\ Record(h, e) # << >>
         /\ Record(h, e)[Len(Record(h, e))] = e
         /\ Rewritten(Record(h, e), h, now)
<1>0. SUFFICES ASSUME NEW r, r = Record(h, e)
               PROVE  /\ Sane(r, E, now)
                      /\ r # << >>
                      /\ r[Len(r)] = e
                      /\ Rewritten(r, h, now)
  OBVIOUS
<1> DEFINE n == Len(h)
<1>1. h \in Seq(E) /\ Len(h) = n /\ n \in Nat /\ DOMAIN h = 1 .. n /\ e.ledger = now
  BY DEF Sane, Dated
<1> HIDE DEF n
<1>2. CASE n > 0 /\ h[n].ledger = now
  <2>1. r = [h EXCEPT ![n] = e]
    BY <1>0, <1>1, <1>2 DEF Record
  <2>2. /\ r \in Seq(E) /\ Len(r) = n /\ DOMAIN r = 1 .. n /\ r[n] = e
        /\ \A i \in 1 .. n : r[i].ledger = h[i].ledger
        /\ \A i \in 1 .. n - 1 : r[i] = h[i]
    BY <1>1, <1>2, <2>1
  <2>3. Sane(r, E, now)
    BY <1>1, <2>2 DEF Sane
  <2>4. QED
    BY <1>1, <1>2, <2>2, <2>3 DEF Rewritten
<1>3. CASE ~(n > 0 /\ h[n].ledger = now)
  <2>1. r = Append(h, e)
    BY <1>0, <1>1, <1>3 DEF Record
  <2>2. /\ r \in Seq(E) /\ Len(r) = n + 1 /\ DOMAIN r = 1 .. n + 1 /\ r[n + 1] = e
        /\ \A i \in 1 .. n : r[i] = h[i]
    BY <1>1, <2>1
  <2>3. ASSUME NEW i \in 1 .. n PROVE h[i].ledger < now
    <3>1. n \in 1 .. n /\ n > 0 /\ (i = n \/ i < n)
      BY <1>1
    <3>2. h[i].ledger \in 0 .. now /\ h[n].ledger \in 0 .. now
      BY <1>1, <3>1 DEF Sane
    <3>3. i = n \/ h[i].ledger < h[n].ledger
      BY <1>1, <3>1 DEF Sane
    <3>4. QED
      BY <1>3, <3>1, <3>2, <3>3
  <2>4. Sane(r, E, now)
    <3>1. \A i \in 1 .. n + 1 : r[i].ledger \in 0 .. now
      BY <1>1, <2>2 DEF Sane
    <3>2. ASSUME NEW i \in 1 .. n + 1, NEW j \in 1 .. n + 1, i < j
          PROVE  r[i].ledger < r[j].ledger
      <4>1. CASE j = n + 1
        BY <1>1, <2>2, <2>3, <3>2, <4>1
      <4>2. CASE j # n + 1
        <5>1. /\ r[i] = h[i] /\ r[j] = h[j]
              /\ i \in DOMAIN h /\ j \in DOMAIN h
          BY <1>1, <2>2, <3>2, <4>2
        <5>2. QED
          BY <3>2, <5>1 DEF Sane
      <4>3. QED
        BY <4>1, <4>2
    <3>3. QED
      BY <2>2, <3>1, <3>2 DEF Sane
  <2>5. r # << >> /\ r[Len(r)] = e /\ Len(r) = Len(h) + 1
    BY <1>1, <2>2
  <2>6. \A i \in 1 .. Len(r) - 1 : r[i] = h[i]
    BY <1>1, <2>2
  <2>7. QED
    BY <1>1, <2>4, <2>5, <2>6 DEF Rewritten
<1>4. QED
  BY <1>2, <1>3

(* A write changes no answer that leaves its own ledger out of account.    *)
LEMMA RecordAnswers ==
  ASSUME NEW E, NEW now \in Nat, NEW h, Sane(h, E, now), NEW e \in E, Dated(e, now),
         NEW at \in Nat, NEW strict \in BOOLEAN, at < now \/ (strict /\ at = now)
  PROVE  SameAnswer(Record(h, e), h, at, strict)
<1> DEFINE r == Record(h, e)
           i == LastUpTo(h, at, strict)
           j == LastUpTo(r, at, strict)
<1>1. /\ Sane(r, E, now)
      /\ r # << >>
      /\ r[Len(r)] = e
      /\ Len(r) \in {Len(h), Len(h) + 1}
      /\ \A n \in 1 .. Len(r) - 1 : r[n] = h[n]
      /\ Len(r) = Len(h) => h[Len(h)].ledger = now
  <2>1. Sane(r, E, now) /\ r # << >> /\ r[Len(r)] = e /\ Rewritten(r, h, now)
    BY RecordShape
  <2>2. QED
    BY <2>1 DEF Rewritten
<1> HIDE DEF r
<1>2. Len(h) \in Nat /\ Len(r) \in Nat \ {0}
  BY <1>1 DEF Sane
<1>3. i \in 0 .. Len(h) /\ \A n \in 1 .. Len(h) : n <= i <=> Counted(h[n], at, strict)
  BY LastUpToIs
<1>4. ~Counted(e, at, strict) /\ (h[Len(h)].ledger = now => ~Counted(h[Len(h)], at, strict))
  BY DEF Counted, Dated
<1> HIDE DEF i, j
<1>5. i \in 0 .. Len(r) - 1
  <2>1. CASE Len(r) = Len(h)
    <3>1. ~(Len(h) <= i)
      BY <1>1, <1>2, <1>3, <1>4, <2>1
    <3>2. QED
      BY <1>2, <1>3, <2>1, <3>1
  <2>2. CASE Len(r) = Len(h) + 1
    BY <1>2, <1>3, <2>2
  <2>3. QED
    BY <1>1, <2>1, <2>2
<1>6. \A n \in 1 .. Len(r) : n <= i <=> Counted(r[n], at, strict)
  <2> SUFFICES ASSUME NEW n \in 1 .. Len(r)
               PROVE  n <= i <=> Counted(r[n], at, strict)
    OBVIOUS
  <2>1. CASE n = Len(r)
    BY <1>1, <1>2, <1>4, <1>5, <2>1
  <2>2. CASE n # Len(r)
    <3>1. n \in 1 .. Len(r) - 1 /\ n \in 1 .. Len(h)
      BY <1>1, <1>2, <2>2
    <3>2. QED
      BY <1>1, <1>3, <3>1
  <2>3. QED
    BY <2>1, <2>2
<1>7. i = j
  <2>1. i \in 0 .. Len(r)
    BY <1>2, <1>5
  <2>2. QED
    BY <1>1, <1>6, <2>1, LastUpToOnly DEF j
<1>8. (i = 0 /\ j = 0) \/ (i # 0 /\ j # 0 /\ r[j] = h[i])
  BY <1>1, <1>5, <1>7
<1>9. QED
  BY <1>8 DEF SameAnswer, r, i, j

(* A write that is pruned, as every write but the supply's is: it is the   *)
(* newest entry, and no answer from the cutoff on that leaves its ledger   *)
(* out of account has changed.                                             *)
LEMMA WriteShape ==
  ASSUME NEW E, NEW now \in Nat, NEW h, Sane(h, E, now), NEW e \in E, Dated(e, now),
         NEW cutoff \in Nat
  PROVE  /\ Sane(Prune(Record(h, e), cutoff), E, now)
         /\ Prune(Record(h, e), cutoff) # << >>
         /\ Prune(Record(h, e), cutoff)[Len(Prune(Record(h, e), cutoff))] = e
<1>1. /\ Sane(Record(h, e), E, now) /\ Record(h, e) # << >>
      /\ Record(h, e)[Len(Record(h, e))] = e
  BY RecordShape
<1>2. QED
  BY <1>1, PruneSane

LEMMA WriteAnswers ==
  ASSUME NEW E, NEW now \in Nat, NEW h, Sane(h, E, now), NEW e \in E, Dated(e, now),
         NEW cutoff \in Nat, NEW at \in Nat, cutoff <= at,
         NEW strict \in BOOLEAN, at < now \/ (strict /\ at = now)
  PROVE  SameAnswer(Prune(Record(h, e), cutoff), h, at, strict)
<1>1. Sane(Record(h, e), E, now) /\ Record(h, e) # << >>
  BY RecordShape
<1>2. SameAnswer(Prune(Record(h, e), cutoff), Record(h, e), at, strict)
  BY <1>1, PruneAnswers
<1>3. SameAnswer(Record(h, e), h, at, strict)
  BY RecordAnswers
<1>4. QED
  BY <1>2, <1>3 DEF SameAnswer

(* The answer about now is the newest entry.                               *)
LEMMA NewestIsNow ==
  ASSUME NEW E, NEW now \in Nat, NEW h, Sane(h, E, now), h # << >>
  PROVE  ValueAt(h, now) = h[Len(h)].balance
<1>1. /\ Len(h) \in Nat \ {0}
      /\ \A j \in 1 .. Len(h) : h[j].ledger \in 0 .. now
  BY DEF Sane
<1>2. Len(h) \in 0 .. Len(h) /\ \A j \in 1 .. Len(h) : j <= Len(h) <=> Counted(h[j], now, FALSE)
  BY <1>1 DEF Counted
<1>3. Len(h) = LastUpTo(h, now, FALSE)
  BY <1>2, LastUpToOnly
<1>4. QED
  BY <1>1, <1>3 DEF ValueAt

(* Answers are the values of entries, or 0.                                *)
LEMMA ValueAtType ==
  ASSUME NEW E, NEW now \in Nat, NEW h, Sane(h, E, now), NEW at \in Nat,
         NEW V, 0 \in V, \A e \in E : e.balance \in V
  PROVE  ValueAt(h, at) \in V
<1> DEFINE i == LastUpTo(h, at, FALSE)
<1>1. i \in 0 .. Len(h)
  BY LastUpToIs
<1> HIDE DEF i
<1>2. i # 0 => h[i] \in E
  BY <1>1 DEF Sane
<1>3. QED
  BY <1>2 DEF ValueAt, i

LEMMA SameValue ==
  ASSUME NEW g, NEW h, NEW at, SameAnswer(g, h, at, FALSE)
  PROVE  ValueAt(g, at) = ValueAt(h, at)
  BY DEF SameAnswer, ValueAt

LEMMA SameLock ==
  ASSUME NEW g, NEW h, NEW at, SameAnswer(g, h, at, TRUE)
  PROVE  LockBefore(g, at) = LockBefore(h, at)
  BY DEF SameAnswer, LockBefore

(***************************************************************************)
(* Stakes and their boost.                                                 *)
(***************************************************************************)

(* A product grows with either factor.                                     *)
LEMMA Monotone ==
  ASSUME NEW a \in Nat, NEW b \in Nat, NEW c \in Nat, b <= c
  PROVE  a * b \in Nat /\ a * c \in Nat /\ a * b <= a * c
<1>1. PICK d \in Nat : c = b + d
  <2>1. c - b \in Nat /\ c = b + (c - b)
    OBVIOUS
  <2>2. QED
    BY <2>1
<1>2. a * c = a * b + a * d
  BY <1>1
<1>3. a * b \in Nat /\ a * d \in Nat
  BY <1>1
<1>4. QED
  BY <1>2, <1>3

(* A number is its quotient's multiple and a remainder.                    *)
LEMMA Divided ==
  ASSUME NEW a \in Nat, NEW m \in Nat \ {0}, NEW q, q = a \div m, NEW s, s = a % m
  PROVE  /\ q \in Nat /\ s \in Nat
         /\ a = m * q + s
         /\ m * q <= a
<1>1. q \in Nat /\ s \in Nat
  BY SMTT(30)
<1>2. a = m * q + s
  BY <1>1, SMTT(30)
<1>3. m * q <= a
  BY SMTT(30)
<1>4. QED
  BY <1>1, <1>2, <1>3

(* Multiples are ordered as their factors.                                 *)
LEMMA Below ==
  ASSUME NEW m \in Nat \ {0}, NEW t \in Nat, NEW s \in Nat, m * t <= s * m
  PROVE  t <= s
<1>1. SUFFICES ASSUME s < t PROVE FALSE
  OBVIOUS
<1>2. m * (s + 1) <= m * t
  <2>1. s + 1 \in Nat /\ s + 1 <= t
    BY <1>1
  <2>2. QED
    BY <2>1, Monotone
<1>3. m * (s + 1) = m * s + m
  OBVIOUS
<1>4. m * s = s * m
  OBVIOUS
<1>5. s * m \in Nat /\ m * t \in Nat
  BY Monotone
<1>6. QED
  BY <1>2, <1>3, <1>4, <1>5

(* The boost's split division gives no more than the amount.               *)
LEMMA BoostFits ==
  ASSUME NEW a \in Nat, NEW m \in Nat \ {0}, NEW r \in Nat, r <= m
  PROVE  /\ (a \div m) * r + ((a % m) * r) \div m \in Nat
         /\ (a \div m) * r + ((a % m) * r) \div m <= a
<1> SUFFICES ASSUME NEW q, q = a \div m, NEW s, s = a % m, NEW p, p = s * r,
                    NEW t, t = p \div m
             PROVE  q * r + t \in Nat /\ q * r + t <= a
  OBVIOUS
<1>1. q \in Nat /\ s \in Nat /\ a = m * q + s
  BY Divided
<1>2. /\ q * r \in Nat /\ q * m \in Nat /\ q * r <= q * m
      /\ p \in Nat /\ s * m \in Nat /\ p <= s * m
  BY <1>1, Monotone
<1>3. t \in Nat /\ m * t <= p /\ m * t \in Nat
  <2>1. t \in Nat /\ m * t <= p
    BY <1>2, Divided
  <2>2. QED
    BY <2>1, Monotone
<1>4. m * t <= s * m
  BY <1>2, <1>3
<1>5. t <= s
  BY <1>1, <1>3, <1>4, Below
<1>6. q * m = m * q
  BY <1>1
<1>7. QED
  BY <1>1, <1>2, <1>3, <1>5, <1>6

(* The lock a boost is computed from was recorded before the ledger.       *)
LEMMA LockBeforeIs ==
  ASSUME NEW E, NEW now \in Nat, NEW h, Sane(h, E, now), NEW at \in Nat
  PROVE  \/ LockBefore(h, at) = NoLock
         \/ LockBefore(h, at) \in E /\ LockBefore(h, at).ledger < at
<1> DEFINE i == LastUpTo(h, at, TRUE)
<1>1. i \in 0 .. Len(h) /\ \A j \in 1 .. Len(h) : j <= i <=> Counted(h[j], at, TRUE)
  BY LastUpToIs
<1>2. LockBefore(h, at) = IF i = 0 THEN NoLock ELSE h[i]
  BY DEF LockBefore
<1> HIDE DEF i
<1>3. CASE i = 0
  BY <1>2, <1>3
<1>4. CASE i # 0
  <2>1. i \in 1 .. Len(h) /\ h \in Seq(E) /\ Len(h) \in Nat /\ i <= i
    BY <1>1, <1>4 DEF Sane
  <2>2. Counted(h[i], at, TRUE)
    BY <1>1, <2>1
  <2>3. h[i] \in E
    BY <2>1
  <2>4. QED
    BY <1>2, <1>4, <2>2, <2>3 DEF Counted
<1>5. QED
  BY <1>3, <1>4

(* When a ledger has closed, the lock before the next is the newest.       *)
LEMMA NewestBefore ==
  ASSUME NEW E, NEW now \in Nat, NEW h, Sane(h, E, now), h # << >>
  PROVE  LockBefore(h, now + 1) = h[Len(h)]
<1>1. /\ Len(h) \in Nat \ {0}
      /\ \A j \in 1 .. Len(h) : h[j].ledger \in 0 .. now
  BY DEF Sane
<1>2. /\ Len(h) \in 0 .. Len(h) /\ now + 1 \in Nat
      /\ \A j \in 1 .. Len(h) : j <= Len(h) <=> Counted(h[j], now + 1, TRUE)
  BY <1>1 DEF Counted
<1>3. Len(h) = LastUpTo(h, now + 1, TRUE)
  BY <1>2, LastUpToOnly
<1>4. QED
  BY <1>1, <1>3 DEF LockBefore

(* A lock that ends within the longest duration gives no more boost than   *)
(* its amount, and none once it has ended.                                 *)
LEMMA BoostBounded ==
  ASSUME NEW h, NEW at \in Nat, NEW m \in Nat \ {0}, NEW l, l = LockBefore(h, at),
         l.amount \in Nat, l.unlock \in Nat, l.unlock <= at + m
  PROVE  /\ Boost(h, at, m) \in Nat /\ Boost(h, at, m) <= l.amount
         /\ Boost(h, at, m) # 0 => l.amount > 0 /\ at < l.unlock
<1>1. CASE l.amount <= 0 \/ at >= l.unlock
  <2>1. Boost(h, at, m) = 0
    BY <1>1 DEF Boost
  <2>2. QED
    BY <2>1
<1>2. CASE ~(l.amount <= 0 \/ at >= l.unlock)
  <2> DEFINE r == l.unlock - at
  <2>1. r \in Nat /\ r <= m
    BY <1>2
  <2>2. Boost(h, at, m) = (l.amount \div m) * r + ((l.amount % m) * r) \div m
    BY <1>2 DEF Boost
  <2> HIDE DEF r
  <2>3. Boost(h, at, m) \in Nat /\ Boost(h, at, m) <= l.amount
    BY <2>1, <2>2, BoostFits
  <2>4. QED
    BY <1>2, <2>3
<1>3. QED
  BY <1>1, <1>2

(***************************************************************************)
(* The state.                                                              *)
(***************************************************************************)

(* What every history of balances, votes or supply is.                     *)
IsHistory(h) == Sane(h, Checkpoint, ledger)

Book == [balance     : [Account -> Amount],
         checkpoints : [Account -> Seq(Checkpoint)],
         votes       : [Account -> Seq(Checkpoint)]]

BooksOK(b) ==
  /\ b \in Book
  /\ \A a \in Account :
       /\ IsHistory(b.checkpoints[a])
       /\ IsHistory(b.votes[a])
       /\ ValueAt(b.checkpoints[a], ledger) = b.balance[a]

(* The closed ledgers whose answers are kept.                              *)
Closed == Cutoff(ledger, Retention) .. ledger - 1

(* c answers about closed ledgers as b does.                               *)
SettledIn(b, c) ==
  \A a \in Account, at \in Closed :
    /\ ValueAt(c.checkpoints[a], at) = ValueAt(b.checkpoints[a], at)
    /\ ValueAt(VoteHistory(c, a), at) = ValueAt(VoteHistory(b, a), at)

Kept(b, c) == BooksOK(c) /\ SettledIn(b, c)

(* The state outside locks and approvals.                                  *)
AccountsOK ==
  /\ ledger \in Sequence
  /\ admin \in Account \cup {NoOne}
  /\ pendingAdmin \in Account \cup {NoOne}
  /\ totalSupply \in Amount
  /\ IsHistory(supplyCheckpoints)
  /\ ValueAt(supplyCheckpoints, ledger) = totalSupply
  /\ delegates \in [Account -> Account]
  /\ BooksOK(Books)
  /\ admin = NoOne => \A a \in Account : balance[a] = 0

LocksOK ==
  /\ locks \in [Account -> Seq(LockEntry)]
  /\ \A a \in Account : Sane(locks[a], LockEntry, ledger)
  /\ LockedStaysInBalance

Approvals == [Account -> [Spenders -> [amount : Amount, expiration : Sequence]]]

AllowancesOK ==
  /\ allowance \in Approvals
  /\ granted \in Approvals
  /\ drawn \in [Account -> [Spenders -> Amount]]
  /\ AllowanceAccounted

(***************************************************************************)
(* One history.                                                            *)
(***************************************************************************)

LEMMA Widths ==
  /\ MaxAmount \in Nat /\ MaxSequence \in Nat /\ Retention \in Nat
  /\ 0 \in Amount /\ Amount \subseteq Nat
  /\ 0 \in Sequence /\ 1 \in Sequence /\ Sequence \subseteq Nat
  BY TokenAssumption DEF Amount, Sequence

LEMMA CutoffType ==
  ASSUME NEW l \in Nat
  PROVE  Cutoff(l, Retention) \in Nat /\ Cutoff(l, Retention) <= l
  BY Widths DEF Cutoff

(* A closed ledger is before this one and not before the cutoff.           *)
LEMMA ClosedShape ==
  ASSUME ledger \in Nat, NEW at \in Closed
  PROVE  at \in Nat /\ at < ledger /\ Cutoff(ledger, Retention) <= at
  BY CutoffType DEF Closed

(* A written history is a history, its newest entry is the value written,  *)
(* and what it answers about closed ledgers is what it answered before.    *)
LEMMA WrittenOK ==
  ASSUME ledger \in Sequence, NEW h, IsHistory(h), NEW value \in Amount
  PROVE  /\ IsHistory(Written(h, value))
         /\ Written(h, value) # << >>
         /\ ValueAt(Written(h, value), ledger) = value
         /\ \A at \in Closed : ValueAt(Written(h, value), at) = ValueAt(h, at)
<1> DEFINE e == [ledger |-> ledger, balance |-> value]
           w == Prune(Record(h, e), Cutoff(ledger, Retention))
<1>0. e.balance = value
  OBVIOUS
<1>1. e \in Checkpoint /\ Dated(e, ledger)
  BY DEF Checkpoint, Dated
<1>2. ledger \in Nat /\ Cutoff(ledger, Retention) \in Nat
  BY Widths, CutoffType
<1>3. Written(h, value) = w
  BY DEF Written
<1> HIDE DEF e
<1>4. Sane(h, Checkpoint, ledger)
  BY DEF IsHistory
<1>5. Sane(w, Checkpoint, ledger) /\ w # << >> /\ w[Len(w)] = e
  BY <1>1, <1>2, <1>4, WriteShape
<1>6. ASSUME NEW at \in Closed PROVE ValueAt(w, at) = ValueAt(h, at)
  <2>1. at \in Nat /\ at < ledger /\ Cutoff(ledger, Retention) <= at
    BY <1>2, ClosedShape
  <2>2. SameAnswer(w, h, at, FALSE)
    BY <1>1, <1>2, <1>4, <2>1, WriteAnswers
  <2>3. QED
    BY <2>2, SameValue
<1> HIDE DEF w
<1>7. ValueAt(w, ledger) = w[Len(w)].balance
  BY <1>2, <1>5, NewestIsNow
<1>8. QED
  BY <1>0, <1>3, <1>5, <1>6, <1>7 DEF IsHistory

(* The supply's history is written without pruning.                        *)
LEMMA RecordedOK ==
  ASSUME ledger \in Sequence, NEW h, IsHistory(h), NEW value \in Amount,
         NEW r, r = Record(h, [ledger |-> ledger, balance |-> value])
  PROVE  /\ IsHistory(r)
         /\ ValueAt(r, ledger) = value
         /\ \A at \in Closed : ValueAt(r, at) = ValueAt(h, at)
<1> DEFINE e == [ledger |-> ledger, balance |-> value]
           g == Record(h, e)
<1>0. e.balance = value
  OBVIOUS
<1>1. e \in Checkpoint /\ Dated(e, ledger)
  BY DEF Checkpoint, Dated
<1>2. ledger \in Nat
  BY Widths
<1>3. r = g
  OBVIOUS
<1> HIDE DEF e
<1>4. Sane(h, Checkpoint, ledger)
  BY DEF IsHistory
<1>5. Sane(g, Checkpoint, ledger) /\ g # << >> /\ g[Len(g)] = e
  BY <1>1, <1>2, <1>4, RecordShape
<1>6. ASSUME NEW at \in Closed PROVE ValueAt(g, at) = ValueAt(h, at)
  <2>1. at \in Nat /\ at < ledger
    BY <1>2, ClosedShape
  <2>2. SameAnswer(g, h, at, FALSE)
    BY <1>1, <1>2, <1>4, <2>1, RecordAnswers
  <2>3. QED
    BY <2>2, SameValue
<1> HIDE DEF g
<1>7. ValueAt(g, ledger) = g[Len(g)].balance
  BY <1>2, <1>5, NewestIsNow
<1>8. QED
  BY <1>0, <1>3, <1>5, <1>6, <1>7 DEF IsHistory

(* A lock history is written as the others are; its answers are settled    *)
(* for the ledger still open as well.                                      *)
LockWritten(h, e) == Prune(Record(h, e), Cutoff(ledger, Retention))

LEMMA LockWrittenOK ==
  ASSUME ledger \in Sequence, NEW h, Sane(h, LockEntry, ledger),
         NEW e \in LockEntry, Dated(e, ledger)
  PROVE  /\ Sane(LockWritten(h, e), LockEntry, ledger)
         /\ LockWritten(h, e) # << >>
         /\ LockWritten(h, e)[Len(LockWritten(h, e))] = e
         /\ \A at \in Cutoff(ledger, Retention) .. ledger :
              Boost(LockWritten(h, e), at, MaxLock) = Boost(h, at, MaxLock)
<1> DEFINE g == Prune(Record(h, e), Cutoff(ledger, Retention))
<1>1. ledger \in Nat /\ Cutoff(ledger, Retention) \in Nat
  BY Widths, CutoffType
<1>2. Sane(g, LockEntry, ledger) /\ g # << >> /\ g[Len(g)] = e
  BY <1>1, WriteShape
<1>3. ASSUME NEW at \in Cutoff(ledger, Retention) .. ledger
      PROVE  Boost(g, at, MaxLock) = Boost(h, at, MaxLock)
  <2>1. at \in Nat /\ Cutoff(ledger, Retention) <= at /\ (at < ledger \/ at = ledger)
    BY <1>1
  <2>2. SameAnswer(g, h, at, TRUE)
    BY <1>1, <2>1, WriteAnswers
  <2> HIDE DEF g
  <2>3. LockBefore(g, at) = LockBefore(h, at)
    BY <2>2, SameLock
  <2>4. QED
    BY <2>3 DEF Boost
<1>4. LockWritten(h, e) = g
  BY DEF LockWritten
<1> HIDE DEF g
<1>5. QED
  BY <1>2, <1>3, <1>4

LEMMA EmptyAnswer ==
  ASSUME NEW at
  PROVE  ValueAt(<< >>, at) = 0
<1> DEFINE i == LastUpTo(<< >>, at, FALSE)
<1>1. i = 0
  BY DEF LastUpTo
<1> HIDE DEF i
<1>2. QED
  BY <1>1 DEF ValueAt, i

(* A closing ledger leaves a history one, with the same value in effect.   *)
LEMMA HistoryGoesOn ==
  ASSUME NEW E, NEW now \in Nat, NEW h, Sane(h, E, now)
  PROVE  /\ Sane(h, E, now + 1)
         /\ ValueAt(h, now + 1) = ValueAt(h, now)
<1>1. Sane(h, E, now + 1) /\ now + 1 \in Nat
  BY DEF Sane
<1>2. CASE h # << >>
  <2>1. ValueAt(h, now) = h[Len(h)].balance
    BY <1>2, NewestIsNow
  <2>2. ValueAt(h, now + 1) = h[Len(h)].balance
    BY <1>1, <1>2, NewestIsNow
  <2>3. QED
    BY <1>1, <2>1, <2>2
<1>3. CASE h = << >>
  BY <1>1, <1>3, EmptyAnswer
<1>4. QED
  BY <1>2, <1>3

(***************************************************************************)
(* The books.                                                              *)
(***************************************************************************)

LEMMA VoteHistoryOK ==
  ASSUME NEW b, BooksOK(b), NEW a \in Account, ledger \in Sequence
  PROVE  IsHistory(VoteHistory(b, a)) /\ CurrentVotes(b, a) \in Amount
<1>1. IsHistory(VoteHistory(b, a))
  BY DEF BooksOK, VoteHistory
<1>2. \A e \in Checkpoint : e.balance \in Amount
  BY DEF Checkpoint
<1>3. ledger \in Nat /\ 0 \in Amount
  BY Widths
<1>4. Sane(VoteHistory(b, a), Checkpoint, ledger)
  BY <1>1 DEF IsHistory
<1>5. ValueAt(VoteHistory(b, a), ledger) \in Amount
  BY <1>2, <1>3, <1>4, ValueAtType
<1>6. QED
  BY <1>1, <1>5 DEF CurrentVotes

(* Writing votes changes no balance, and no answer about a closed ledger.  *)
LEMMA SetVotesOK ==
  ASSUME NEW b, BooksOK(b), NEW a \in Account, NEW votes \in Amount, ledger \in Sequence
  PROVE  /\ Kept(b, SetVotes(b, a, votes))
         /\ SetVotes(b, a, votes).balance = b.balance
<1> DEFINE h == VoteHistory(b, a)
           w == Written(h, votes)
           c == SetVotes(b, a, votes)
<1>1. IsHistory(h)
  BY VoteHistoryOK
<1>2. /\ IsHistory(w) /\ w # << >>
      /\ \A at \in Closed : ValueAt(w, at) = ValueAt(h, at)
  BY <1>1, WrittenOK
<1>3. c = [b EXCEPT !.votes[a] = w]
  BY DEF SetVotes
<1> HIDE DEF w, c
<1>4. /\ b \in Book
      /\ w \in Seq(Checkpoint)
  BY <1>2 DEF BooksOK, IsHistory, Sane
<1>5. /\ c \in Book
      /\ c.balance = b.balance /\ c.checkpoints = b.checkpoints
      /\ c.votes[a] = w
      /\ \A x \in Account \ {a} : c.votes[x] = b.votes[x]
  BY <1>3, <1>4 DEF Book
<1>6. BooksOK(c)
  <2> SUFFICES ASSUME NEW x \in Account
               PROVE  /\ IsHistory(c.checkpoints[x])
                      /\ IsHistory(c.votes[x])
                      /\ ValueAt(c.checkpoints[x], ledger) = c.balance[x]
    BY <1>5 DEF BooksOK
  <2>1. IsHistory(c.votes[x])
    <3>1. CASE x = a
      BY <1>2, <1>5, <3>1
    <3>2. CASE x # a
      BY <1>5, <3>2 DEF BooksOK
    <3>3. QED
      BY <3>1, <3>2
  <2>2. QED
    BY <1>5, <2>1 DEF BooksOK
<1>7. SettledIn(b, c)
  <2> SUFFICES ASSUME NEW x \in Account, NEW at \in Closed
               PROVE  /\ ValueAt(c.checkpoints[x], at) = ValueAt(b.checkpoints[x], at)
                      /\ ValueAt(VoteHistory(c, x), at) = ValueAt(VoteHistory(b, x), at)
    BY DEF SettledIn
  <2>1. CASE x = a
    <3>1. VoteHistory(c, x) = w /\ VoteHistory(b, x) = h
      BY <1>2, <1>5, <2>1 DEF VoteHistory
    <3>2. QED
      BY <1>2, <1>5, <3>1
  <2>2. CASE x # a
    BY <1>5, <2>2 DEF VoteHistory
  <2>3. QED
    BY <2>1, <2>2
<1>8. QED
  BY <1>5, <1>6, <1>7 DEF Kept, c

(* Writing a balance moves the delegatee's votes by as much ...            *)
LEMMA SetBalanceOK ==
  ASSUME NEW b, BooksOK(b), NEW a \in Account, NEW value \in Amount, ledger \in Sequence,
         delegates \in [Account -> Account], CanSetBalance(b, a, value)
  PROVE  /\ Kept(b, SetBalance(b, a, value))
         /\ SetBalance(b, a, value).balance = [b.balance EXCEPT ![a] = value]
<1> DEFINE d == delegates[a]
           votes == VotesAfter(b, a, value)
           v == SetVotes(b, d, votes)
           w == Written(v.checkpoints[a], value)
           c == SetBalance(b, a, value)
<1>1. votes \in Amount
  <2>1. d \in Account /\ CurrentVotes(b, d) \in Amount
    BY VoteHistoryOK
  <2>2. b.balance[a] \in Amount
    BY DEF BooksOK, Book
  <2>3. QED
    BY <2>1, <2>2, Widths DEF CanSetBalance, VotesAfter, Amount
<1>2. Kept(b, v) /\ v.balance = b.balance
  BY <1>1, SetVotesOK
<1>3. c = [v EXCEPT !.balance[a] = value, !.checkpoints[a] = w]
  BY DEF SetBalance
<1> HIDE DEF v, c, votes
<1>4. v \in Book /\ IsHistory(v.checkpoints[a])
  BY <1>2 DEF Kept, BooksOK
<1>5. /\ IsHistory(w) /\ w # << >>
      /\ ValueAt(w, ledger) = value
      /\ \A at \in Closed : ValueAt(w, at) = ValueAt(v.checkpoints[a], at)
  BY <1>4, WrittenOK
<1> HIDE DEF w
<1>6. w \in Seq(Checkpoint)
  BY <1>5 DEF IsHistory, Sane
<1>7. /\ c \in Book
      /\ c.balance = [v.balance EXCEPT ![a] = value]
      /\ c.votes = v.votes
      /\ c.checkpoints[a] = w
      /\ \A x \in Account \ {a} : c.checkpoints[x] = v.checkpoints[x] /\ c.balance[x] = v.balance[x]
      /\ c.balance[a] = value
  BY <1>3, <1>4, <1>6 DEF Book
<1>8. BooksOK(c)
  <2> SUFFICES ASSUME NEW x \in Account
               PROVE  /\ IsHistory(c.checkpoints[x])
                      /\ IsHistory(c.votes[x])
                      /\ ValueAt(c.checkpoints[x], ledger) = c.balance[x]
    BY <1>7 DEF BooksOK
  <2>1. IsHistory(c.votes[x])
    BY <1>2, <1>7 DEF Kept, BooksOK
  <2>2. IsHistory(c.checkpoints[x]) /\ ValueAt(c.checkpoints[x], ledger) = c.balance[x]
    <3>1. CASE x = a
      BY <1>5, <1>7, <3>1
    <3>2. CASE x # a
      BY <1>2, <1>7, <3>2 DEF Kept, BooksOK
    <3>3. QED
      BY <3>1, <3>2
  <2>3. QED
    BY <2>1, <2>2
<1>9. SettledIn(b, c)
  <2> SUFFICES ASSUME NEW x \in Account, NEW at \in Closed
               PROVE  /\ ValueAt(c.checkpoints[x], at) = ValueAt(b.checkpoints[x], at)
                      /\ ValueAt(VoteHistory(c, x), at) = ValueAt(VoteHistory(b, x), at)
    BY DEF SettledIn
  <2>1. /\ ValueAt(v.checkpoints[x], at) = ValueAt(b.checkpoints[x], at)
        /\ ValueAt(VoteHistory(v, x), at) = ValueAt(VoteHistory(b, x), at)
    BY <1>2 DEF Kept, SettledIn
  <2>2. ValueAt(c.checkpoints[x], at) = ValueAt(v.checkpoints[x], at)
    <3>1. CASE x = a
      BY <1>5, <1>7, <3>1
    <3>2. CASE x # a
      BY <1>7, <3>2
    <3>3. QED
      BY <3>1, <3>2
  <2>3. ValueAt(VoteHistory(c, x), at) = ValueAt(VoteHistory(v, x), at)
    <3>1. CASE v.votes[x] = << >>
      BY <1>7, <2>2, <3>1 DEF VoteHistory
    <3>2. CASE v.votes[x] # << >>
      BY <1>7, <3>2 DEF VoteHistory
    <3>3. QED
      BY <3>1, <3>2
  <2>4. QED
    BY <2>1, <2>2, <2>3
<1>10. QED
  BY <1>2, <1>7, <1>8, <1>9 DEF Kept, c

(* ... and so do two in a row.                                             *)
LEMMA KeptTwice ==
  ASSUME NEW b, NEW c, NEW d, Kept(b, c), Kept(c, d)
  PROVE  Kept(b, d)
  BY DEF Kept, SettledIn

(***************************************************************************)
(* What the parts of a call do.                                            *)
(***************************************************************************)

(* No answer about a closed ledger changes.                                *)
AccountsSettled ==
  \A a \in Account, at \in Closed :
    /\ PastBalance(a, at)' = PastBalance(a, at)
    /\ PastDelegatedVotes(a, at)' = PastDelegatedVotes(a, at)

SupplySettled == \A at \in Closed : PastSupply(at)' = PastSupply(at)

(* Nor does a boost, for a ledger still open either.                       *)
BoostsSettled ==
  \A a \in Account, at \in Cutoff(ledger, Retention) .. ledger :
    LockBoost(a, at)' = LockBoost(a, at)

LEMMA KeepOK ==
  ASSUME NEW c, Kept(Books, c), Keep(c), ledger' = ledger
  PROVE  BooksOK(Books)' /\ AccountsSettled
<1>1. c \in Book
  BY DEF Kept, BooksOK
<1>2. Books' = [balance |-> balance', checkpoints |-> checkpoints', votes |-> voteCheckpoints']
  BY DEF Books
<1>3. c = [balance |-> c.balance, checkpoints |-> c.checkpoints, votes |-> c.votes]
  BY <1>1 DEF Book
<1>4. Books' = c
  BY <1>2, <1>3 DEF Keep
<1>5. BooksOK(Books)'
  BY <1>4 DEF Kept, BooksOK, IsHistory
<1>6. AccountsSettled
  <2> SUFFICES ASSUME NEW a \in Account, NEW at \in Closed
               PROVE  /\ PastBalance(a, at)' = PastBalance(a, at)
                      /\ PastDelegatedVotes(a, at)' = PastDelegatedVotes(a, at)
    BY DEF AccountsSettled
  <2>1. /\ ValueAt(c.checkpoints[a], at) = ValueAt(Books.checkpoints[a], at)
        /\ ValueAt(VoteHistory(c, a), at) = ValueAt(VoteHistory(Books, a), at)
    BY DEF Kept, SettledIn
  <2>2. PastBalance(a, at)' = ValueAt(c.checkpoints[a], at)
    BY DEF PastBalance, Keep
  <2>3. PastBalance(a, at) = ValueAt(Books.checkpoints[a], at)
    BY DEF PastBalance, Books
  <2>4. PastDelegatedVotes(a, at)' = ValueAt(VoteHistory(c, a), at)
    BY <1>4 DEF PastDelegatedVotes, VoteHistory
  <2>5. PastDelegatedVotes(a, at) = ValueAt(VoteHistory(Books, a), at)
    BY DEF PastDelegatedVotes
  <2>6. QED
    BY <2>1, <2>2, <2>3, <2>4, <2>5
<1>7. QED
  BY <1>5, <1>6

LEMMA SupplyOK ==
  ASSUME NEW supply \in Amount, IsHistory(supplyCheckpoints), ledger \in Sequence,
         SetTotalSupply(supply), ledger' = ledger
  PROVE  /\ totalSupply' \in Amount
         /\ IsHistory(supplyCheckpoints)'
         /\ ValueAt(supplyCheckpoints, ledger)' = totalSupply'
         /\ SupplySettled
<1>1. /\ totalSupply' = supply
      /\ supplyCheckpoints' = Record(supplyCheckpoints, [ledger |-> ledger, balance |-> supply])
  BY DEF SetTotalSupply
<1>2. /\ IsHistory(supplyCheckpoints')
      /\ ValueAt(supplyCheckpoints', ledger) = supply
      /\ \A at \in Closed : ValueAt(supplyCheckpoints', at) = ValueAt(supplyCheckpoints, at)
  BY <1>1, RecordedOK
<1>3. QED
  BY <1>1, <1>2 DEF IsHistory, SupplySettled, PastSupply

LEMMA LockType ==
  ASSUME NEW l, Sane(l, LockEntry, ledger)
  PROVE  CurrentLock(l) \in LockEntry
<1>1. NoLock \in LockEntry
  BY Widths DEF NoLock, LockEntry
<1>2. l # << >> => l[Len(l)] \in LockEntry
  BY DEF Sane
<1>3. QED
  BY <1>1, <1>2 DEF CurrentLock

(* A stake or a release: the new lock is in force, older answers stand.    *)
LEMMA RecordLockOK ==
  ASSUME LocksOK, ledger \in Sequence, NEW a \in Account, NEW amount \in Amount,
         NEW unlock \in Sequence, RecordLock(a, amount, unlock), ledger' = ledger
  PROVE  /\ locks' \in [Account -> Seq(LockEntry)]
         /\ \A x \in Account : Sane(locks[x], LockEntry, ledger)'
         /\ Locked(a)' = amount
         /\ \A x \in Account \ {a} : Locked(x)' = Locked(x)
         /\ BoostsSettled
<1> DEFINE e == [ledger |-> ledger, amount |-> amount, unlock |-> unlock]
           w == LockWritten(locks[a], e)
<1>1. e \in LockEntry /\ Dated(e, ledger) /\ e.amount = amount
  BY Widths DEF LockEntry, Dated
<1>2. /\ locks \in [Account -> Seq(LockEntry)]
      /\ \A x \in Account : Sane(locks[x], LockEntry, ledger)
  BY DEF LocksOK
<1>3. locks' = [locks EXCEPT ![a] = w]
  BY DEF RecordLock, LockWritten
<1> HIDE DEF e
<1>4. /\ Sane(w, LockEntry, ledger) /\ w # << >> /\ w[Len(w)] = e
      /\ \A at \in Cutoff(ledger, Retention) .. ledger :
           Boost(w, at, MaxLock) = Boost(locks[a], at, MaxLock)
  BY <1>1, <1>2, LockWrittenOK
<1> HIDE DEF w
<1>5. w \in Seq(LockEntry)
  BY <1>4 DEF Sane
<1>6. /\ locks' \in [Account -> Seq(LockEntry)]
      /\ locks'[a] = w
      /\ \A x \in Account \ {a} : locks'[x] = locks[x]
  BY <1>2, <1>3, <1>5
<1>7. \A x \in Account : Sane(locks'[x], LockEntry, ledger)
  <2> SUFFICES ASSUME NEW x \in Account
               PROVE  Sane(locks'[x], LockEntry, ledger)
    OBVIOUS
  <2>1. CASE x = a
    BY <1>4, <1>6, <2>1
  <2>2. CASE x # a
    BY <1>2, <1>6, <2>2
  <2>3. QED
    BY <2>1, <2>2
<1>8. Locked(a)' = amount
  <2>1. CurrentLock(w).amount = amount
    BY <1>1, <1>4, Widths DEF CurrentLock, NoLock, Amount
  <2>2. QED
    BY <1>6, <2>1 DEF Locked
<1>9. BoostsSettled
  <2> SUFFICES ASSUME NEW x \in Account, NEW at \in Cutoff(ledger, Retention) .. ledger
               PROVE  Boost(locks'[x], at, MaxLock) = Boost(locks[x], at, MaxLock)
    BY DEF BoostsSettled, LockBoost
  <2>1. CASE x = a
    BY <1>4, <1>6, <2>1
  <2>2. CASE x # a
    BY <1>6, <2>2
  <2>3. QED
    BY <2>1, <2>2
<1>10. QED
  BY <1>6, <1>7, <1>8, <1>9 DEF Locked

(* A stake is not spent: whoever pays keeps what is locked.                *)
LEMMA MovedOK ==
  ASSUME AccountsOK, LocksOK, NEW from \in Account, NEW to \in Account, NEW amount \in Amounts,
         CanMove(from, to, amount)
  PROVE  /\ Kept(Books, Moved(Books, from, to, amount))
         /\ \A a \in Account : Locked(a) <= Moved(Books, from, to, amount).balance[a]
<1> DEFINE d == Debited(Books, from, amount)
           m == Moved(Books, from, to, amount)
<1>1. /\ BooksOK(Books) /\ Books.balance = balance /\ ledger \in Sequence
      /\ delegates \in [Account -> Account]
  BY DEF AccountsOK, Books
<1>2. /\ balance \in [Account -> Amount]
      /\ amount \in Nat /\ amount > 0
      /\ \A a \in Account : Locked(a) \in Amount /\ Locked(a) <= balance[a]
  <2>1. balance \in [Account -> Amount]
    BY <1>1 DEF BooksOK, Book
  <2>2. ASSUME NEW a \in Account PROVE Locked(a) \in Amount /\ Locked(a) <= balance[a]
    <3>1. CurrentLock(locks[a]) \in LockEntry
      BY LockType DEF LocksOK
    <3>2. QED
      BY <3>1 DEF LocksOK, LockedStaysInBalance, Locked, LockEntry
  <2>3. QED
    BY <2>1, <2>2, TokenAssumption
<1>3. /\ balance[from] - amount \in Amount
      /\ Locked(from) <= balance[from] - amount
  <2>1. balance[from] \in Amount /\ Locked(from) \in Amount /\ balance[from] - Locked(from) >= amount
    BY <1>2 DEF CanMove, Spendable
  <2>2. QED
    BY <1>2, <2>1, Widths DEF Amount
<1>4. Kept(Books, d) /\ d.balance = [balance EXCEPT ![from] = balance[from] - amount]
  <2>1. d = SetBalance(Books, from, balance[from] - amount)
    BY <1>1 DEF Debited
  <2>2. CanSetBalance(Books, from, balance[from] - amount)
    BY DEF CanMove
  <2> HIDE DEF d
  <2>3. QED
    BY <1>1, <1>3, <2>1, <2>2, SetBalanceOK
<1>5. /\ d.balance[to] + amount <= MaxAmount
      /\ CanSetBalance(d, to, d.balance[to] + amount)
  BY DEF CanMove
<1>6. m = SetBalance(d, to, d.balance[to] + amount)
  BY DEF Moved
<1> HIDE DEF d, m
<1>7. d.balance \in [Account -> Amount] /\ BooksOK(d)
  BY <1>4 DEF Kept, BooksOK, Book
<1>8. d.balance[to] \in Amount /\ d.balance[to] + amount \in Amount
  <2>1. d.balance[to] \in Amount
    BY <1>7
  <2>2. QED
    BY <1>2, <1>5, <2>1, Widths DEF Amount
<1>9. Kept(d, m) /\ m.balance = [d.balance EXCEPT ![to] = d.balance[to] + amount]
  BY <1>1, <1>5, <1>6, <1>7, <1>8, SetBalanceOK
<1>10. Kept(Books, m)
  BY <1>4, <1>9, KeptTwice
<1>11. ASSUME NEW a \in Account PROVE Locked(a) <= m.balance[a]
  <2>1. d.balance[a] \in Nat /\ Locked(a) \in Nat /\ Locked(a) <= d.balance[a]
    <3>1. CASE a = from
      BY <1>2, <1>3, <1>4, <3>1, Widths
    <3>2. CASE a # from
      BY <1>2, <1>4, <3>2, Widths
    <3>3. QED
      BY <3>1, <3>2
  <2>2. m.balance[a] = d.balance[a] \/ m.balance[a] = d.balance[a] + amount
    BY <1>7, <1>9
  <2>3. QED
    BY <1>2, <2>1, <2>2
<1>12. QED
  BY <1>10, <1>11 DEF m

(***************************************************************************)
(* Calls keep accounts and locks, and settle the past.                     *)
(***************************************************************************)

Sound ==
  /\ AccountsOK' /\ LocksOK'
  /\ AccountsSettled /\ SupplySettled /\ BoostsSettled

LEMMA Numbers ==
  ASSUME AccountsOK, LocksOK
  PROVE  /\ ledger \in Nat /\ ledger \in Sequence /\ totalSupply \in Amount
         /\ IsHistory(supplyCheckpoints)
         /\ delegates \in [Account -> Account]
         /\ BooksOK(Books) /\ Books.balance = balance
         /\ balance \in [Account -> Amount]
         /\ \A a \in Account : Locked(a) \in Amount /\ Locked(a) <= balance[a]
<1>1. balance \in [Account -> Amount]
  BY DEF AccountsOK, BooksOK, Book, Books
<1>2. ASSUME NEW a \in Account PROVE Locked(a) \in Amount /\ Locked(a) <= balance[a]
  <2>1. CurrentLock(locks[a]) \in LockEntry
    BY LockType DEF LocksOK
  <2>2. QED
    BY <2>1 DEF LocksOK, LockedStaysInBalance, Locked, LockEntry
<1>3. QED
  BY <1>1, <1>2, Widths DEF AccountsOK, Books

(* Locks that stay, under balances that still hold them.                   *)
LEMMA LocksStay ==
  ASSUME LocksOK, UNCHANGED <<ledger, locks>>, \A a \in Account : Locked(a) <= balance'[a]
  PROVE  LocksOK' /\ BoostsSettled
<1>1. LocksOK'
  BY DEF LocksOK, LockedStaysInBalance, Locked
<1>2. BoostsSettled
  BY DEF BoostsSettled, LockBoost
<1>3. QED
  BY <1>1, <1>2

LEMMA SupplyStays ==
  ASSUME UNCHANGED supplyVars
  PROVE  SupplySettled
  BY DEF SupplySettled, PastSupply, supplyVars

LEMMA MoveSound ==
  ASSUME AccountsOK, LocksOK, NEW from \in Account, NEW to \in Account, NEW amount \in Amounts,
         CanMove(from, to, amount), Keep(Moved(Books, from, to, amount)),
         UNCHANGED <<ledger, roles, supplyVars, delegates, locks>>
  PROVE  Sound
<1> DEFINE c == Moved(Books, from, to, amount)
<1>1. Kept(Books, c) /\ \A a \in Account : Locked(a) <= c.balance[a]
  BY MovedOK
<1>2. balance' = c.balance
  BY DEF Keep
<1> HIDE DEF c
<1>3. BooksOK(Books)' /\ AccountsSettled
  BY <1>1, KeepOK DEF c
<1>4. admin # NoOne
  <2>1. Locked(from) \in Amount /\ balance[from] \in Amount
    BY Numbers
  <2>2. balance[from] - Locked(from) >= amount /\ amount \in Nat /\ amount > 0
    BY TokenAssumption DEF CanMove, Spendable
  <2>3. balance[from] # 0
    BY <2>1, <2>2, Widths DEF Amount
  <2>4. QED
    BY <2>3 DEF AccountsOK
<1>5. AccountsOK'
  BY <1>3, <1>4 DEF AccountsOK, roles, supplyVars, IsHistory
<1>6. LocksOK' /\ BoostsSettled
  BY <1>1, <1>2, LocksStay
<1>7. QED
  BY <1>3, <1>5, <1>6, SupplyStays DEF Sound

(* A balance and the supply change together, the holder's lock covered.    *)
LEMMA IssueSound ==
  ASSUME AccountsOK, LocksOK, NEW a \in Account, NEW value \in Amount, NEW supply \in Amount,
         CanSetBalance(Books, a, value), Keep(SetBalance(Books, a, value)),
         SetTotalSupply(supply), Locked(a) <= value,
         admin' \in Account, pendingAdmin' = pendingAdmin,
         UNCHANGED <<ledger, delegates, locks>>
  PROVE  Sound
<1> DEFINE c == SetBalance(Books, a, value)
<1>1. Kept(Books, c) /\ c.balance = [balance EXCEPT ![a] = value]
  <2>1. BooksOK(Books) /\ ledger \in Sequence /\ delegates \in [Account -> Account]
    BY Numbers
  <2>2. Kept(Books, c) /\ c.balance = [Books.balance EXCEPT ![a] = value]
    BY <2>1, SetBalanceOK
  <2>3. QED
    BY <2>2, Numbers
<1>2. balance' = c.balance
  BY DEF Keep
<1> HIDE DEF c
<1>3. BooksOK(Books)' /\ AccountsSettled
  BY <1>1, KeepOK DEF c
<1>4. /\ totalSupply' \in Amount
      /\ IsHistory(supplyCheckpoints)'
      /\ ValueAt(supplyCheckpoints, ledger)' = totalSupply'
      /\ SupplySettled
  BY Numbers, SupplyOK
<1>5. AccountsOK'
  BY <1>3, <1>4, TokenAssumption DEF AccountsOK
<1>6. ASSUME NEW x \in Account PROVE Locked(x) <= balance'[x]
  <2>1. Locked(x) <= balance[x] /\ balance \in [Account -> Amount]
    BY Numbers
  <2>2. QED
    BY <1>1, <1>2, <2>1
<1>7. LocksOK' /\ BoostsSettled
  BY <1>6, LocksStay
<1>8. QED
  BY <1>3, <1>4, <1>5, <1>7 DEF Sound

LEMMA DestroySound ==
  ASSUME AccountsOK, LocksOK, NEW from \in Account, NEW amount \in Amounts,
         Destroy(from, amount), UNCHANGED <<ledger, roles, delegates, locks>>
  PROVE  Sound
<1>1. /\ balance[from] \in Amount /\ Locked(from) \in Amount /\ totalSupply \in Amount
      /\ amount \in Nat /\ amount > 0
  BY Numbers, TokenAssumption
<1>2. balance[from] - Locked(from) >= amount /\ totalSupply >= amount
  BY DEF Destroy, Spendable
<1>3. /\ balance[from] - amount \in Amount /\ Locked(from) <= balance[from] - amount
      /\ totalSupply - amount \in Amount /\ balance[from] # 0
  BY <1>1, <1>2, Widths DEF Amount
<1>4. /\ CanSetBalance(Books, from, balance[from] - amount)
      /\ Keep(SetBalance(Books, from, balance[from] - amount))
      /\ SetTotalSupply(totalSupply - amount)
  BY DEF Destroy, Debited, Books
<1>5. admin \in Account
  BY <1>3 DEF AccountsOK
<1>6. QED
  BY <1>3, <1>4, <1>5, IssueSound DEF roles

LEMMA InitializeSound ==
  ASSUME AccountsOK, LocksOK, NEW a \in Account, NEW supply \in Amounts \cup {0},
         Initialize(a, supply)
  PROVE  Sound
<1>1. supply \in Amount /\ supply >= 0
  BY TokenAssumption, Widths DEF Amount
<1>2. Locked(a) <= supply
  <2>1. balance[a] = 0 /\ Locked(a) <= balance[a] /\ Locked(a) \in Amount
    BY Numbers DEF Initialize, AccountsOK
  <2>2. QED
    BY <1>1, <2>1, Widths DEF Amount
<1>3. QED
  BY <1>1, <1>2, IssueSound DEF Initialize

LEMMA MintSound ==
  ASSUME AccountsOK, LocksOK, NEW to \in Account, NEW amount \in Amounts, Mint(to, amount)
  PROVE  Sound
<1>1. /\ balance[to] \in Amount /\ Locked(to) \in Amount /\ totalSupply \in Amount
      /\ Locked(to) <= balance[to]
      /\ amount \in Nat /\ amount > 0
  BY Numbers, TokenAssumption
<1>2. /\ totalSupply + amount <= MaxAmount
      /\ balance[to] + amount <= MaxAmount
  BY DEF Mint
<1>3. /\ balance[to] + amount \in Amount /\ totalSupply + amount \in Amount
      /\ Locked(to) <= balance[to] + amount
  BY <1>1, <1>2, Widths DEF Amount
<1>4. admin \in Account
  BY DEF AccountsOK, Mint
<1>5. QED
  BY <1>3, <1>4, IssueSound DEF Mint, roles

LEMMA DelegateSound ==
  ASSUME AccountsOK, LocksOK, NEW delegator \in Account, NEW delegatee \in Account,
         Delegate(delegator, delegatee)
  PROVE  Sound
<1> DEFINE previous == delegates[delegator]
           less == CurrentVotes(Books, previous) - balance[delegator]
           more == CurrentVotes(Books, delegatee) + balance[delegator]
           left == SetVotes(Books, previous, less)
           c == SetVotes(left, delegatee, more)
<1>1. /\ ledger \in Sequence /\ delegates \in [Account -> Account] /\ BooksOK(Books)
      /\ balance \in [Account -> Amount] /\ Books.balance = balance
  BY Numbers
<1>2. previous \in Account
  BY <1>1
<1>3. /\ CurrentVotes(Books, previous) >= balance[delegator]
      /\ CurrentVotes(Books, delegatee) + balance[delegator] <= MaxAmount
      /\ Keep(c)
      /\ delegates' = [delegates EXCEPT ![delegator] = delegatee]
      /\ UNCHANGED <<ledger, roles, supplyVars, locks>>
  BY DEF Delegate
<1> HIDE DEF previous
<1>4. less \in Amount /\ more \in Amount
  <2>1. /\ CurrentVotes(Books, previous) \in Amount /\ CurrentVotes(Books, delegatee) \in Amount
        /\ balance[delegator] \in Amount
    BY <1>1, <1>2, VoteHistoryOK
  <2>2. QED
    BY <1>3, <2>1, Widths DEF Amount
<1> HIDE DEF less, more
<1>5. Kept(Books, left) /\ left.balance = Books.balance
  BY <1>1, <1>2, <1>4, SetVotesOK
<1> HIDE DEF left
<1>6. Kept(left, c) /\ c.balance = left.balance
  BY <1>1, <1>4, <1>5, SetVotesOK DEF Kept
<1> HIDE DEF c
<1>7. Kept(Books, c) /\ c.balance = balance
  BY <1>1, <1>5, <1>6, KeptTwice
<1>8. BooksOK(Books)' /\ AccountsSettled
  BY <1>3, <1>7, KeepOK
<1>9. balance' = balance
  BY <1>3, <1>7 DEF Keep
<1>10. AccountsOK'
  BY <1>1, <1>3, <1>8, <1>9 DEF AccountsOK, roles, supplyVars, IsHistory
<1>11. LocksOK' /\ BoostsSettled
  BY <1>3, <1>9, Numbers, LocksStay
<1>12. QED
  BY <1>3, <1>8, <1>10, <1>11, SupplyStays DEF Sound

(* Calls that leave the books alone.                                       *)
LEMMA AccountsStay ==
  ASSUME AccountsOK, UNCHANGED <<ledger, supplyVars, books, delegates>>,
         admin' \in Account \cup {NoOne}, pendingAdmin' \in Account \cup {NoOne},
         admin' = NoOne => admin = NoOne
  PROVE  AccountsOK' /\ AccountsSettled /\ SupplySettled
<1>1. Books' = Books /\ balance' = balance /\ checkpoints' = checkpoints
  BY DEF books, Books
<1>2. BooksOK(Books)'
  BY <1>1 DEF AccountsOK, BooksOK, IsHistory
<1>3. AccountsOK'
  BY <1>1, <1>2 DEF AccountsOK, supplyVars, IsHistory
<1>4. AccountsSettled
  BY <1>1 DEF AccountsSettled, PastBalance, PastDelegatedVotes, VoteHistory
<1>5. QED
  BY <1>3, <1>4, SupplyStays

LEMMA QuietSound ==
  ASSUME AccountsOK, LocksOK, UNCHANGED <<ledger, supplyVars, books, delegates, locks>>,
         admin' \in Account \cup {NoOne}, pendingAdmin' \in Account \cup {NoOne},
         admin' = NoOne => admin = NoOne
  PROVE  Sound
<1>1. balance' = balance
  BY DEF books
<1>2. LocksOK' /\ BoostsSettled
  BY <1>1, Numbers, LocksStay
<1>3. QED
  BY <1>2, AccountsStay DEF Sound

LEMMA LockSound ==
  ASSUME AccountsOK, LocksOK, NEW a \in Account, NEW amount \in Amount, NEW unlock \in Sequence,
         amount <= balance[a], RecordLock(a, amount, unlock),
         UNCHANGED <<ledger, roles, supplyVars, books, delegates>>
  PROVE  Sound
<1>1. AccountsOK' /\ AccountsSettled /\ SupplySettled
  <2>1. /\ admin' \in Account \cup {NoOne} /\ pendingAdmin' \in Account \cup {NoOne}
        /\ admin' = NoOne => admin = NoOne
    BY DEF AccountsOK, roles
  <2>2. QED
    BY <2>1, AccountsStay
<1>2. /\ locks' \in [Account -> Seq(LockEntry)]
      /\ \A x \in Account : Sane(locks[x], LockEntry, ledger)'
      /\ Locked(a)' = amount
      /\ \A x \in Account \ {a} : Locked(x)' = Locked(x)
      /\ BoostsSettled
  BY Numbers, RecordLockOK
<1>3. \A x \in Account : Locked(x)' <= balance'[x]
  <2> SUFFICES ASSUME NEW x \in Account PROVE Locked(x)' <= balance'[x]
    OBVIOUS
  <2>1. balance' = balance /\ Locked(x) <= balance[x]
    BY Numbers DEF books
  <2>2. CASE x = a
    BY <1>2, <2>1, <2>2
  <2>3. CASE x # a
    BY <1>2, <2>1, <2>3
  <2>4. QED
    BY <2>2, <2>3
<1>4. LocksOK'
  BY <1>2, <1>3 DEF LocksOK, LockedStaysInBalance
<1>5. QED
  BY <1>1, <1>2, <1>4 DEF Sound

LEMMA StakeSound ==
  ASSUME AccountsOK, LocksOK, NEW a \in Account, NEW amount \in Amounts,
         NEW duration \in Durations, Stake(a, amount, duration)
  PROVE  Sound
<1>1. amount \in Amount /\ ledger + duration \in Sequence
  <2>1. ledger \in Nat /\ duration \in Nat /\ ledger + duration <= MaxSequence
    BY Numbers, TokenAssumption DEF Stake
  <2>2. QED
    BY <2>1, TokenAssumption DEF Amount, Sequence
<1>2. QED
  BY <1>1, LockSound DEF Stake

LEMMA UnstakeSound ==
  ASSUME AccountsOK, LocksOK, NEW a \in Account, Unstake(a)
  PROVE  Sound
<1>1. CurrentLock(locks[a]).unlock \in Sequence
  <2>1. CurrentLock(locks[a]) \in LockEntry
    BY LockType DEF LocksOK
  <2>2. QED
    BY <2>1 DEF LockEntry
<1>2. 0 \in Amount /\ 0 <= balance[a]
  BY Numbers, Widths DEF Amount
<1>3. QED
  BY <1>1, <1>2, LockSound DEF Unstake

(* The cutoff does not go back.                                            *)
LEMMA CutoffGrows ==
  ASSUME NEW l \in Nat
  PROVE  Cutoff(l, Retention) <= Cutoff(l + 1, Retention)
  BY Widths DEF Cutoff

LEMMA CloseSound ==
  ASSUME AccountsOK, LocksOK, CloseLedger
  PROVE  Sound
<1>1. /\ ledger \in Nat /\ ledger' = ledger + 1 /\ ledger' \in Sequence
      /\ UNCHANGED <<roles, supplyVars, books, delegates, locks>>
  <2>1. ledger \in Nat /\ ledger < MaxLedger /\ ledger' = ledger + 1
    BY Numbers DEF CloseLedger
  <2>2. QED
    BY <2>1, TokenAssumption DEF CloseLedger, Sequence
<1>2. /\ Books' = Books /\ balance' = balance /\ checkpoints' = checkpoints
      /\ supplyCheckpoints' = supplyCheckpoints /\ totalSupply' = totalSupply
      /\ admin' = admin /\ pendingAdmin' = pendingAdmin
      /\ delegates' = delegates /\ locks' = locks
  BY <1>1 DEF books, Books, supplyVars, roles
<1>3. BooksOK(Books)'
  <2> SUFFICES ASSUME NEW a \in Account
               PROVE  /\ Sane(Books.checkpoints[a], Checkpoint, ledger + 1)
                      /\ Sane(Books.votes[a], Checkpoint, ledger + 1)
                      /\ ValueAt(Books.checkpoints[a], ledger + 1) = Books.balance[a]
    BY <1>1, <1>2, Numbers DEF BooksOK, IsHistory
  <2>1. /\ Sane(Books.checkpoints[a], Checkpoint, ledger)
        /\ Sane(Books.votes[a], Checkpoint, ledger)
        /\ ValueAt(Books.checkpoints[a], ledger) = Books.balance[a]
    BY Numbers DEF BooksOK, IsHistory
  <2>2. /\ Sane(Books.checkpoints[a], Checkpoint, ledger + 1)
        /\ ValueAt(Books.checkpoints[a], ledger + 1) = ValueAt(Books.checkpoints[a], ledger)
    BY <1>1, <2>1, HistoryGoesOn
  <2>3. Sane(Books.votes[a], Checkpoint, ledger + 1)
    BY <1>1, <2>1, HistoryGoesOn
  <2>4. QED
    BY <2>1, <2>2, <2>3
<1>4. IsHistory(supplyCheckpoints)' /\ ValueAt(supplyCheckpoints, ledger)' = totalSupply'
  <2>1. /\ Sane(supplyCheckpoints, Checkpoint, ledger)
        /\ ValueAt(supplyCheckpoints, ledger) = totalSupply
    BY DEF AccountsOK, IsHistory
  <2>2. /\ Sane(supplyCheckpoints, Checkpoint, ledger + 1)
        /\ ValueAt(supplyCheckpoints, ledger + 1) = ValueAt(supplyCheckpoints, ledger)
    BY <1>1, <2>1, HistoryGoesOn
  <2>3. QED
    BY <1>1, <1>2, <2>1, <2>2 DEF IsHistory
<1>5. AccountsOK'
  BY <1>1, <1>2, <1>3, <1>4 DEF AccountsOK
<1>6. LocksOK'
  <2>1. ASSUME NEW a \in Account PROVE Sane(locks[a], LockEntry, ledger + 1)
    BY <1>1, HistoryGoesOn DEF LocksOK
  <2>2. QED
    BY <1>1, <1>2, <2>1 DEF LocksOK, LockedStaysInBalance, Locked
<1>7. AccountsSettled /\ SupplySettled /\ BoostsSettled
  BY <1>2 DEF AccountsSettled, SupplySettled, BoostsSettled, PastBalance, PastDelegatedVotes,
              PastSupply, LockBoost, VoteHistory
<1>8. QED
  BY <1>5, <1>6, <1>7 DEF Sound

(* Every call, and the network's step between ledgers, is sound.           *)
LEMMA StepSound ==
  ASSUME AccountsOK, LocksOK, [Next]_vars
  PROVE  Sound
<1>1. CASE Administer
  <2>1. ASSUME NEW a \in Account, NEW n \in Amounts \cup {0}, Initialize(a, n) PROVE Sound
    BY <2>1, InitializeSound
  <2>2. ASSUME NEW a \in Account, NEW n \in Amounts, Mint(a, n) PROVE Sound
    BY <2>2, MintSound
  <2>3. ASSUME NEW a \in Nominees, TransferAdmin(a) PROVE Sound
    <3>1. a \in Account
      BY TokenAssumption
    <3>2. QED
      BY <2>3, <3>1, QuietSound DEF TransferAdmin, AccountsOK
  <2>4. ASSUME AcceptAdmin PROVE Sound
    <3>1. admin' = pendingAdmin /\ pendingAdmin # NoOne /\ pendingAdmin' = NoOne
      BY <2>4 DEF AcceptAdmin
    <3>2. QED
      BY <2>4, <3>1, QuietSound DEF AcceptAdmin, AccountsOK
  <2>5. ASSUME CancelAdminTransfer PROVE Sound
    BY <2>5, QuietSound DEF CancelAdminTransfer, AccountsOK
  <2>6. QED
    BY <1>1, <2>1, <2>2, <2>3, <2>4, <2>5 DEF Administer
<1>2. CASE Hold
  <2>1. ASSUME NEW a \in Account, NEW b \in Account, NEW n \in Amounts, Transfer(a, b, n)
        PROVE  Sound
    BY <2>1, MoveSound DEF Transfer
  <2>2. ASSUME NEW a \in Account, NEW n \in Amounts, Burn(a, n) PROVE Sound
    BY <2>2, DestroySound DEF Burn
  <2>3. ASSUME NEW a \in Delegators, NEW b \in Account, Delegate(a, b) PROVE Sound
    <3>1. a \in Account
      BY TokenAssumption
    <3>2. QED
      BY <2>3, <3>1, DelegateSound
  <2>4. ASSUME NEW a \in Account, NEW n \in Amounts, NEW d \in Durations, Stake(a, n, d)
        PROVE  Sound
    BY <2>4, StakeSound
  <2>5. ASSUME NEW a \in Account, Unstake(a) PROVE Sound
    BY <2>5, UnstakeSound
  <2>6. QED
    BY <1>2, <2>1, <2>2, <2>3, <2>4, <2>5 DEF Hold
<1>3. CASE SpendForOthers
  <2>1. ASSUME NEW o \in Account, NEW s \in Spenders, NEW n, NEW e, Approve(o, s, n, e)
        PROVE  Sound
    BY <2>1, QuietSound DEF Approve, AccountsOK, roles
  <2>2. ASSUME NEW s \in Spenders, NEW a \in Account, NEW b \in Account, NEW n \in Amounts,
               TransferFrom(s, a, b, n)
        PROVE  Sound
    BY <2>2, MoveSound DEF TransferFrom
  <2>3. ASSUME NEW s \in Spenders, NEW a \in Account, NEW n \in Amounts, BurnFrom(s, a, n)
        PROVE  Sound
    BY <2>3, DestroySound DEF BurnFrom
  <2>4. QED
    BY <1>3, <2>1, <2>2, <2>3 DEF SpendForOthers
<1>4. CASE CloseLedger
  BY <1>4, CloseSound
<1>5. CASE UNCHANGED vars
  BY <1>5, QuietSound DEF vars, roles, AccountsOK
<1>6. QED
  BY <1>1, <1>2, <1>3, <1>4, <1>5 DEF Next

LEMMA EmptySane ==
  ASSUME NEW E, NEW now
  PROVE  Sane(<< >>, E, now)
  BY DEF Sane

(* So is the contract before initialize.                                   *)
LEMMA InitSound ==
  ASSUME Init
  PROVE  AccountsOK /\ LocksOK
<1>1. \A at : ValueAt(<< >>, at) = 0
  BY EmptyAnswer
<1>2. BooksOK(Books)
  <2>1. Books \in Book
    BY Widths DEF Init, Books, Book
  <2>2. ASSUME NEW a \in Account
        PROVE  /\ Books.checkpoints[a] = << >> /\ Books.votes[a] = << >>
               /\ Books.balance[a] = 0
    BY DEF Init, Books
  <2>3. QED
    BY <1>1, <2>1, <2>2, EmptySane DEF BooksOK, IsHistory
<1>3. AccountsOK
  BY <1>1, <1>2, EmptySane, Widths DEF AccountsOK, Init, IsHistory
<1>4. LocksOK
  <2>1. locks \in [Account -> Seq(LockEntry)] /\ \A a \in Account : locks[a] = << >>
    BY DEF Init
  <2>2. ASSUME NEW a \in Account PROVE Locked(a) = 0 /\ balance[a] = 0
    BY <2>1 DEF Init, Locked, CurrentLock, NoLock
  <2>3. QED
    BY <2>1, <2>2, EmptySane DEF LocksOK, LockedStaysInBalance
<1>5. QED
  BY <1>3, <1>4

(***************************************************************************)
(* Allowances.                                                             *)
(***************************************************************************)

(* An approval starts a new account of what may be drawn.                  *)
LEMMA ApproveOK ==
  ASSUME AllowancesOK, NEW o \in Account, NEW s \in Spenders, NEW n \in Amounts \cup {0},
         NEW e \in 0 .. MaxLedger, Approve(o, s, n, e)
  PROVE  AllowancesOK'
<1> DEFINE approval == [amount |-> n, expiration |-> e]
<1>1. n \in Amount /\ e \in Sequence
  BY TokenAssumption, Widths DEF Amount, Sequence
<1>2. /\ allowance' = [allowance EXCEPT ![o][s] = approval]
      /\ granted' = [granted EXCEPT ![o][s] = approval]
      /\ drawn' = [drawn EXCEPT ![o][s] = 0]
  BY DEF Approve
<1>3. allowance' \in Approvals /\ granted' \in Approvals
  BY <1>1, <1>2 DEF AllowancesOK, Approvals
<1>4. drawn' \in [Account -> [Spenders -> Amount]]
  BY <1>2, Widths DEF AllowancesOK
<1>5. AllowanceAccounted'
  <2> SUFFICES ASSUME NEW x \in Account, NEW y \in Spenders
               PROVE  /\ allowance'[x][y].amount + drawn'[x][y] = granted'[x][y].amount
                      /\ allowance'[x][y].expiration = granted'[x][y].expiration
    BY DEF AllowanceAccounted
  <2>1. CASE x = o /\ y = s
    <3>1. allowance'[x][y] = approval /\ granted'[x][y] = approval /\ drawn'[x][y] = 0
      BY <1>2, <2>1 DEF AllowancesOK, Approvals
    <3>2. n + 0 = n
      BY <1>1 DEF Amount
    <3>3. QED
      BY <3>1, <3>2
  <2>2. CASE ~(x = o /\ y = s)
    <3>1. /\ allowance'[x][y] = allowance[x][y] /\ granted'[x][y] = granted[x][y]
          /\ drawn'[x][y] = drawn[x][y]
      BY <1>2, <2>2 DEF AllowancesOK, Approvals
    <3>2. QED
      BY <3>1 DEF AllowancesOK, AllowanceAccounted
  <2>3. QED
    BY <2>1, <2>2
<1>6. QED
  BY <1>3, <1>4, <1>5 DEF AllowancesOK

(* A draw takes what it adds to the spender's account of it, and only from *)
(* an approval still in force.                                             *)
LEMMA DrawOK ==
  ASSUME AllowancesOK, ledger \in Nat, NEW o \in Account, NEW s \in Spenders,
         NEW n \in Amounts, LiveAllowance(o, s) >= n, Draw(o, s, n)
  PROVE  /\ AllowancesOK'
         /\ ledger <= granted[o][s].expiration
         /\ \A x \in Account, y \in Spenders :
              ~(x = o /\ y = s) => drawn'[x][y] = drawn[x][y]
<1>1. n \in Nat /\ n > 0
  BY TokenAssumption
<1>2. /\ allowance[o][s].amount \in Amount /\ granted[o][s].amount \in Amount
      /\ allowance[o][s].expiration \in Sequence
      /\ drawn[o][s] \in Amount
      /\ allowance[o][s].amount + drawn[o][s] = granted[o][s].amount
      /\ allowance[o][s].expiration = granted[o][s].expiration
  BY DEF AllowancesOK, Approvals, AllowanceAccounted
<1>3. allowance[o][s].expiration >= ledger /\ allowance[o][s].amount >= n
  BY <1>1 DEF LiveAllowance
<1>4. /\ allowance[o][s].amount - n \in Amount /\ drawn[o][s] + n \in Amount
      /\ (allowance[o][s].amount - n) + (drawn[o][s] + n) = granted[o][s].amount
  BY <1>1, <1>2, <1>3, Widths DEF Amount
<1>5. /\ allowance' = [allowance EXCEPT ![o][s].amount = @ - n]
      /\ drawn' = [drawn EXCEPT ![o][s] = @ + n]
      /\ granted' = granted
  BY DEF Draw
<1> DEFINE left == [amount |-> allowance[o][s].amount - n,
                    expiration |-> allowance[o][s].expiration]
<1>6. /\ allowance' \in Approvals
      /\ allowance'[o][s].amount = allowance[o][s].amount - n
      /\ allowance'[o][s].expiration = allowance[o][s].expiration
      /\ \A x \in Account, y \in Spenders :
           ~(x = o /\ y = s) => allowance'[x][y] = allowance[x][y]
  <2>1. allowance[o][s] \in [amount : Amount, expiration : Sequence]
    BY DEF AllowancesOK, Approvals
  <2>2. left = [allowance[o][s] EXCEPT !.amount = @ - n]
    BY <2>1
  <2>3. allowance' = [allowance EXCEPT ![o][s] = left]
    BY <1>5, <2>2
  <2>4. left \in [amount : Amount, expiration : Sequence]
    BY <1>2, <1>4
  <2>5. /\ left.amount = allowance[o][s].amount - n
        /\ left.expiration = allowance[o][s].expiration
    OBVIOUS
  <2> HIDE DEF left
  <2>6. /\ allowance' \in Approvals
        /\ allowance'[o][s] = left
        /\ \A x \in Account, y \in Spenders :
             ~(x = o /\ y = s) => allowance'[x][y] = allowance[x][y]
    BY <2>3, <2>4 DEF AllowancesOK, Approvals
  <2>7. QED
    BY <2>5, <2>6
<1>7. /\ drawn' \in [Account -> [Spenders -> Amount]]
      /\ drawn'[o][s] = drawn[o][s] + n
      /\ \A x \in Account, y \in Spenders :
           ~(x = o /\ y = s) => drawn'[x][y] = drawn[x][y]
  BY <1>4, <1>5 DEF AllowancesOK
<1>8. AllowanceAccounted'
  <2> SUFFICES ASSUME NEW x \in Account, NEW y \in Spenders
               PROVE  /\ allowance'[x][y].amount + drawn'[x][y] = granted'[x][y].amount
                      /\ allowance'[x][y].expiration = granted'[x][y].expiration
    BY DEF AllowanceAccounted
  <2>1. CASE x = o /\ y = s
    BY <1>2, <1>4, <1>5, <1>6, <1>7, <2>1
  <2>2. CASE ~(x = o /\ y = s)
    BY <1>5, <1>6, <1>7, <2>2 DEF AllowancesOK, AllowanceAccounted
  <2>3. QED
    BY <2>1, <2>2
<1>9. AllowancesOK'
  BY <1>5, <1>6, <1>7, <1>8 DEF AllowancesOK
<1>10. ledger <= granted[o][s].expiration
  BY <1>2, <1>3, Widths DEF Sequence
<1>11. QED
  BY <1>7, <1>9, <1>10

(* Nothing was drawn from a lapsed approval.                               *)
NotLapsed ==
  \A o \in Account, s \in Spenders :
    drawn'[o][s] > drawn[o][s] => ledger <= granted[o][s].expiration

LEMMA AllowancesStay ==
  ASSUME AllowancesOK, UNCHANGED approvals
  PROVE  AllowancesOK' /\ NotLapsed
<1>1. AllowancesOK'
  BY DEF AllowancesOK, AllowanceAccounted, approvals
<1>2. \A o \in Account, s \in Spenders : drawn'[o][s] = drawn[o][s] /\ drawn[o][s] \in Nat
  BY Widths DEF AllowancesOK, approvals
<1>3. NotLapsed
  BY <1>2 DEF NotLapsed
<1>4. QED
  BY <1>1, <1>3

LEMMA AllowancesStep ==
  ASSUME AllowancesOK, ledger \in Nat, [Next]_vars
  PROVE  AllowancesOK' /\ NotLapsed
<1>0. \A o \in Account, s \in Spenders : drawn[o][s] \in Nat
  BY Widths DEF AllowancesOK
<1>1. ASSUME NEW o \in Account, NEW s \in Spenders, NEW n \in Amounts \cup {0},
             NEW e \in 0 .. MaxLedger, Approve(o, s, n, e)
      PROVE  AllowancesOK' /\ NotLapsed
  <2>1. AllowancesOK'
    BY <1>1, ApproveOK
  <2>2. \A x \in Account, y \in Spenders :
          drawn'[x][y] = drawn[x][y] \/ drawn'[x][y] = 0
    BY <1>1 DEF Approve, AllowancesOK
  <2>3. NotLapsed
    BY <1>0, <2>2 DEF NotLapsed
  <2>4. QED
    BY <2>1, <2>3
<1>2. ASSUME NEW o \in Account, NEW s \in Spenders, NEW n \in Amounts,
             LiveAllowance(o, s) >= n, Draw(o, s, n)
      PROVE  AllowancesOK' /\ NotLapsed
  <2>1. /\ AllowancesOK'
        /\ ledger <= granted[o][s].expiration
        /\ \A x \in Account, y \in Spenders :
             ~(x = o /\ y = s) => drawn'[x][y] = drawn[x][y]
    BY <1>2, DrawOK
  <2>2. NotLapsed
    BY <1>0, <2>1 DEF NotLapsed
  <2>3. QED
    BY <2>1, <2>2
<1>3. CASE UNCHANGED approvals
  BY <1>3, AllowancesStay
<1>4. CASE Administer
  BY <1>3, <1>4 DEF Administer, Initialize, Mint, TransferAdmin, AcceptAdmin, CancelAdminTransfer
<1>5. CASE Hold
  BY <1>3, <1>5 DEF Hold, Transfer, Burn, Delegate, Stake, Unstake
<1>6. CASE SpendForOthers
  BY <1>1, <1>2, <1>6 DEF SpendForOthers, TransferFrom, BurnFrom
<1>7. CASE CloseLedger
  BY <1>3, <1>7 DEF CloseLedger
<1>8. CASE UNCHANGED vars
  BY <1>3, <1>8 DEF vars
<1>9. QED
  BY <1>4, <1>5, <1>6, <1>7, <1>8 DEF Next

LEMMA InitAllowances ==
  ASSUME Init
  PROVE  AllowancesOK
<1>1. /\ allowance \in Approvals /\ granted = allowance
      /\ drawn \in [Account -> [Spenders -> Amount]]
      /\ \A o \in Account, s \in Spenders :
           allowance[o][s].amount = 0 /\ drawn[o][s] = 0
  BY Widths DEF Init, Approvals, NoAllowance
<1>2. AllowanceAccounted
  BY <1>1 DEF AllowanceAccounted
<1>3. QED
  BY <1>1, <1>2 DEF AllowancesOK

(***************************************************************************)
(* The theorems.                                                           *)
(***************************************************************************)

(* The inductive invariant of accounts and stakes.                         *)
THEOREM TokenSound == Spec => [](AccountsOK /\ LocksOK)
<1>1. Init => AccountsOK /\ LocksOK
  BY InitSound
<1>2. AccountsOK /\ LocksOK /\ [Next]_vars => (AccountsOK /\ LocksOK)'
  BY StepSound DEF Sound
<1>3. QED
  BY <1>1, <1>2, PTL DEF Spec

(* The inductive invariant of allowances; a draw needs the ledger a number.*)
THEOREM ApprovalsSound == Spec => []AllowancesOK
<1>1. Init => AllowancesOK
  BY InitAllowances
<1>2. AccountsOK /\ AllowancesOK /\ [Next]_vars => AllowancesOK'
  BY AllowancesStep, Widths DEF AccountsOK
<1>3. QED
  BY <1>1, <1>2, TokenSound, PTL DEF Spec

(* Every value the contract keeps fits its type: amounts never leave the   *)
(* i128 and ledgers never leave the u32, in live state or in histories.    *)
THEOREM TokenTypeOK == Spec => []TypeOK
<1>1. AccountsOK /\ LocksOK /\ AllowancesOK => TypeOK
  <2> SUFFICES ASSUME AccountsOK, LocksOK, AllowancesOK PROVE TypeOK
    OBVIOUS
  <2>1. Books \in Book
    BY DEF AccountsOK, BooksOK
  <2>2. /\ balance \in [Account -> Amount]
        /\ checkpoints \in [Account -> Seq(Checkpoint)]
        /\ voteCheckpoints \in [Account -> Seq(Checkpoint)]
    BY <2>1 DEF Books, Book
  <2>3. supplyCheckpoints \in Seq(Checkpoint)
    BY DEF AccountsOK, IsHistory, Sane
  <2>4. QED
    BY <2>2, <2>3 DEF TypeOK, AccountsOK, LocksOK, AllowancesOK, Approvals
<1>2. QED
  BY <1>1, TokenSound, ApprovalsSound, PTL

(* Every history stays in ledger order with one entry per ledger and none  *)
(* from the future: the precondition of value_at's and lock_before's       *)
(* binary searches holds whenever a view or a call searches.               *)
THEOREM SearchesAreSafe == Spec => []HistoriesOrdered
<1>1. ASSUME NEW E, NEW h, Sane(h, E, ledger), ledger \in Nat PROVE Ordered(h)
  BY <1>1 DEF Sane, Ordered
<1>2. AccountsOK /\ LocksOK => HistoriesOrdered
  <2> SUFFICES ASSUME AccountsOK, LocksOK PROVE HistoriesOrdered
    OBVIOUS
  <2>1. ledger \in Nat
    BY Numbers
  <2>2. Ordered(supplyCheckpoints)
    BY <1>1, <2>1 DEF AccountsOK, IsHistory
  <2>3. ASSUME NEW a \in Account
        PROVE  Ordered(checkpoints[a]) /\ Ordered(voteCheckpoints[a]) /\ Ordered(locks[a])
    <3>1. Sane(checkpoints[a], Checkpoint, ledger) /\ Sane(voteCheckpoints[a], Checkpoint, ledger)
      BY DEF AccountsOK, BooksOK, Books, IsHistory
    <3>2. Sane(locks[a], LockEntry, ledger)
      BY DEF LocksOK
    <3>3. QED
      BY <1>1, <2>1, <3>1, <3>2
  <2>4. QED
    BY <2>2, <2>3 DEF HistoriesOrdered
<1>3. QED
  BY <1>2, TokenSound, PTL

(* No call changes a balance or the supply without its checkpoint: the     *)
(* histories, read for the open ledger, give the live values.              *)
THEOREM LiveValuesAreRecorded == Spec => []LiveIsRecorded
<1>1. AccountsOK => LiveIsRecorded
  BY DEF AccountsOK, LiveIsRecorded, PastSupply, PastBalance, BooksOK, Books
<1>2. QED
  BY <1>1, TokenSound, PTL

(* Staked tokens stay with their owner whatever is transferred, burned or  *)
(* drawn: each spending path respects spendable_balance.                   *)
THEOREM StakesStay == Spec => []LockedStaysInBalance
<1>1. LocksOK => LockedStaysInBalance
  BY DEF LocksOK
<1>2. QED
  BY <1>1, TokenSound, PTL

(* No spender draws more than the last approval granted, nor changes its   *)
(* expiration.                                                             *)
THEOREM AllowancesAddUp == Spec => []AllowanceAccounted
<1>1. AllowancesOK => AllowanceAccounted
  BY DEF AllowancesOK
<1>2. QED
  BY <1>1, ApprovalsSound, PTL

(* transfer_from and burn_from draw nothing from an approval that lapsed.  *)
THEOREM LapsedStaysUndrawn == Spec => LapsedIsNotDrawn
<1>1. AccountsOK /\ AllowancesOK /\ [Next]_vars => NotLapsed
  BY AllowancesStep, Widths DEF AccountsOK
<1>2. NotLapsed => \A o \in Account, s \in Spenders :
        drawn'[o][s] > drawn[o][s] => ledger <= granted[o][s].expiration
  BY DEF NotLapsed
<1>3. QED
  BY <1>1, <1>2, TokenSound, ApprovalsSound, PTL DEF Spec, LapsedIsNotDrawn

(* The ledgers kept after a step were kept before it.                      *)
LEMMA WindowMoves ==
  ASSUME AccountsOK, LocksOK, [Next]_vars
  PROVE  Cutoff(ledger, Retention) <= Cutoff(ledger', Retention)
         /\ Cutoff(ledger, Retention) \in Nat /\ Cutoff(ledger', Retention) \in Nat
         /\ ledger \in Nat /\ ledger' \in Nat
<1>1. ledger \in Nat
  BY Numbers
<1>2. ledger' = ledger \/ ledger' = ledger + 1
  BY DEF Next, Administer, Hold, SpendForOthers, CloseLedger, vars, Initialize, Mint,
         TransferAdmin, AcceptAdmin, CancelAdminTransfer, Transfer, Burn, Delegate, Stake,
         Unstake, Approve, TransferFrom, BurnFrom
<1>3. ledger + 1 \in Nat
  BY <1>1
<1>4. QED
  BY <1>1, <1>2, <1>3, CutoffType, CutoffGrows

LEMMA CutoffBelow ==
  ASSUME NEW now \in Nat, NEW retention \in Nat, NEW at \in Nat, now <= at + retention
  PROVE  Cutoff(now, retention) \in Nat /\ Cutoff(now, retention) <= at
BY DEF Cutoff

LEMMA SettledStep ==
  ASSUME AccountsOK, LocksOK, [Next]_vars,
         NEW at \in Cutoff(ledger', Retention) .. ledger - 1, NEW a \in Account
  PROVE  /\ PastVotes(a, at)' = PastVotes(a, at)
         /\ PastBalance(a, at)' = PastBalance(a, at)
         /\ PastSupply(at)' = PastSupply(at)
<1>1. Sound
  BY StepSound
<1>2. /\ Cutoff(ledger, Retention) <= Cutoff(ledger', Retention)
      /\ Cutoff(ledger, Retention) \in Nat /\ Cutoff(ledger', Retention) \in Nat
      /\ ledger \in Nat
  BY WindowMoves, Numbers
<1>3. at \in Closed /\ at \in Cutoff(ledger, Retention) .. ledger
  BY <1>2 DEF Closed
<1>4. /\ PastBalance(a, at)' = PastBalance(a, at)
      /\ PastDelegatedVotes(a, at)' = PastDelegatedVotes(a, at)
      /\ PastSupply(at)' = PastSupply(at)
  BY <1>1, <1>3 DEF Sound, AccountsSettled, SupplySettled
<1>5. LockBoost(a, at)' = LockBoost(a, at)
  BY <1>1, <1>3 DEF Sound, BoostsSettled
<1>6. PastVotes(a, at)' = PastVotes(a, at)
  BY <1>4, <1>5 DEF PastVotes
<1>7. QED
  BY <1>4, <1>6

(* A closed ledger's votes, balances and supply never change while it is   *)
(* in the retention window, whatever is transferred, minted, burned,       *)
(* delegated, staked or pruned afterwards: a proposal's snapshot is final. *)
THEOREM SnapshotsAreFinal == Spec => PastIsSettled
<1>1. AccountsOK /\ LocksOK /\ [Next]_vars
        => \A at \in Cutoff(ledger', Retention) .. ledger - 1, a \in Account :
             /\ PastVotes(a, at)' = PastVotes(a, at)
             /\ PastBalance(a, at)' = PastBalance(a, at)
             /\ PastSupply(at)' = PastSupply(at)
  BY SettledStep
<1>2. QED
  BY <1>1, TokenSound, PTL DEF Spec, PastIsSettled

(* A proposal with the snapshot ledger at votes in the ledgers at + 1 to   *)
(* at + 1 + period.  If the period is shorter than the retention ("if      *)
(* governance is configured with a longer voting_period, raise it"), every *)
(* vote reads the same weights, whenever it is cast.                       *)
THEOREM WeightsStandWhileVoting ==
  ASSUME NEW at \in Nat, NEW period \in Nat, period < Retention
  PROVE  Spec => [][at < ledger /\ ledger' <= at + 1 + period =>
                      \A a \in Account : PastVotes(a, at)' = PastVotes(a, at)]_vars
<1> DEFINE Stands == at < ledger /\ ledger' <= at + 1 + period =>
                       \A a \in Account : PastVotes(a, at)' = PastVotes(a, at)
<1>1. AccountsOK /\ LocksOK /\ [Next]_vars => Stands
  <2> SUFFICES ASSUME AccountsOK, LocksOK, [Next]_vars,
                      at < ledger, ledger' <= at + 1 + period, NEW a \in Account
               PROVE  PastVotes(a, at)' = PastVotes(a, at)
    OBVIOUS
  <2>1. ledger \in Nat /\ ledger' \in Nat /\ Retention \in Nat
    BY WindowMoves, TokenAssumption
  <2>2. Cutoff(ledger', Retention) \in Nat /\ Cutoff(ledger', Retention) <= at
    BY <2>1, CutoffBelow
  <2>3. at \in Cutoff(ledger', Retention) .. ledger - 1
    BY <2>1, <2>2
  <2>4. QED
    BY <2>3, SettledStep
<1>2. QED
  BY <1>1, TokenSound, PTL DEF Spec

(* A stake or an unstake changes no boost of the open ledger or of a       *)
(* closed one: the weight a proposal's snapshot gives is settled when the  *)
(* proposal is created.                                                    *)
THEOREM BoostsAreFinal == Spec => BoostIsSettled
<1>1. ASSUME AccountsOK, LocksOK, [Next]_vars
      PROVE  \A at \in Cutoff(ledger', Retention) .. ledger, a \in Account :
               LockBoost(a, at)' = LockBoost(a, at)
  <2> SUFFICES ASSUME NEW at \in Cutoff(ledger', Retention) .. ledger, NEW a \in Account
               PROVE  LockBoost(a, at)' = LockBoost(a, at)
    OBVIOUS
  <2>1. Sound
    BY <1>1, StepSound
  <2>2. /\ Cutoff(ledger, Retention) <= Cutoff(ledger', Retention)
        /\ Cutoff(ledger, Retention) \in Nat /\ Cutoff(ledger', Retention) \in Nat
        /\ ledger \in Nat
    BY <1>1, WindowMoves, Numbers
  <2>3. at \in Cutoff(ledger, Retention) .. ledger
    BY <2>2
  <2>4. QED
    BY <2>1, <2>3 DEF Sound, BoostsSettled
<1>2. QED
  BY <1>1, TokenSound, PTL DEF Spec, BoostIsSettled

(***************************************************************************)
(* A boost needs the tokens.                                               *)
(***************************************************************************)

(* Locks end within the longest duration of the ledger they were recorded  *)
(* in ...                                                                  *)
LockSpan == {e \in LockEntry : e.unlock <= e.ledger + MaxLock}
SpansOK  == \A a \in Account : Sane(locks[a], LockSpan, ledger)

(* ... and one that gives a boost in the open ledger is still in force: it *)
(* can be released, or replaced, only once it gives none.                  *)
StillLocked(a) ==
  LET lock == LockBefore(locks[a], ledger)
  IN  lock.amount > 0 /\ ledger < lock.unlock => CurrentLock(locks[a]) = lock
HeldBack == \A a \in Account : StillLocked(a)

(* Boosts of closed ledgers were covered by the balances of their ledgers. *)
ClosedCovered == \A a \in Account, at \in Closed : LockBoost(a, at) <= PastBalance(a, at)

LEMMA LockNumbers ==
  ASSUME SpansOK, ledger \in Nat, NEW a \in Account, NEW at \in Nat,
         NEW lock, lock = LockBefore(locks[a], at)
  PROVE  /\ LockBoost(a, at) \in Nat /\ LockBoost(a, at) <= lock.amount
         /\ LockBoost(a, at) # 0 => lock.amount > 0 /\ at < lock.unlock
<1>1. MaxLock \in Nat \ {0}
  BY TokenAssumption
<1>2. lock = NoLock \/ (lock \in LockSpan /\ lock.ledger < at)
  BY LockBeforeIs DEF SpansOK
<1>3. lock.amount \in Nat /\ lock.unlock \in Nat /\ lock.unlock <= at + MaxLock
  <2>1. CASE lock = NoLock
    BY <1>1, <2>1 DEF NoLock
  <2>2. CASE lock \in LockSpan /\ lock.ledger < at
    <3>1. /\ lock.amount \in Amount /\ lock.unlock \in Sequence /\ lock.ledger \in Sequence
          /\ lock.unlock <= lock.ledger + MaxLock
      BY <2>2 DEF LockSpan, LockEntry
    <3> DEFINE amount == lock.amount
               unlock == lock.unlock
               made   == lock.ledger
    <3>2. amount \in Nat /\ unlock \in Nat /\ made \in Nat
      BY <3>1, Widths
    <3>3. unlock <= made + MaxLock /\ made < at
      BY <2>2, <3>1
    <3>4. unlock <= at + MaxLock
      <4> HIDE DEF unlock, made
      <4>1. QED
        BY <1>1, <3>2, <3>3
    <3>5. QED
      BY <3>2, <3>4
  <2>3. QED
    BY <1>2, <2>1, <2>2
<1>4. QED
  BY <1>1, <1>3, BoostBounded DEF LockBoost

(* The open ledger's boost is covered by the balance.                      *)
LEMMA OpenCovered ==
  ASSUME AccountsOK, LocksOK, SpansOK, HeldBack, NEW a \in Account
  PROVE  LockBoost(a, ledger) <= PastBalance(a, ledger)
<1> DEFINE lock == LockBefore(locks[a], ledger)
<1>1. PastBalance(a, ledger) = balance[a] /\ balance[a] \in Nat /\ ledger \in Nat
  BY Numbers, Widths DEF PastBalance, BooksOK, Books
<1>2. /\ LockBoost(a, ledger) \in Nat /\ LockBoost(a, ledger) <= lock.amount
      /\ LockBoost(a, ledger) # 0 => lock.amount > 0 /\ ledger < lock.unlock
  BY <1>1, LockNumbers
<1>3. LockBoost(a, ledger) # 0 => Locked(a) = lock.amount
  BY <1>2 DEF HeldBack, StillLocked, Locked
<1>4. Locked(a) <= balance[a] /\ Locked(a) \in Nat
  BY Numbers, Widths
<1> HIDE DEF lock
<1>5. QED
  BY <1>1, <1>2, <1>3, <1>4

(* What a lock record does: the newest lock of this ledger hides nothing   *)
(* that still gave a boost.                                                *)
LEMMA RecordHolds ==
  ASSUME AccountsOK, LocksOK, SpansOK, HeldBack, NEW a \in Account, NEW amount \in Amount,
         NEW unlock \in Sequence, unlock <= ledger + MaxLock,
         RecordLock(a, amount, unlock), ledger' = ledger,
         LET lock == LockBefore(locks[a], ledger)
         IN  ~(lock.amount > 0 /\ ledger < lock.unlock)
  PROVE  SpansOK' /\ HeldBack'
<1> DEFINE e == [ledger |-> ledger, amount |-> amount, unlock |-> unlock]
           w == Prune(Record(locks[a], e), Cutoff(ledger, Retention))
<1>1. ledger \in Nat /\ Cutoff(ledger, Retention) \in Nat /\ Cutoff(ledger, Retention) <= ledger
  BY Numbers, CutoffType
<1>2. e \in LockSpan /\ Dated(e, ledger)
  BY Numbers DEF LockSpan, LockEntry, Dated
<1>3. locks' = [locks EXCEPT ![a] = w]
  BY DEF RecordLock
<1> HIDE DEF e
<1>4. Sane(locks[a], LockSpan, ledger)
  BY DEF SpansOK
<1>5. Sane(w, LockSpan, ledger)
  BY <1>1, <1>2, <1>4, WriteShape
<1>6. LockBefore(w, ledger) = LockBefore(locks[a], ledger)
  <2>1. SameAnswer(w, locks[a], ledger, TRUE)
    BY <1>1, <1>2, <1>4, WriteAnswers
  <2>2. QED
    BY <2>1, SameLock
<1> HIDE DEF w
<1>7. /\ locks'[a] = w
      /\ \A x \in Account \ {a} : locks'[x] = locks[x]
  BY <1>3 DEF LocksOK
<1>8. ASSUME NEW x \in Account PROVE Sane(locks'[x], LockSpan, ledger) /\ StillLocked(x)'
  <2>1. CASE x = a
    BY <1>5, <1>6, <1>7, <2>1 DEF StillLocked
  <2>2. CASE x # a
    BY <1>7, <2>2 DEF SpansOK, HeldBack, StillLocked
  <2>3. QED
    BY <2>1, <2>2
<1>9. QED
  BY <1>8 DEF SpansOK, HeldBack

LEMMA StakeHolds ==
  ASSUME AccountsOK, LocksOK, SpansOK, HeldBack, NEW a \in Account, NEW amount \in Amounts,
         NEW duration \in Durations, Stake(a, amount, duration)
  PROVE  SpansOK' /\ HeldBack'
<1> DEFINE lock == LockBefore(locks[a], ledger)
<1>1. /\ amount \in Amount /\ ledger + duration \in Sequence
      /\ ledger + duration <= ledger + MaxLock
  <2>1. /\ ledger \in Nat /\ duration \in Nat /\ ledger + duration <= MaxSequence
        /\ duration <= MaxLock
    BY Numbers, TokenAssumption DEF Stake
  <2>2. QED
    BY <2>1, TokenAssumption DEF Amount, Sequence
<1>2. ~(lock.amount > 0 /\ ledger < lock.unlock)
  <2>1. CurrentLock(locks[a]) = NoLock
    BY DEF Stake
  <2>2. ~(NoLock.amount > 0)
    BY DEF NoLock
  <2>3. QED
    BY <2>1, <2>2 DEF HeldBack, StillLocked
<1>3. RecordLock(a, amount, ledger + duration) /\ ledger' = ledger
  BY DEF Stake
<1>4. QED
  BY <1>1, <1>2, <1>3, RecordHolds

LEMMA UnstakeHolds ==
  ASSUME AccountsOK, LocksOK, SpansOK, HeldBack, NEW a \in Account, Unstake(a)
  PROVE  SpansOK' /\ HeldBack'
<1> DEFINE lock == CurrentLock(locks[a])
           before == LockBefore(locks[a], ledger)
<1>1. lock.unlock \in Sequence /\ ledger \in Nat /\ MaxLock \in Nat
  <2>1. lock \in LockEntry
    BY LockType DEF LocksOK
  <2>2. QED
    BY <2>1, Numbers, TokenAssumption DEF LockEntry
<1>2. ledger >= lock.unlock /\ RecordLock(a, 0, lock.unlock) /\ ledger' = ledger
  BY DEF Unstake
<1>3. before.amount > 0 /\ ledger < before.unlock => lock = before
  BY DEF HeldBack, StillLocked
<1>4. 0 \in Amount
  BY Widths
<1>5. RecordLock(a, 0, lock.unlock) /\ ledger' = ledger /\ ledger >= lock.unlock
  BY <1>2
<1> DEFINE unlock == lock.unlock
<1>6. unlock \in Nat /\ unlock \in Sequence
  BY <1>1, Widths
<1>7. unlock <= ledger + MaxLock /\ ~(ledger < unlock)
  <2> HIDE DEF unlock
  <2>1. ledger >= unlock
    BY <1>5 DEF unlock
  <2>2. QED
    BY <1>1, <1>6, <2>1
<1>8. ~(before.amount > 0 /\ ledger < before.unlock)
  BY <1>3, <1>7
<1>9. QED
  BY <1>4, <1>5, <1>6, <1>7, <1>8, RecordHolds

LEMMA CloseHolds ==
  ASSUME AccountsOK, LocksOK, SpansOK, CloseLedger
  PROVE  SpansOK' /\ HeldBack'
<1>1. ledger \in Nat /\ ledger' = ledger + 1 /\ locks' = locks
  BY Numbers DEF CloseLedger
<1>2. ASSUME NEW a \in Account
      PROVE  Sane(locks[a], LockSpan, ledger + 1) /\ StillLocked(a)'
  <2>1. Sane(locks[a], LockSpan, ledger)
    BY DEF SpansOK
  <2>2. Sane(locks[a], LockSpan, ledger + 1) /\ ledger + 1 \in Nat
    BY <1>1, <2>1, HistoryGoesOn
  <2>3. CASE locks[a] # << >>
    <3>1. LockBefore(locks[a], ledger + 1) = locks[a][Len(locks[a])]
      BY <1>1, <2>1, <2>3, NewestBefore
    <3>2. QED
      BY <1>1, <2>2, <2>3, <3>1 DEF StillLocked, CurrentLock
  <2>4. CASE locks[a] = << >>
    <3>1. LockBefore(locks[a], ledger + 1) = NoLock
      <4> DEFINE i == LastUpTo(locks[a], ledger + 1, TRUE)
      <4>1. i \in 0 .. Len(locks[a])
        BY <2>2, LastUpToIs
      <4> HIDE DEF i
      <4>2. i = 0
        BY <2>4, <4>1
      <4>3. QED
        BY <4>2 DEF LockBefore, i
    <3>2. QED
      BY <1>1, <2>2, <3>1 DEF StillLocked, NoLock
  <2>5. QED
    BY <2>3, <2>4
<1>3. QED
  BY <1>1, <1>2 DEF SpansOK, HeldBack

LEMMA HoldsStep ==
  ASSUME AccountsOK, LocksOK, SpansOK, HeldBack, [Next]_vars
  PROVE  SpansOK' /\ HeldBack'
<1>1. ASSUME NEW a \in Account, NEW n \in Amounts, NEW d \in Durations, Stake(a, n, d)
      PROVE  SpansOK' /\ HeldBack'
  BY <1>1, StakeHolds
<1>2. ASSUME NEW a \in Account, Unstake(a)
      PROVE  SpansOK' /\ HeldBack'
  BY <1>2, UnstakeHolds
<1>3. CASE CloseLedger
  BY <1>3, CloseHolds
<1>4. CASE UNCHANGED <<ledger, locks>>
  BY <1>4 DEF SpansOK, HeldBack, StillLocked
<1>5. \/ \E a \in Account, n \in Amounts, d \in Durations : Stake(a, n, d)
      \/ \E a \in Account : Unstake(a)
      \/ CloseLedger
      \/ UNCHANGED <<ledger, locks>>
  BY DEF Next, Administer, Hold, SpendForOthers, vars, Initialize, Mint, TransferAdmin,
         AcceptAdmin, CancelAdminTransfer, Transfer, Burn, Delegate, Approve, TransferFrom,
         BurnFrom
<1>6. QED
  BY <1>1, <1>2, <1>3, <1>4, <1>5

LEMMA HoldsInit ==
  ASSUME Init
  PROVE  SpansOK /\ HeldBack /\ ClosedCovered
<1>1. ledger = 1 /\ \A a \in Account : locks[a] = << >> /\ checkpoints[a] = << >>
  BY DEF Init
<1>2. SpansOK
  BY <1>1, EmptySane DEF SpansOK
<1>3. ASSUME NEW a \in Account, NEW at \in Nat
      PROVE  LockBefore(locks[a], at) = NoLock /\ LockBoost(a, at) = 0
  <2> DEFINE i == LastUpTo(locks[a], at, TRUE)
  <2>1. Sane(locks[a], LockSpan, ledger)
    BY <1>2 DEF SpansOK
  <2>2. i \in 0 .. Len(locks[a])
    BY <1>1, <2>1, LastUpToIs
  <2> HIDE DEF i
  <2>3. i = 0
    BY <1>1, <2>2
  <2>4. LockBefore(locks[a], at) = NoLock
    BY <2>3 DEF LockBefore, i
  <2>5. QED
    BY <2>4 DEF LockBoost, Boost, NoLock
<1>4. HeldBack
  BY <1>1, <1>3 DEF HeldBack, StillLocked, NoLock
<1>5. ASSUME NEW a \in Account, NEW at \in Closed
      PROVE  LockBoost(a, at) <= PastBalance(a, at)
  <2>1. Cutoff(ledger, Retention) \in Nat
    BY <1>1, CutoffType, TokenAssumption
  <2>2. at \in Nat
    BY <1>1, <2>1 DEF Closed
  <2>3. LockBoost(a, at) = 0
    BY <1>3, <2>2
  <2>4. PastBalance(a, at) = 0
    BY <1>1, EmptyAnswer DEF PastBalance
  <2>5. QED
    BY <2>3, <2>4
<1>6. QED
  BY <1>2, <1>4, <1>5 DEF ClosedCovered

(* A ledger that closes was covered while it was open, and what the        *)
(* histories say about a closed ledger does not change.                    *)
LEMMA CoveredStep ==
  ASSUME AccountsOK, LocksOK, SpansOK, HeldBack, ClosedCovered, [Next]_vars
  PROVE  ClosedCovered'
<1> SUFFICES ASSUME NEW a \in Account, NEW at \in Closed'
             PROVE  LockBoost(a, at)' <= PastBalance(a, at)'
  BY DEF ClosedCovered
<1>1. Sound
  BY StepSound
<1>2. /\ Cutoff(ledger, Retention) <= Cutoff(ledger', Retention)
      /\ Cutoff(ledger, Retention) \in Nat /\ Cutoff(ledger', Retention) \in Nat
      /\ ledger \in Nat
  BY WindowMoves, Numbers
<1>3. at \in Cutoff(ledger', Retention) .. ledger' - 1
  BY DEF Closed
<1>4. CASE at \in Closed
  <2>1. at \in Cutoff(ledger, Retention) .. ledger
    BY <1>2, <1>4 DEF Closed
  <2>2. PastBalance(a, at)' = PastBalance(a, at) /\ LockBoost(a, at)' = LockBoost(a, at)
    BY <1>1, <1>4, <2>1 DEF Sound, AccountsSettled, BoostsSettled
  <2>3. QED
    BY <1>4, <2>2 DEF ClosedCovered
<1>5. CASE at \notin Closed
  <2>1. CloseLedger \/ ledger' = ledger
    BY DEF Next, Administer, Hold, SpendForOthers, vars, Initialize, Mint,
           TransferAdmin, AcceptAdmin, CancelAdminTransfer, Transfer, Burn, Delegate, Stake,
           Unstake, Approve, TransferFrom, BurnFrom
  <2>2. CloseLedger /\ at = ledger
    <3>1. CASE ledger' = ledger
      BY <1>3, <1>5, <3>1 DEF Closed
    <3>2. CASE CloseLedger
      <4>1. ledger' = ledger + 1
        BY <3>2 DEF CloseLedger
      <4>2. QED
        BY <1>2, <1>3, <1>5, <3>2, <4>1 DEF Closed
    <3>3. QED
      BY <2>1, <3>1, <3>2
  <2>3. LockBoost(a, ledger) <= PastBalance(a, ledger)
    BY OpenCovered
  <2>4. UNCHANGED <<locks, checkpoints>>
    BY <2>2 DEF CloseLedger, books
  <2>5. LockBoost(a, at)' = LockBoost(a, ledger) /\ PastBalance(a, at)' = PastBalance(a, ledger)
    BY <2>2, <2>4 DEF LockBoost, PastBalance
  <2>6. QED
    BY <2>3, <2>5
<1>6. QED
  BY <1>4, <1>5

(* Voting power from a stake is always backed by tokens its owner held at  *)
(* that ledger: no sequence of stakes, releases, transfers and prunings    *)
(* leaves a boost larger than the balance it is granted on.                *)
THEOREM BoostNeedsTokens == Spec => []BoostWithinBalance
<1> DEFINE Backed == SpansOK /\ HeldBack /\ ClosedCovered
<1>1. Init => Backed
  BY HoldsInit
<1>2. AccountsOK /\ LocksOK /\ Backed /\ [Next]_vars => Backed'
  BY HoldsStep, CoveredStep
<1>3. AccountsOK /\ LocksOK /\ Backed => BoostWithinBalance
  <2> SUFFICES ASSUME AccountsOK, LocksOK, Backed, NEW at \in Window, NEW a \in Account
               PROVE  LockBoost(a, at) <= PastBalance(a, at)
    BY DEF BoostWithinBalance
  <2>1. at = ledger \/ at \in Closed
    BY Numbers, CutoffType DEF Window, Closed
  <2>2. QED
    BY <2>1, OpenCovered DEF ClosedCovered
<1> HIDE DEF Backed
<1>4. QED
  BY <1>1, <1>2, <1>3, TokenSound, PTL DEF Spec

(***************************************************************************)
(* The votes add up.                                                       *)
(***************************************************************************)

Group(who, d) == {a \in Account : who[a] = d}
VotesOf(b) == [a \in Account |-> CurrentVotes(b, a)]

(* Who has delegated away has votes of their own on record, so that their  *)
(* votes no longer read as their balance does; everybody's votes are the   *)
(* balances delegated to them; votes and balances add up to the supply.    *)
OwnHistories(b, who) == \A a \in Account : b.votes[a] = << >> => who[a] = a

Follows(b, who) ==
  \A d \in Account : CurrentVotes(b, d) = SumFunctionOnSet(b.balance, Group(who, d))

Tallied(b, who, supply) ==
  /\ OwnHistories(b, who)
  /\ Follows(b, who)
  /\ SumFunctionOnSet(b.balance, Account) = supply
  /\ SumFunctionOnSet(VotesOf(b), Account) = supply

LEMMA Groups ==
  ASSUME NEW who, NEW d
  PROVE  IsFiniteSet(Account) /\ IsFiniteSet(Group(who, d)) /\ Group(who, d) \in SUBSET Account
  BY FS_Subset, TokenAssumption DEF Group

(* Without votes of their own, an account's votes are its balance.         *)
LEMMA SetVotesVotes ==
  ASSUME NEW b, BooksOK(b), NEW a \in Account, NEW votes \in Amount, ledger \in Sequence,
         NEW c, c = SetVotes(b, a, votes)
  PROVE  /\ CurrentVotes(c, a) = votes
         /\ \A x \in Account \ {a} : CurrentVotes(c, x) = CurrentVotes(b, x)
         /\ c.votes[a] # << >>
         /\ \A x \in Account \ {a} : c.votes[x] = b.votes[x]
         /\ c.checkpoints = b.checkpoints
<1> DEFINE w == Written(VoteHistory(b, a), votes)
<1>1. IsHistory(VoteHistory(b, a))
  BY VoteHistoryOK
<1>2. w # << >> /\ ValueAt(w, ledger) = votes
  BY <1>1, WrittenOK
<1>3. c = [b EXCEPT !.votes[a] = w]
  BY DEF SetVotes
<1> HIDE DEF w
<1>4. b \in Book
  BY DEF BooksOK
<1>5. /\ c.votes[a] = w /\ c.checkpoints = b.checkpoints
      /\ \A x \in Account \ {a} : c.votes[x] = b.votes[x]
  BY <1>3, <1>4 DEF Book
<1>6. CurrentVotes(c, a) = votes
  BY <1>2, <1>5 DEF CurrentVotes, VoteHistory
<1>7. \A x \in Account \ {a} : CurrentVotes(c, x) = CurrentVotes(b, x)
  BY <1>5 DEF CurrentVotes, VoteHistory
<1>8. QED
  BY <1>2, <1>5, <1>6, <1>7

(* A balance written moves the delegatee's votes and nobody else's.        *)
LEMMA SetBalanceVotes ==
  ASSUME NEW b, BooksOK(b), NEW a \in Account, NEW value \in Amount, ledger \in Sequence,
         delegates \in [Account -> Account], CanSetBalance(b, a, value),
         OwnHistories(b, delegates), NEW c, c = SetBalance(b, a, value)
  PROVE  /\ CurrentVotes(c, delegates[a])
              = CurrentVotes(b, delegates[a]) - b.balance[a] + value
         /\ \A x \in Account \ {delegates[a]} : CurrentVotes(c, x) = CurrentVotes(b, x)
         /\ OwnHistories(c, delegates)
<1> DEFINE d == delegates[a]
           votes == VotesAfter(b, a, value)
           v == SetVotes(b, d, votes)
           w == Written(v.checkpoints[a], value)
<1>1. votes \in Amount /\ votes = CurrentVotes(b, d) - b.balance[a] + value
  <2>1. d \in Account /\ CurrentVotes(b, d) \in Amount
    BY VoteHistoryOK
  <2>2. b.balance[a] \in Amount
    BY DEF BooksOK, Book
  <2>3. QED
    BY <2>1, <2>2, Widths DEF CanSetBalance, VotesAfter, Amount
<1>2. c = [v EXCEPT !.balance[a] = value, !.checkpoints[a] = w]
  BY DEF SetBalance
<1> HIDE DEF votes
<1>3. v = SetVotes(b, d, votes)
  BY DEF votes
<1> HIDE DEF v
<1>4. d \in Account
  OBVIOUS
<1>5. /\ CurrentVotes(v, d) = votes
      /\ \A x \in Account \ {d} : CurrentVotes(v, x) = CurrentVotes(b, x)
      /\ v.votes[d] # << >>
      /\ \A x \in Account \ {d} : v.votes[x] = b.votes[x]
  BY <1>1, <1>3, <1>4, SetVotesVotes
<1>6. v \in Book
  BY <1>1, <1>3, <1>4, SetVotesOK DEF Kept, BooksOK
<1> HIDE DEF w
<1>7. /\ c.votes = v.votes
      /\ \A x \in Account \ {a} : c.checkpoints[x] = v.checkpoints[x]
  BY <1>2, <1>6 DEF Book
<1>8. ASSUME NEW x \in Account, v.votes[x] = << >> PROVE x # a /\ delegates[x] = x
  <2>1. x # d /\ b.votes[x] = << >>
    BY <1>5, <1>8
  <2>2. delegates[x] = x
    BY <2>1 DEF OwnHistories
  <2>3. QED
    BY <2>1, <2>2
<1>9. ASSUME NEW x \in Account PROVE VoteHistory(c, x) = VoteHistory(v, x)
  BY <1>7, <1>8 DEF VoteHistory
<1>10. OwnHistories(c, delegates)
  BY <1>7, <1>8 DEF OwnHistories
<1>11. QED
  BY <1>1, <1>4, <1>5, <1>9, <1>10 DEF CurrentVotes

LEMMA VotesAreAmounts ==
  ASSUME NEW b, BooksOK(b), ledger \in Sequence
  PROVE  /\ \A a \in Account : b.balance[a] \in Nat /\ b.balance[a] \in Amount
         /\ \A a \in Account : CurrentVotes(b, a) \in Nat /\ CurrentVotes(b, a) \in Amount
         /\ \A a \in Account : VotesOf(b)[a] = CurrentVotes(b, a)
<1>1. \A a \in Account : b.balance[a] \in Amount
  BY DEF BooksOK, Book
<1>2. \A a \in Account : CurrentVotes(b, a) \in Amount
  BY VoteHistoryOK
<1>3. QED
  BY <1>1, <1>2, Widths DEF VotesOf

(* So a balance written keeps the tally, of another supply.                *)
LEMMA SetBalanceTallied ==
  ASSUME NEW b, BooksOK(b), NEW a \in Account, NEW value \in Amount, ledger \in Sequence,
         delegates \in [Account -> Account], CanSetBalance(b, a, value),
         NEW supply, Tallied(b, delegates, supply), NEW c, c = SetBalance(b, a, value)
  PROVE  Tallied(c, delegates, supply - b.balance[a] + value)
<1> DEFINE d == delegates[a]
<1>1. d \in Account /\ value \in Nat /\ IsFiniteSet(Account)
  BY Widths, Groups
<1>2. BooksOK(c) /\ c.balance = [b.balance EXCEPT ![a] = value]
  BY SetBalanceOK DEF Kept
<1>3. b.balance \in [Account -> Amount]
  BY DEF BooksOK, Book
<1>4. /\ c.balance[a] = value
      /\ \A x \in Account : x # a => c.balance[x] = b.balance[x]
  BY <1>2, <1>3
<1>5. /\ CurrentVotes(c, d) = CurrentVotes(b, d) - b.balance[a] + value
      /\ \A x \in Account \ {d} : CurrentVotes(c, x) = CurrentVotes(b, x)
      /\ OwnHistories(c, delegates)
  BY SetBalanceVotes DEF Tallied
<1>6. /\ \A x \in Account : b.balance[x] \in Int /\ c.balance[x] \in Int
      /\ \A x \in Account : CurrentVotes(b, x) \in Int /\ CurrentVotes(c, x) \in Int
      /\ \A x \in Account : /\ VotesOf(b)[x] = CurrentVotes(b, x)
                            /\ VotesOf(c)[x] = CurrentVotes(c, x)
  BY <1>2, VotesAreAmounts
<1> HIDE DEF d
<1>7. Follows(c, delegates)
  <2> SUFFICES ASSUME NEW x \in Account
               PROVE  CurrentVotes(c, x) = SumFunctionOnSet(c.balance, Group(delegates, x))
    BY DEF Follows
  <2> DEFINE G == Group(delegates, x)
  <2>1. IsFiniteSet(G) /\ G \in SUBSET Account
    BY Groups
  <2>2. CurrentVotes(b, x) = SumFunctionOnSet(b.balance, G)
    BY DEF Tallied, Follows
  <2>3. a \in G <=> x = d
    BY DEF Group, d
  <2> HIDE DEF G
  <2>4. CASE x = d
    <3>1. SumFunctionOnSet(c.balance, G) = SumFunctionOnSet(b.balance, G) - b.balance[a] + c.balance[a]
      BY <1>4, <1>6, <2>1, <2>3, <2>4, SumChanged
    <3>2. QED
      BY <1>4, <1>5, <2>2, <2>4, <3>1 DEF G
  <2>5. CASE x # d
    <3>1. SumFunctionOnSet(b.balance, G) = SumFunctionOnSet(c.balance, G)
      BY <1>4, <2>1, <2>3, <2>5, SumSame
    <3>2. QED
      BY <1>5, <2>2, <2>5, <3>1 DEF G
  <2>6. QED
    BY <2>4, <2>5
<1>8. SumFunctionOnSet(c.balance, Account) = supply - b.balance[a] + value
  BY <1>1, <1>4, <1>6, SumChanged DEF Tallied
<1>9. SumFunctionOnSet(VotesOf(c), Account) = supply - b.balance[a] + value
  <2>1. SumFunctionOnSet(VotesOf(b), Account) = supply
    BY DEF Tallied
  <2>2. \A x \in Account : VotesOf(b)[x] \in Int /\ VotesOf(c)[x] \in Int
    BY <1>6
  <2>3. \A x \in Account : x # d => VotesOf(c)[x] = VotesOf(b)[x]
    BY <1>5, <1>6
  <2>4. /\ SumFunctionOnSet(VotesOf(c), Account) = supply - VotesOf(b)[d] + VotesOf(c)[d]
        /\ supply \in Int
    BY <1>1, <2>1, <2>2, <2>3, SumChanged
  <2>5. VotesOf(b)[d] = CurrentVotes(b, d) /\ VotesOf(c)[d] = CurrentVotes(b, d) - b.balance[a] + value
    BY <1>1, <1>5, <1>6
  <2>6. CurrentVotes(b, d) \in Int /\ b.balance[a] \in Int /\ value \in Int
    BY <1>1, <1>6
  <2>7. QED
    BY <2>4, <2>5, <2>6
<1>10. QED
  BY <1>5, <1>7, <1>8, <1>9 DEF Tallied

(* A transfer keeps the supply: what one balance loses the other gains.    *)
LEMMA MovedTallied ==
  ASSUME AccountsOK, LocksOK, NEW from \in Account, NEW to \in Account, NEW amount \in Amounts,
         CanMove(from, to, amount), Tallied(Books, delegates, totalSupply)
  PROVE  Tallied(Moved(Books, from, to, amount), delegates, totalSupply)
<1> DEFINE d == Debited(Books, from, amount)
           m == Moved(Books, from, to, amount)
<1>1. /\ BooksOK(Books) /\ Books.balance = balance /\ ledger \in Sequence
      /\ delegates \in [Account -> Account] /\ totalSupply \in Nat
      /\ balance[from] \in Nat /\ Locked(from) \in Nat /\ amount \in Nat
  <2>1. /\ BooksOK(Books) /\ Books.balance = balance /\ ledger \in Sequence
        /\ delegates \in [Account -> Account]
    BY Numbers
  <2>2. totalSupply \in Amount /\ balance[from] \in Amount /\ Locked(from) \in Amount
    BY Numbers
  <2>3. amount \in Amount
    BY TokenAssumption DEF Amount
  <2>4. QED
    BY <2>1, <2>2, <2>3, Widths
<1>2. balance[from] - amount \in Amount
  <2>1. balance[from] \in Amount /\ balance[from] - Locked(from) >= amount
    BY Numbers DEF CanMove, Spendable
  <2>2. QED
    BY <1>1, <2>1, Widths DEF Amount
<1>3. d = SetBalance(Books, from, balance[from] - amount)
  BY <1>1 DEF Debited
<1>4. CanSetBalance(Books, from, balance[from] - amount)
  BY DEF CanMove
<1>5. /\ d.balance[to] + amount <= MaxAmount
      /\ CanSetBalance(d, to, d.balance[to] + amount)
  BY DEF CanMove
<1>6. m = SetBalance(d, to, d.balance[to] + amount)
  BY DEF Moved
<1> HIDE DEF d, m
<1>7. BooksOK(d)
  BY <1>1, <1>2, <1>3, <1>4, SetBalanceOK DEF Kept
<1>8. Tallied(d, delegates, totalSupply - balance[from] + (balance[from] - amount))
  BY <1>1, <1>2, <1>3, <1>4, SetBalanceTallied
<1>9. totalSupply - balance[from] + (balance[from] - amount) = totalSupply - amount
  BY <1>1
<1>10. Tallied(d, delegates, totalSupply - amount)
  BY <1>8, <1>9
<1>11. d.balance[to] \in Nat /\ d.balance[to] + amount \in Amount
  <2>1. d.balance[to] \in Nat
    BY <1>1, <1>7, VotesAreAmounts
  <2>2. QED
    BY <1>1, <1>5, <2>1, Widths DEF Amount
<1>12. Tallied(m, delegates, totalSupply - amount - d.balance[to] + (d.balance[to] + amount))
  BY <1>1, <1>5, <1>6, <1>7, <1>10, <1>11, SetBalanceTallied
<1>13. totalSupply - amount - d.balance[to] + (d.balance[to] + amount) = totalSupply
  BY <1>1, <1>11
<1>14. QED
  BY <1>12, <1>13 DEF m

(* So does a delegation: the delegator's balance changes groups.           *)
LEMMA DelegateTallied ==
  ASSUME AccountsOK, LocksOK, NEW delegator \in Account, NEW delegatee \in Account,
         Delegate(delegator, delegatee), Tallied(Books, delegates, totalSupply)
  PROVE  \E c : Keep(c) /\ BooksOK(c) /\ Tallied(c, delegates', totalSupply)
<1> DEFINE previous == delegates[delegator]
           less == CurrentVotes(Books, previous) - balance[delegator]
           more == CurrentVotes(Books, delegatee) + balance[delegator]
           left == SetVotes(Books, previous, less)
           c == SetVotes(left, delegatee, more)
           n == balance[delegator]
<1>1. /\ ledger \in Sequence /\ delegates \in [Account -> Account] /\ BooksOK(Books)
      /\ balance \in [Account -> Amount] /\ Books.balance = balance
  BY Numbers
<1>2. previous \in Account
  BY <1>1
<1>3. /\ CurrentVotes(Books, previous) >= n
      /\ CurrentVotes(Books, delegatee) + n <= MaxAmount
      /\ previous # delegatee
      /\ Keep(c)
      /\ delegates' = [delegates EXCEPT ![delegator] = delegatee]
  BY DEF Delegate
<1>4. less = CurrentVotes(Books, previous) - n /\ more = CurrentVotes(Books, delegatee) + n
  OBVIOUS
<1>5. left = SetVotes(Books, previous, less)
  OBVIOUS
<1>6. c = SetVotes(left, delegatee, more)
  OBVIOUS
<1>7. n \in Nat /\ balance[delegator] = n
  BY <1>1, Widths
<1>8. delegates[delegator] = previous
  OBVIOUS
<1> HIDE DEF c, left, less, more, previous, n
<1>9. \A x \in Account : CurrentVotes(Books, x) \in Nat
  BY <1>1, VotesAreAmounts
<1>10. less \in Amount /\ more \in Amount
  <2>1. CurrentVotes(Books, previous) \in Amount /\ CurrentVotes(Books, delegatee) \in Nat
    BY <1>1, <1>2, VotesAreAmounts
  <2>2. QED
    BY <1>3, <1>4, <1>7, <2>1, Widths DEF Amount
<1>11. BooksOK(left) /\ left.balance = balance
  BY <1>1, <1>2, <1>5, <1>10, SetVotesOK DEF Kept
<1>12. BooksOK(c) /\ c.balance = balance
  BY <1>1, <1>6, <1>10, <1>11, SetVotesOK DEF Kept
<1>13. /\ CurrentVotes(left, previous) = less
       /\ \A x \in Account \ {previous} : CurrentVotes(left, x) = CurrentVotes(Books, x)
       /\ left.votes[previous] # << >>
       /\ \A x \in Account \ {previous} : left.votes[x] = Books.votes[x]
  BY <1>1, <1>2, <1>5, <1>10, SetVotesVotes
<1>14. /\ CurrentVotes(c, delegatee) = more
       /\ \A x \in Account \ {delegatee} : CurrentVotes(c, x) = CurrentVotes(left, x)
       /\ c.votes[delegatee] # << >>
       /\ \A x \in Account \ {delegatee} : c.votes[x] = left.votes[x]
  BY <1>1, <1>6, <1>10, <1>11, SetVotesVotes
<1>15. /\ delegates'[delegator] = delegatee
       /\ \A x \in Account : x # delegator => delegates'[x] = delegates[x]
  BY <1>1, <1>3
<1>16. OwnHistories(c, delegates')
  <2> SUFFICES ASSUME NEW x \in Account, c.votes[x] = << >> PROVE delegates'[x] = x
    BY DEF OwnHistories
  <2>1. x # delegatee /\ x # previous /\ Books.votes[x] = << >>
    BY <1>13, <1>14
  <2>2. delegates[x] = x
    BY <2>1 DEF Tallied, OwnHistories
  <2>3. x # delegator
    BY <1>8, <2>1, <2>2
  <2>4. QED
    BY <1>15, <2>2, <2>3
<1>17. \A x \in Account : balance[x] \in Int
  <2>1. \A x \in Account : balance[x] \in Nat
    BY <1>1, VotesAreAmounts
  <2>2. QED
    BY <2>1
<1>18. Follows(c, delegates')
  <2> SUFFICES ASSUME NEW x \in Account
               PROVE  CurrentVotes(c, x) = SumFunctionOnSet(balance, Group(delegates', x))
    BY <1>12 DEF Follows
  <2> DEFINE G == Group(delegates, x)
             H == Group(delegates', x)
  <2>1. IsFiniteSet(G) /\ G \in SUBSET Account /\ IsFiniteSet(H) /\ H \in SUBSET Account
    BY Groups
  <2>2. CurrentVotes(Books, x) = SumFunctionOnSet(balance, G)
    BY <1>1 DEF Tallied, Follows
  <2>3. /\ x = previous => delegator \in G /\ H = G \ {delegator}
        /\ x = delegatee => delegator \notin G /\ H = G \cup {delegator}
        /\ x # previous /\ x # delegatee => H = G
    BY <1>3, <1>8, <1>15 DEF Group
  <2> HIDE DEF G, H
  <2>4. CASE x = previous
    <3>1. /\ SumFunctionOnSet(balance, G) = n + SumFunctionOnSet(balance, G \ {delegator})
          /\ SumFunctionOnSet(balance, G \ {delegator}) \in Int
      <4>1. delegator \in G /\ \A y \in G : balance[y] \in Int
        BY <1>17, <2>1, <2>3, <2>4
      <4>2. QED
        BY <1>7, <2>1, <4>1, SumWithout
    <3>2. CurrentVotes(c, x) = CurrentVotes(Books, x) - n
      BY <1>3, <1>4, <1>13, <1>14, <2>4
    <3>3. SumFunctionOnSet(balance, H) = SumFunctionOnSet(balance, G \ {delegator})
      BY <2>3, <2>4
    <3>4. QED
      BY <1>7, <2>2, <3>1, <3>2, <3>3 DEF H
  <2>5. CASE x = delegatee
    <3>1. SumFunctionOnSet(balance, G \cup {delegator}) = SumFunctionOnSet(balance, G) + n
      <4>1. \A y \in G \cup {delegator} : balance[y] \in Int
        BY <1>17, <2>1
      <4>2. QED
        BY <1>7, <2>1, <2>3, <2>5, <4>1, SumWith
    <3>2. CurrentVotes(c, x) = CurrentVotes(Books, x) + n
      BY <1>4, <1>14, <2>5
    <3>3. QED
      BY <2>2, <2>3, <2>5, <3>1, <3>2 DEF H
  <2>6. CASE x # previous /\ x # delegatee
    BY <1>13, <1>14, <2>2, <2>3, <2>6 DEF H
  <2>7. QED
    BY <2>4, <2>5, <2>6
<1>19. SumFunctionOnSet(VotesOf(c), Account) = totalSupply
  <2>1. /\ \A x \in Account : /\ VotesOf(Books)[x] = CurrentVotes(Books, x)
                              /\ VotesOf(left)[x] = CurrentVotes(left, x)
                              /\ VotesOf(c)[x] = CurrentVotes(c, x)
        /\ \A x \in Account : /\ CurrentVotes(Books, x) \in Int
                              /\ CurrentVotes(left, x) \in Int
                              /\ CurrentVotes(c, x) \in Int
    BY <1>1, <1>11, <1>12, VotesAreAmounts
  <2>2. SumFunctionOnSet(VotesOf(Books), Account) = totalSupply
    BY DEF Tallied
  <2>3. /\ SumFunctionOnSet(VotesOf(left), Account)
             = totalSupply - VotesOf(Books)[previous] + VotesOf(left)[previous]
        /\ totalSupply \in Int
    <3>1. \A x \in Account : VotesOf(Books)[x] \in Int /\ VotesOf(left)[x] \in Int
      BY <2>1
    <3>2. \A x \in Account : x # previous => VotesOf(left)[x] = VotesOf(Books)[x]
      BY <1>13, <2>1
    <3>3. QED
      BY <1>2, <2>2, <3>1, <3>2, Groups, SumChanged
  <2>4. SumFunctionOnSet(VotesOf(c), Account)
          = SumFunctionOnSet(VotesOf(left), Account) - VotesOf(left)[delegatee] + VotesOf(c)[delegatee]
    <3>1. \A x \in Account : VotesOf(left)[x] \in Int /\ VotesOf(c)[x] \in Int
      BY <2>1
    <3>2. \A x \in Account : x # delegatee => VotesOf(c)[x] = VotesOf(left)[x]
      BY <1>14, <2>1
    <3>3. QED
      BY <3>1, <3>2, Groups, SumChanged
  <2>5. /\ VotesOf(left)[previous] = VotesOf(Books)[previous] - n
        /\ VotesOf(c)[delegatee] = VotesOf(left)[delegatee] + n
        /\ VotesOf(Books)[previous] \in Int /\ VotesOf(left)[delegatee] \in Int
    BY <1>2, <1>3, <1>4, <1>13, <1>14, <2>1
  <2>6. QED
    BY <1>7, <2>3, <2>4, <2>5
<1>20. Tallied(c, delegates', totalSupply)
  BY <1>12, <1>16, <1>18, <1>19, <1>1 DEF Tallied
<1>21. QED
  BY <1>3, <1>12, <1>20

(* What a call keeps is tallied afterwards.                                *)
LEMMA KeepTallied ==
  ASSUME NEW c, BooksOK(c), Keep(c), ledger' = ledger,
         Tallied(c, delegates', totalSupply')
  PROVE  Tallied(Books, delegates, totalSupply)'
<1>1. c \in Book
  BY DEF BooksOK
<1>2. Books' = [balance |-> balance', checkpoints |-> checkpoints', votes |-> voteCheckpoints']
  BY DEF Books
<1>3. c = [balance |-> c.balance, checkpoints |-> c.checkpoints, votes |-> c.votes]
  BY <1>1 DEF Book
<1>4. Books' = c
  BY <1>2, <1>3 DEF Keep
<1>5. \A a \in Account : CurrentVotes(Books, a)' = CurrentVotes(c, a)
  BY <1>4 DEF CurrentVotes, VoteHistory
<1>6. VotesOf(Books)' = VotesOf(c)
  BY <1>5 DEF VotesOf
<1>7. OwnHistories(Books, delegates)'
  BY <1>4 DEF Tallied, OwnHistories
<1>8. Follows(Books, delegates)'
  <2>1. \A d \in Account : CurrentVotes(c, d) = SumFunctionOnSet(c.balance, Group(delegates', d))
    BY DEF Tallied, Follows
  <2>2. QED
    BY <1>4, <1>5, <2>1 DEF Follows, Group
<1>9. QED
  BY <1>4, <1>6, <1>7, <1>8 DEF Tallied

LEMMA MoveTallies ==
  ASSUME AccountsOK, LocksOK, NEW from \in Account, NEW to \in Account, NEW amount \in Amounts,
         CanMove(from, to, amount), Keep(Moved(Books, from, to, amount)),
         UNCHANGED <<ledger, totalSupply, delegates>>, Tallied(Books, delegates, totalSupply)
  PROVE  Tallied(Books, delegates, totalSupply)'
<1> DEFINE c == Moved(Books, from, to, amount)
<1>1. BooksOK(c)
  BY MovedOK DEF Kept
<1>2. Tallied(c, delegates, totalSupply)
  BY MovedTallied
<1>3. Keep(c)
  OBVIOUS
<1> HIDE DEF c
<1>4. QED
  BY <1>1, <1>2, <1>3, KeepTallied

(* Issued and destroyed tokens leave the balances as they leave the supply.*)
LEMMA IssueTallies ==
  ASSUME AccountsOK, LocksOK, NEW a \in Account, NEW value \in Amount,
         CanSetBalance(Books, a, value), Keep(SetBalance(Books, a, value)),
         totalSupply' = totalSupply - balance[a] + value,
         UNCHANGED <<ledger, delegates>>, Tallied(Books, delegates, totalSupply)
  PROVE  Tallied(Books, delegates, totalSupply)'
<1> DEFINE c == SetBalance(Books, a, value)
<1>1. /\ BooksOK(Books) /\ Books.balance = balance /\ ledger \in Sequence
      /\ delegates \in [Account -> Account]
  BY Numbers
<1>2. BooksOK(c)
  BY <1>1, SetBalanceOK DEF Kept
<1>3. Tallied(c, delegates, totalSupply - Books.balance[a] + value)
  BY <1>1, SetBalanceTallied
<1>4. Keep(c)
  OBVIOUS
<1> HIDE DEF c
<1>5. totalSupply' = totalSupply - Books.balance[a] + value
  BY <1>1
<1>6. Tallied(c, delegates', totalSupply')
  BY <1>3, <1>5
<1>7. QED
  BY <1>2, <1>4, <1>6, KeepTallied

LEMMA NonNegative ==
  ASSUME AccountsOK, LocksOK
  PROVE  totalSupply \in Nat /\ \A a \in Account : balance[a] \in Nat /\ Locked(a) \in Nat
<1>1. totalSupply \in Nat
  BY Numbers, Widths
<1>2. \A a \in Account : balance[a] \in Amount /\ Locked(a) \in Amount
  BY Numbers
<1>3. QED
  BY <1>1, <1>2, Widths

LEMMA InitializeTallies ==
  ASSUME AccountsOK, LocksOK, NEW a \in Account, NEW supply \in Amounts \cup {0},
         Initialize(a, supply), Tallied(Books, delegates, totalSupply)
  PROVE  Tallied(Books, delegates, totalSupply)'
<1>1. supply \in Amount /\ supply \in Nat
  BY TokenAssumption, Widths DEF Amount
<1>2. \A x \in Account : balance[x] = 0
  BY DEF Initialize, AccountsOK
<1>3. totalSupply = 0
  <2>1. SumFunctionOnSet(balance, Account) = totalSupply
    BY Numbers DEF Tallied
  <2>2. QED
    BY <1>2, <2>1, SumOfZeros, Groups
<1>4. totalSupply' = totalSupply - balance[a] + supply
  BY <1>1, <1>2, <1>3 DEF Initialize, SetTotalSupply
<1>5. QED
  BY <1>1, <1>4, IssueTallies DEF Initialize

LEMMA MintTallies ==
  ASSUME AccountsOK, LocksOK, NEW to \in Account, NEW amount \in Amounts, Mint(to, amount),
         Tallied(Books, delegates, totalSupply)
  PROVE  Tallied(Books, delegates, totalSupply)'
<1>1. /\ balance[to] \in Nat /\ totalSupply \in Nat /\ amount \in Nat
      /\ balance[to] + amount <= MaxAmount
  BY NonNegative, TokenAssumption DEF Mint
<1>2. balance[to] + amount \in Amount
  BY <1>1, Widths DEF Amount
<1>3. totalSupply' = totalSupply - balance[to] + (balance[to] + amount)
  BY <1>1 DEF Mint, SetTotalSupply
<1>4. QED
  BY <1>2, <1>3, IssueTallies DEF Mint

LEMMA DestroyTallies ==
  ASSUME AccountsOK, LocksOK, NEW from \in Account, NEW amount \in Amounts,
         Destroy(from, amount), UNCHANGED <<ledger, delegates>>,
         Tallied(Books, delegates, totalSupply)
  PROVE  Tallied(Books, delegates, totalSupply)'
<1>1. /\ balance[from] \in Amount /\ balance[from] \in Nat /\ Locked(from) \in Nat
      /\ totalSupply \in Nat /\ amount \in Nat
      /\ balance[from] - Locked(from) >= amount
  BY NonNegative, Numbers, TokenAssumption DEF Destroy, Spendable
<1>2. balance[from] - amount \in Amount
  BY <1>1, Widths DEF Amount
<1>3. totalSupply' = totalSupply - balance[from] + (balance[from] - amount)
  BY <1>1 DEF Destroy, SetTotalSupply
<1>4. /\ CanSetBalance(Books, from, balance[from] - amount)
      /\ Keep(SetBalance(Books, from, balance[from] - amount))
  BY DEF Destroy, Debited, Books
<1>5. QED
  BY <1>2, <1>3, <1>4, IssueTallies

LEMMA DelegateTallies ==
  ASSUME AccountsOK, LocksOK, NEW delegator \in Account, NEW delegatee \in Account,
         Delegate(delegator, delegatee), Tallied(Books, delegates, totalSupply)
  PROVE  Tallied(Books, delegates, totalSupply)'
<1>1. PICK c : Keep(c) /\ BooksOK(c) /\ Tallied(c, delegates', totalSupply)
  BY DelegateTallied
<1>2. ledger' = ledger /\ totalSupply' = totalSupply
  BY DEF Delegate, supplyVars
<1>3. Tallied(c, delegates', totalSupply')
  BY <1>1, <1>2
<1>4. QED
  BY <1>1, <1>2, <1>3, KeepTallied

LEMMA QuietTallies ==
  ASSUME UNCHANGED <<ledger, totalSupply, books, delegates>>,
         Tallied(Books, delegates, totalSupply)
  PROVE  Tallied(Books, delegates, totalSupply)'
<1>1. Books' = Books
  BY DEF Books, books
<1>2. \A a \in Account : CurrentVotes(Books, a)' = CurrentVotes(Books, a)
  BY <1>1 DEF CurrentVotes, VoteHistory
<1>3. QED
  BY <1>1, <1>2 DEF Tallied, OwnHistories, Follows, Group, VotesOf

(* The next ledger opens with the votes the last one closed with.          *)
LEMMA CloseTallies ==
  ASSUME AccountsOK, LocksOK, CloseLedger, Tallied(Books, delegates, totalSupply)
  PROVE  Tallied(Books, delegates, totalSupply)'
<1>1. ledger \in Nat /\ ledger' = ledger + 1 /\ Books' = Books
      /\ totalSupply' = totalSupply /\ delegates' = delegates
  BY Numbers DEF CloseLedger, supplyVars, books, Books
<1>2. ASSUME NEW a \in Account PROVE CurrentVotes(Books, a)' = CurrentVotes(Books, a)
  <2>1. Sane(VoteHistory(Books, a), Checkpoint, ledger)
    BY Numbers, VoteHistoryOK DEF IsHistory
  <2>2. ValueAt(VoteHistory(Books, a), ledger + 1) = ValueAt(VoteHistory(Books, a), ledger)
    BY <1>1, <2>1, HistoryGoesOn
  <2>3. QED
    BY <1>1, <2>2 DEF CurrentVotes, VoteHistory
<1>3. QED
  BY <1>1, <1>2 DEF Tallied, OwnHistories, Follows, Group, VotesOf

LEMMA TalliedStep ==
  ASSUME AccountsOK, LocksOK, [Next]_vars, Tallied(Books, delegates, totalSupply)
  PROVE  Tallied(Books, delegates, totalSupply)'
<1> DEFINE Goal == Tallied(Books, delegates, totalSupply)'
<1> HIDE DEF Goal
<1>1. ASSUME NEW a \in Account, NEW n \in Amounts \cup {0}, Initialize(a, n) PROVE Goal
  BY <1>1, InitializeTallies DEF Goal
<1>2. ASSUME NEW a \in Account, NEW n \in Amounts, Mint(a, n) PROVE Goal
  BY <1>2, MintTallies DEF Goal
<1>3. ASSUME NEW a \in Account, NEW b \in Account, NEW n \in Amounts, Transfer(a, b, n) PROVE Goal
  BY <1>3, MoveTallies DEF Goal, Transfer, supplyVars
<1>4. ASSUME NEW s \in Spenders, NEW a \in Account, NEW b \in Account, NEW n \in Amounts,
             TransferFrom(s, a, b, n)
      PROVE  Goal
  BY <1>4, MoveTallies DEF Goal, TransferFrom, supplyVars
<1>5. ASSUME NEW a \in Account, NEW n \in Amounts, Burn(a, n) PROVE Goal
  BY <1>5, DestroyTallies DEF Goal, Burn
<1>6. ASSUME NEW s \in Spenders, NEW a \in Account, NEW n \in Amounts, BurnFrom(s, a, n) PROVE Goal
  BY <1>6, DestroyTallies DEF Goal, BurnFrom
<1>7. ASSUME NEW a \in Delegators, NEW b \in Account, Delegate(a, b) PROVE Goal
  <2>1. a \in Account
    BY TokenAssumption
  <2>2. QED
    BY <1>7, <2>1, DelegateTallies DEF Goal
<1>8. CASE CloseLedger
  BY <1>8, CloseTallies DEF Goal
<1>9. CASE UNCHANGED <<ledger, totalSupply, books, delegates>>
  BY <1>9, QuietTallies DEF Goal
<1>10. \/ \E a \in Account, n \in Amounts \cup {0} : Initialize(a, n)
       \/ \E a \in Account, n \in Amounts : Mint(a, n)
       \/ \E a, b \in Account, n \in Amounts : Transfer(a, b, n)
       \/ \E s \in Spenders, a, b \in Account, n \in Amounts : TransferFrom(s, a, b, n)
       \/ \E a \in Account, n \in Amounts : Burn(a, n)
       \/ \E s \in Spenders, a \in Account, n \in Amounts : BurnFrom(s, a, n)
       \/ \E a \in Delegators, b \in Account : Delegate(a, b)
       \/ CloseLedger
       \/ UNCHANGED <<ledger, totalSupply, books, delegates>>
  BY DEF Next, Administer, Hold, SpendForOthers, vars, supplyVars, TransferAdmin, AcceptAdmin,
         CancelAdminTransfer, Stake, Unstake, Approve
<1>11. QED
  BY <1>1, <1>2, <1>3, <1>4, <1>5, <1>6, <1>7, <1>8, <1>9, <1>10 DEF Goal

LEMMA TalliedInit ==
  ASSUME Init
  PROVE  Tallied(Books, delegates, totalSupply)
<1>1. /\ \A a \in Account : Books.balance[a] = 0 /\ CurrentVotes(Books, a) = 0
      /\ totalSupply = 0
      /\ \A a \in Account : delegates[a] = a
  BY EmptyAnswer DEF Init, Books, CurrentVotes, VoteHistory
<1>2. \A S \in SUBSET Account : SumFunctionOnSet(Books.balance, S) = 0
  BY <1>1, SumOfZeros, FS_Subset, Groups
<1>3. SumFunctionOnSet(VotesOf(Books), Account) = 0
  <2>1. \A a \in Account : VotesOf(Books)[a] = 0
    BY <1>1 DEF VotesOf
  <2>2. QED
    BY <2>1, SumOfZeros, Groups
<1>4. OwnHistories(Books, delegates)
  BY <1>1 DEF OwnHistories
<1>5. Follows(Books, delegates)
  BY <1>1, <1>2, Groups DEF Follows
<1>6. QED
  BY <1>1, <1>2, <1>3, <1>4, <1>5, Groups DEF Tallied

(* The inductive invariant: the open ledger's votes and balances are       *)
(* tallied at every step.                                                  *)
THEOREM VotesAreTallied == Spec => []Tallied(Books, delegates, totalSupply)
<1>1. Init => Tallied(Books, delegates, totalSupply)
  BY TalliedInit
<1>2. /\ AccountsOK /\ LocksOK /\ Tallied(Books, delegates, totalSupply) /\ [Next]_vars
      => Tallied(Books, delegates, totalSupply)'
  BY TalliedStep
<1>3. QED
  BY <1>1, <1>2, TokenSound, PTL DEF Spec

(* An account's votes are exactly the balances of those who delegate to    *)
(* it, after any sequence of delegations, transfers, mints and burns.      *)
THEOREM DelegationsAreFollowed == Spec => []VotesFollowDelegation
<1>1. Tallied(Books, delegates, totalSupply) => VotesFollowDelegation
  BY DEF Tallied, Follows, VotesFollowDelegation, Group, Books
<1>2. QED
  BY <1>1, VotesAreTallied, PTL

(* One ledger's votes and balances add up to its supply.                   *)
AddsUp(at) ==
  /\ SumFunctionOnSet([a \in Account |-> PastDelegatedVotes(a, at)], Account) = PastSupply(at)
  /\ SumFunctionOnSet([a \in Account |-> PastBalance(a, at)], Account) = PastSupply(at)

ClosedAddUp == \A at \in Closed : AddsUp(at)

(* The open ledger's do, being tallied ...                                 *)
LEMMA OpenAddsUp ==
  ASSUME AccountsOK, LocksOK, Tallied(Books, delegates, totalSupply)
  PROVE  AddsUp(ledger)
<1>1. PastSupply(ledger) = totalSupply
  BY DEF AccountsOK, PastSupply
<1>2. \A a \in Account : PastBalance(a, ledger) = Books.balance[a]
  BY Numbers DEF BooksOK, PastBalance, Books
<1>3. VotesOf(Books) = [a \in Account |-> PastDelegatedVotes(a, ledger)]
  BY DEF VotesOf, PastDelegatedVotes, CurrentVotes
<1>4. SumFunctionOnSet([a \in Account |-> PastBalance(a, ledger)], Account)
        = SumFunctionOnSet(Books.balance, Account)
  BY <1>2, SumSame, Groups
<1>5. QED
  BY <1>1, <1>3, <1>4 DEF Tallied, AddsUp

(* ... and a ledger that closed keeps its answers.                         *)
LEMMA AddsUpStep ==
  ASSUME AccountsOK, LocksOK, Tallied(Books, delegates, totalSupply), ClosedAddUp, [Next]_vars
  PROVE  ClosedAddUp'
<1> SUFFICES ASSUME NEW at \in Closed' PROVE AddsUp(at)'
  BY DEF ClosedAddUp
<1>1. Sound
  BY StepSound
<1>2. /\ Cutoff(ledger, Retention) <= Cutoff(ledger', Retention)
      /\ Cutoff(ledger, Retention) \in Nat /\ Cutoff(ledger', Retention) \in Nat
      /\ ledger \in Nat
  BY WindowMoves, Numbers
<1>3. at \in Cutoff(ledger', Retention) .. ledger' - 1
  BY DEF Closed
<1>4. CASE at \in Closed
  <2>1. \A a \in Account : /\ PastBalance(a, at)' = PastBalance(a, at)
                           /\ PastDelegatedVotes(a, at)' = PastDelegatedVotes(a, at)
    BY <1>1, <1>4 DEF Sound, AccountsSettled
  <2>2. PastSupply(at)' = PastSupply(at)
    BY <1>1, <1>4 DEF Sound, SupplySettled
  <2>3. AddsUp(at)
    BY <1>4 DEF ClosedAddUp
  <2>4. QED
    BY <2>1, <2>2, <2>3 DEF AddsUp
<1>5. CASE at \notin Closed
  <2>1. CloseLedger \/ ledger' = ledger
    BY DEF Next, Administer, Hold, SpendForOthers, vars, Initialize, Mint, TransferAdmin,
           AcceptAdmin, CancelAdminTransfer, Transfer, Burn, Delegate, Stake, Unstake,
           Approve, TransferFrom, BurnFrom
  <2>2. CloseLedger /\ at = ledger
    <3>1. CASE ledger' = ledger
      BY <1>3, <1>5, <3>1 DEF Closed
    <3>2. CASE CloseLedger
      <4>1. ledger' = ledger + 1
        BY <3>2 DEF CloseLedger
      <4>2. QED
        BY <1>2, <1>3, <1>5, <3>2, <4>1 DEF Closed
    <3>3. QED
      BY <2>1, <3>1, <3>2
  <2>3. AddsUp(ledger)
    BY OpenAddsUp
  <2>4. UNCHANGED <<checkpoints, voteCheckpoints, supplyCheckpoints, balance>>
    BY <2>2 DEF CloseLedger, books, supplyVars
  <2>5. /\ \A a \in Account : /\ PastBalance(a, at)' = PastBalance(a, ledger)
                              /\ PastDelegatedVotes(a, at)' = PastDelegatedVotes(a, ledger)
        /\ PastSupply(at)' = PastSupply(ledger)
    BY <2>2, <2>4 DEF PastBalance, PastDelegatedVotes, PastSupply, VoteHistory, Books
  <2>6. QED
    BY <2>3, <2>5 DEF AddsUp
<1>6. QED
  BY <1>4, <1>5

(* Whatever was called, in whatever order and however often in one ledger, *)
(* the votes and the balances of every ledger still kept add up to that    *)
(* ledger's supply: no token is counted twice and none is lost.            *)
THEOREM TokensAreCountedOnce == Spec => []VotesAddUp
<1>1. Init => ClosedAddUp
  <2>1. Init => /\ ledger = 1 /\ ledger \in Nat
                /\ \A at : \A a \in Account : /\ PastBalance(a, at) = 0
                                              /\ PastDelegatedVotes(a, at) = 0
                /\ \A at : PastSupply(at) = 0
    BY EmptyAnswer DEF Init, PastBalance, PastDelegatedVotes, PastSupply, VoteHistory, Books
  <2>2. ASSUME \A at : \A a \in Account : /\ PastBalance(a, at) = 0
                                          /\ PastDelegatedVotes(a, at) = 0,
               \A at : PastSupply(at) = 0, NEW at
        PROVE  AddsUp(at)
    BY <2>2, SumOfZeros, Groups DEF AddsUp
  <2>3. QED
    BY <2>1, <2>2 DEF ClosedAddUp
<1>2. AccountsOK /\ LocksOK /\ Tallied(Books, delegates, totalSupply) /\ ClosedAddUp /\ [Next]_vars
        => ClosedAddUp'
  BY AddsUpStep
<1>3. AccountsOK /\ LocksOK /\ Tallied(Books, delegates, totalSupply) /\ ClosedAddUp => VotesAddUp
  <2> SUFFICES ASSUME AccountsOK, LocksOK, Tallied(Books, delegates, totalSupply), ClosedAddUp,
                      NEW at \in Window
               PROVE  /\ SumFunction([a \in Account |-> PastDelegatedVotes(a, at)]) = PastSupply(at)
                      /\ SumFunction([a \in Account |-> PastBalance(a, at)]) = PastSupply(at)
    BY DEF VotesAddUp
  <2>1. at = ledger \/ at \in Closed
    BY Numbers, CutoffType DEF Window, Closed
  <2>2. AddsUp(at)
    BY <2>1, OpenAddsUp DEF ClosedAddUp
  <2>3. QED
    BY <2>2 DEF AddsUp, SumFunction
<1>4. QED
  BY <1>1, <1>2, <1>3, TokenSound, VotesAreTallied, PTL DEF Spec

(***************************************************************************)
(* No call is refused by the arithmetic of the votes.                      *)
(***************************************************************************)

(* A transfer or a burn needs the tokens, a mint the room in the supply, a *)
(* delegation nothing: the other guards are met.                           *)
OnlyTokensAreShort ==
  /\ \A from, to \in Account, amount \in Amounts :
       Spendable(from) >= amount => CanMove(from, to, amount)
  /\ \A from \in Account, amount \in Amounts :
       Spendable(from) >= amount =>
         totalSupply >= amount /\ CanSetBalance(Books, from, balance[from] - amount)
  /\ \A to \in Account, amount \in Amounts :
       totalSupply + amount <= MaxAmount =>
         /\ balance[to] + amount <= MaxAmount
         /\ CanSetBalance(Books, to, balance[to] + amount)
  /\ \A delegator, delegatee \in Account :
       delegates[delegator] # delegatee =>
         /\ CurrentVotes(Books, delegates[delegator]) >= balance[delegator]
         /\ CurrentVotes(Books, delegatee) + balance[delegator] <= MaxAmount

(* Every balance and every account's votes are within the supply, and the  *)
(* delegatee's votes cover the balance they come from.                     *)
LEMMA TallyBounds ==
  ASSUME NEW b, BooksOK(b), ledger \in Sequence, delegates \in [Account -> Account],
         NEW supply, Tallied(b, delegates, supply)
  PROVE  /\ supply \in Nat
         /\ \A a \in Account :
              /\ b.balance[a] \in Nat /\ b.balance[a] <= supply
              /\ CurrentVotes(b, a) \in Nat /\ CurrentVotes(b, a) <= supply
              /\ b.balance[a] <= CurrentVotes(b, delegates[a])
<1>1. /\ \A a \in Account : b.balance[a] \in Nat
      /\ \A a \in Account : VotesOf(b)[a] = CurrentVotes(b, a) /\ VotesOf(b)[a] \in Nat
  BY VotesAreAmounts
<1>2. supply \in Nat /\ \A a \in Account : b.balance[a] <= supply
  BY <1>1, SumOfNaturals, Groups DEF Tallied
<1>3. \A a \in Account : VotesOf(b)[a] <= supply
  BY <1>1, SumOfNaturals, Groups DEF Tallied
<1>4. ASSUME NEW a \in Account PROVE b.balance[a] <= CurrentVotes(b, delegates[a])
  <2> DEFINE d == delegates[a]
             G == Group(delegates, d)
  <2>1. a \in G /\ d \in Account
    BY DEF Group
  <2>2. CurrentVotes(b, d) = SumFunctionOnSet(b.balance, G)
    BY <2>1 DEF Tallied, Follows
  <2>3. IsFiniteSet(G) /\ \A x \in G : b.balance[x] \in Nat
    BY <1>1, Groups
  <2> HIDE DEF G
  <2>4. b.balance[a] <= SumFunctionOnSet(b.balance, G)
    BY <2>1, <2>3, SumOfNaturals
  <2>5. QED
    BY <2>2, <2>4
<1>5. QED
  BY <1>1, <1>2, <1>3, <1>4

(* A debit or a credit that the supply can bear passes set_balance.        *)
LEMMA CanSetWithin ==
  ASSUME NEW b, BooksOK(b), ledger \in Sequence, delegates \in [Account -> Account],
         NEW supply, Tallied(b, delegates, supply), NEW a \in Account, NEW value \in Nat,
         supply - b.balance[a] + value <= MaxAmount
  PROVE  CanSetBalance(b, a, value)
<1> DEFINE d == delegates[a]
           votes == CurrentVotes(b, d)
           held == b.balance[a]
<1>1. /\ held \in Nat /\ votes \in Nat /\ supply \in Nat /\ held <= votes /\ votes <= supply
  BY TallyBounds
<1>2. MaxAmount \in Nat
  BY TokenAssumption
<1> HIDE DEF votes, held
<1>3. votes - held + value <= MaxAmount
  <2>1. supply - held + value <= MaxAmount
    BY DEF held
  <2>2. QED
    BY <1>1, <1>2, <2>1
<1>4. QED
  BY <1>1, <1>3 DEF CanSetBalance, VotesAfter, votes, held

LEMMA MoveIsPossible ==
  ASSUME AccountsOK, LocksOK, Tallied(Books, delegates, totalSupply),
         NEW from \in Account, NEW to \in Account, NEW amount \in Amounts,
         Spendable(from) >= amount
  PROVE  CanMove(from, to, amount) /\ totalSupply >= amount
<1> DEFINE d == Debited(Books, from, amount)
           rest == balance[from] - amount
           left == totalSupply - amount
<1>1. /\ BooksOK(Books) /\ Books.balance = balance /\ ledger \in Sequence
      /\ delegates \in [Account -> Account] /\ totalSupply \in Amount
      /\ balance[from] \in Amount
  BY Numbers
<1>2. /\ totalSupply \in Nat /\ balance[from] \in Nat /\ Locked(from) \in Nat
      /\ amount \in Nat /\ MaxAmount \in Nat /\ totalSupply <= MaxAmount
      /\ balance[from] <= MaxAmount
  BY <1>1, NonNegative, TokenAssumption DEF Amount
<1>3. balance[from] <= totalSupply
  BY <1>1, TallyBounds
<1>4. rest \in Nat /\ rest <= MaxAmount /\ totalSupply >= amount
  BY <1>2, <1>3 DEF Spendable
<1>5. rest \in Amount
  BY <1>2, <1>4 DEF Amount
<1>6. totalSupply - Books.balance[from] + rest = left /\ left \in Nat /\ left <= MaxAmount
  BY <1>1, <1>2, <1>4
<1>7. CanSetBalance(Books, from, rest)
  <2>1. totalSupply - Books.balance[from] + rest <= MaxAmount
    BY <1>6
  <2> HIDE DEF rest
  <2>2. QED
    BY <1>1, <1>4, <2>1, CanSetWithin
<1>8. d = SetBalance(Books, from, rest)
  BY <1>1 DEF Debited
<1>9. left = totalSupply - amount
  OBVIOUS
<1>10. rest = balance[from] - amount
  OBVIOUS
<1> HIDE DEF d, rest, left
<1>11. BooksOK(d)
  BY <1>1, <1>5, <1>7, <1>8, SetBalanceOK DEF Kept
<1>12. Tallied(d, delegates, left)
  <2>1. Tallied(d, delegates, totalSupply - Books.balance[from] + rest)
    BY <1>1, <1>5, <1>7, <1>8, SetBalanceTallied
  <2>2. QED
    BY <1>6, <2>1
<1>13. d.balance[to] \in Nat /\ d.balance[to] <= left
  BY <1>1, <1>11, <1>12, TallyBounds
<1>14. /\ d.balance[to] + amount \in Nat /\ d.balance[to] + amount <= MaxAmount
       /\ left - d.balance[to] + (d.balance[to] + amount) <= MaxAmount
  BY <1>2, <1>6, <1>9, <1>13
<1>15. CanSetBalance(d, to, d.balance[to] + amount)
  BY <1>1, <1>11, <1>12, <1>14, CanSetWithin
<1>16. QED
  BY <1>4, <1>7, <1>10, <1>14, <1>15 DEF CanMove, d

LEMMA MintIsPossible ==
  ASSUME AccountsOK, LocksOK, Tallied(Books, delegates, totalSupply),
         NEW to \in Account, NEW amount \in Amounts, totalSupply + amount <= MaxAmount
  PROVE  balance[to] + amount <= MaxAmount /\ CanSetBalance(Books, to, balance[to] + amount)
<1>1. /\ BooksOK(Books) /\ Books.balance = balance /\ ledger \in Sequence
      /\ delegates \in [Account -> Account]
  BY Numbers
<1>2. /\ totalSupply \in Nat /\ balance[to] \in Nat /\ amount \in Nat /\ MaxAmount \in Nat
  BY NonNegative, TokenAssumption
<1>3. balance[to] <= totalSupply
  BY <1>1, TallyBounds
<1>4. /\ balance[to] + amount \in Nat /\ balance[to] + amount <= MaxAmount
      /\ totalSupply - Books.balance[to] + (balance[to] + amount) <= MaxAmount
  BY <1>1, <1>2, <1>3
<1>5. QED
  BY <1>1, <1>4, CanSetWithin

(* Two accounts' votes are within the supply together.                     *)
LEMMA DelegationIsPossible ==
  ASSUME AccountsOK, LocksOK, Tallied(Books, delegates, totalSupply),
         NEW delegator \in Account, NEW delegatee \in Account, delegates[delegator] # delegatee
  PROVE  /\ CurrentVotes(Books, delegates[delegator]) >= balance[delegator]
         /\ CurrentVotes(Books, delegatee) + balance[delegator] <= MaxAmount
<1> DEFINE p == delegates[delegator]
           v == VotesOf(Books)
           R == Account \ {delegatee}
<1>1. /\ BooksOK(Books) /\ Books.balance = balance /\ ledger \in Sequence
      /\ delegates \in [Account -> Account] /\ totalSupply \in Amount
  BY Numbers
<1>2. /\ totalSupply \in Nat /\ MaxAmount \in Nat /\ totalSupply <= MaxAmount
      /\ balance[delegator] \in Nat
  BY <1>1, NonNegative, TokenAssumption DEF Amount
<1>3. balance[delegator] <= CurrentVotes(Books, p)
  BY <1>1, TallyBounds
<1>4. \A a \in Account : v[a] = CurrentVotes(Books, a) /\ v[a] \in Nat
  BY <1>1, VotesAreAmounts
<1>5. p \in R /\ p \in Account /\ delegatee \in Account
  BY <1>1
<1>6. IsFiniteSet(Account) /\ IsFiniteSet(R)
  BY Groups, FS_RemoveElement
<1>7. SumFunctionOnSet(v, Account) = totalSupply
  BY DEF Tallied
<1> HIDE DEF v, p
<1>8. totalSupply = v[delegatee] + SumFunctionOnSet(v, R)
  <2>1. \A a \in Account : v[a] \in Int
    BY <1>4
  <2>2. QED
    BY <1>6, <1>7, <2>1, SumWithout
<1> HIDE DEF R
<1>9. v[p] <= SumFunctionOnSet(v, R) /\ SumFunctionOnSet(v, R) \in Nat
  <2>1. \A a \in R : v[a] \in Nat
    BY <1>4 DEF R
  <2>2. QED
    BY <1>5, <1>6, <2>1, SumOfNaturals
<1>10. v[p] \in Nat /\ v[delegatee] \in Nat
       /\ v[p] = CurrentVotes(Books, p) /\ v[delegatee] = CurrentVotes(Books, delegatee)
  BY <1>4, <1>5
<1>11. CurrentVotes(Books, delegatee) + balance[delegator] <= MaxAmount
  BY <1>2, <1>3, <1>8, <1>9, <1>10
<1>12. CurrentVotes(Books, p) >= balance[delegator]
  BY <1>2, <1>3, <1>10
<1>13. QED
  BY <1>11, <1>12 DEF p

(* The checked arithmetic of set_balance and delegate never refuses a call:*)
(* a transfer or a burn that the unstaked balance covers goes through,     *)
(* whoever holds the votes, a mint within the supply's range too, and a    *)
(* change of delegate always.                                              *)
THEOREM VotesNeverRefuse == Spec => []OnlyTokensAreShort
<1>1. AccountsOK /\ LocksOK /\ Tallied(Books, delegates, totalSupply) => OnlyTokensAreShort
  <2> SUFFICES ASSUME AccountsOK, LocksOK, Tallied(Books, delegates, totalSupply)
               PROVE  OnlyTokensAreShort
    OBVIOUS
  <2>1. \A from, to \in Account, amount \in Amounts :
          Spendable(from) >= amount => CanMove(from, to, amount) /\ totalSupply >= amount
    BY MoveIsPossible
  <2>2. \A from, to \in Account, amount \in Amounts :
          CanMove(from, to, amount) => CanSetBalance(Books, from, balance[from] - amount)
    BY DEF CanMove
  <2>3. QED
    BY <2>1, <2>2, MintIsPossible, DelegationIsPossible DEF OnlyTokensAreShort
<1>2. QED
  BY <1>1, TokenSound, VotesAreTallied, PTL
(***************************************************************************)
(* What the supply never passed, it is not said to have passed.            *)
(***************************************************************************)

PastWithin(most) == \A at \in Closed : PastSupply(at) <= most

LEMMA PastWithinStep ==
  ASSUME AccountsOK, LocksOK, NEW most \in Nat, totalSupply <= most, PastWithin(most), [Next]_vars
  PROVE  PastWithin(most)'
<1> SUFFICES ASSUME NEW at \in Closed' PROVE PastSupply(at)' <= most
  BY DEF PastWithin
<1>1. Sound
  BY StepSound
<1>2. /\ Cutoff(ledger, Retention) <= Cutoff(ledger', Retention)
      /\ Cutoff(ledger, Retention) \in Nat /\ Cutoff(ledger', Retention) \in Nat
      /\ ledger \in Nat
  BY WindowMoves, Numbers
<1>3. at \in Cutoff(ledger', Retention) .. ledger' - 1
  BY DEF Closed
<1>4. CASE at \in Closed
  BY <1>1, <1>4 DEF Sound, SupplySettled, PastWithin
<1>5. CASE at \notin Closed
  <2>1. CloseLedger \/ ledger' = ledger
    BY DEF Next, Administer, Hold, SpendForOthers, vars, Initialize, Mint, TransferAdmin,
           AcceptAdmin, CancelAdminTransfer, Transfer, Burn, Delegate, Stake, Unstake,
           Approve, TransferFrom, BurnFrom
  <2>2. CASE ledger' = ledger
    BY <1>3, <1>5, <2>2 DEF Closed
  <2>3. CASE CloseLedger
    <3>1. ledger' = ledger + 1 /\ UNCHANGED supplyCheckpoints
      BY <2>3 DEF CloseLedger, books, supplyVars
    <3>2. at = ledger
      BY <1>2, <1>3, <1>5, <3>1 DEF Closed
    <3>3. PastSupply(at)' = PastSupply(ledger)
      BY <3>1, <3>2 DEF PastSupply
    <3>4. PastSupply(ledger) = totalSupply
      BY DEF AccountsOK, PastSupply
    <3>5. QED
      BY <3>3, <3>4
  <2>4. QED
    BY <2>1, <2>2, <2>3
<1>6. QED
  BY <1>4, <1>5

PastAtMost(most) == \A at \in Window : PastSupply(at) <= most

LEMMA PastWithinInit ==
  ASSUME Init, NEW most \in Nat
  PROVE  PastWithin(most)
<1>1. ledger = 1 /\ \A at : PastSupply(at) = 0
  BY EmptyAnswer DEF Init, PastSupply
<1>2. QED
  BY <1>1 DEF PastWithin

LEMMA PastWithinAnswers ==
  ASSUME AccountsOK, LocksOK, NEW most \in Nat, totalSupply <= most, PastWithin(most)
  PROVE  PastAtMost(most)
<1> SUFFICES ASSUME NEW at \in Window PROVE PastSupply(at) <= most
  BY DEF PastAtMost
<1>1. at = ledger \/ at \in Closed
  BY Numbers, CutoffType DEF Window, Closed
<1>2. PastSupply(ledger) = totalSupply
  BY DEF AccountsOK, PastSupply
<1>3. QED
  BY <1>1, <1>2 DEF PastWithin

(* get_past_total_supply invents nothing: if the supply has never passed a *)
(* bound, no ledger still kept is answered with more, although the history *)
(* is pruned and its last entry rewritten.                                 *)
THEOREM PastSuppliesAreSupplies ==
  ASSUME NEW most \in Nat
  PROVE  Spec /\ [](totalSupply <= most) => []PastAtMost(most)
<1>1. Init => PastWithin(most)
  BY PastWithinInit
<1>2. AccountsOK /\ LocksOK /\ totalSupply <= most /\ PastWithin(most) /\ [Next]_vars
        => PastWithin(most)'
  BY PastWithinStep
<1>3. AccountsOK /\ LocksOK /\ totalSupply <= most /\ PastWithin(most) => PastAtMost(most)
  BY PastWithinAnswers
<1>4. QED
  BY <1>1, <1>2, <1>3, TokenSound, PTL DEF Spec
==============================================================================
