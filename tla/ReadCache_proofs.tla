--------------------------- MODULE ReadCache_proofs ---------------------------
(***************************************************************************)
(* The read cache never answers with what was given up, for any keys, TTLs *)
(* and limits.  The named conjuncts of Inv are inductive together.         *)
(***************************************************************************)
EXTENDS ReadCache, Sums_proofs

Inv ==
  /\ TypeOK
  /\ FloorsArePast
  /\ EntriesAreFresh
  /\ AnswersFollowReads
  /\ PendingIsInFlight
  /\ ReadsAreFresh

(* Nothing but removals tells the second cache from the first.             *)
Shrinks(c, d) == \A j \in Key : d[j] = c[j] \/ d[j] = NoEntry

(* An evicted or invalidated key has no entry; the others keep theirs.     *)
LEMMA WithoutShrinks ==
  ASSUME NEW c \in [Key -> Entry], NEW keys
  PROVE  /\ Without(c, keys) \in [Key -> Entry]
         /\ Shrinks(c, Without(c, keys))
         /\ \A k \in Key : k \in keys => Without(c, keys)[k] = NoEntry
  BY DEF Without, Shrinks, NoEntry, Entry

(* A reservation is the read's own entry, and at most removes others.      *)
LEMMA ReservedShrinks ==
  ASSUME NEW c \in [Key -> Entry], NEW k \in Key, NEW id \in Nat
  PROVE  /\ Reserved(c, k, id) \in [Key -> Entry]
         /\ Reserved(c, k, id)[k] = [read |-> id, pending |-> TRUE, expires |-> 0, value |-> 0]
         /\ \A j \in Key \ {k} :
              Reserved(c, k, id)[j] = c[j] \/ Reserved(c, k, id)[j] = NoEntry
  <1> DEFINE d == Without(c, {k} \cup Lapsed(c))
             e == Trimmed(d)
  <1>1. d \in [Key -> Entry] /\ Shrinks(c, d)
    BY WithoutShrinks
  <1>2. e \in [Key -> Entry] /\ Shrinks(d, e)
    <2>1. CASE Cardinality(Present(d)) >= MaxEntries
      <3>1. e = Without(d, Oldest(d))
        BY <2>1 DEF Trimmed
      <3> HIDE DEF d, e
      <3>2. QED
        BY <3>1, <1>1, WithoutShrinks
    <2>2. CASE ~(Cardinality(Present(d)) >= MaxEntries)
      <3>1. e = d
        BY <2>2 DEF Trimmed
      <3> HIDE DEF d, e
      <3>2. QED
        BY <3>1, <1>1 DEF Shrinks
    <2>3. QED
      BY <2>1, <2>2
  <1>3. Reserved(c, k, id) =
          [e EXCEPT ![k] = [read |-> id, pending |-> TRUE, expires |-> 0, value |-> 0]]
    BY DEF Reserved
  <1>4. [read |-> id, pending |-> TRUE, expires |-> 0, value |-> 0] \in Entry
    BY DEF Entry
  <1> HIDE DEF d, e
  <1>5. QED
    BY <1>1, <1>2, <1>3, <1>4 DEF Shrinks

(* What read and invalidate find after an optional eviction of the key.    *)
LEMMA EvictedShrinks ==
  ASSUME TypeOK, NEW k \in Key, NEW invalidate \in BOOLEAN
  PROVE  /\ Evicted(k, invalidate) \in [Key -> Entry]
         /\ Shrinks(cache, Evicted(k, invalidate))
         /\ invalidate => Evicted(k, invalidate)[k] = NoEntry
  BY WithoutShrinks DEF Evicted, TypeOK, Shrinks

(* A new call of read, with what a hit returns or nothing yet.             *)
LEMMA CallType ==
  ASSUME TypeOK, NEW k \in Key, NEW v \in Nat, NEW s \in {"asked", "returned"}
  PROVE  /\ Call(k, s, v) \in Read
         /\ Append(reads, Call(k, s, v)) \in Seq(Read)
         /\ DOMAIN Append(reads, Call(k, s, v)) = 1 .. Len(reads) + 1
         /\ \A i \in DOMAIN reads : Append(reads, Call(k, s, v))[i] = reads[i]
         /\ Append(reads, Call(k, s, v))[Len(reads) + 1] = Call(k, s, v)
         /\ DOMAIN reads = 1 .. Len(reads) /\ Len(reads) \in Nat
  <1>1. Call(k, s, v) \in Read
    BY DEF Call, Read, TypeOK
  <1>2. QED
    BY <1>1 DEF TypeOK

(* A call that is answered, returns or fails.                              *)
LEMMA ChangedCall ==
  ASSUME TypeOK, NEW id \in DOMAIN reads, NEW r \in Read,
         reads' = [reads EXCEPT ![id] = r]
  PROVE  /\ reads' \in Seq(Read)
         /\ DOMAIN reads' = DOMAIN reads
         /\ reads'[id] = r
         /\ \A i \in DOMAIN reads : i # id => reads'[i] = reads[i]
  BY DEF TypeOK

(* A call of read that asks the network has at most removed entries of     *)
(* other keys, and has reserved, evicted or kept the one of its own.       *)
LEMMA AskingKeepsInv ==
  ASSUME Inv, NEW k \in Key, cache' \in [Key -> Entry],
         \A j \in Key \ {k} : cache'[j] = cache[j] \/ cache'[j] = NoEntry,
         \/ cache'[k] = NoEntry /\ floor' \in {floor, [floor EXCEPT ![k] = version]}
         \/ cache'[k] = cache[k] /\ floor' = floor
         \/ /\ cache'[k] = [read |-> Len(reads) + 1, pending |-> TRUE, expires |-> 0, value |-> 0]
            /\ floor' = [floor EXCEPT ![k] = version],
         reads' = Append(reads, Call(k, "asked", 0)), UNCHANGED <<now, version>>
  PROVE  Inv'
  <1> DEFINE n == Len(reads) + 1
  <1>1. TypeOK /\ FloorsArePast /\ EntriesAreFresh /\ AnswersFollowReads
        /\ PendingIsInFlight /\ ReadsAreFresh
    BY DEF Inv
  <1>2. /\ reads' \in Seq(Read)
        /\ DOMAIN reads' = 1 .. n
        /\ \A i \in DOMAIN reads : reads'[i] = reads[i]
        /\ reads'[n] = Call(k, "asked", 0)
        /\ DOMAIN reads = 1 .. Len(reads) /\ Len(reads) \in Nat
    BY <1>1, CallType
  <1>3. reads'[n] = [key |-> k, state |-> "asked", value |-> 0,
                     issued |-> version, floor |-> floor[k]]
    BY <1>2 DEF Call
  <1>4. /\ floor' \in [Key -> Nat]
        /\ \A j \in Key \ {k} : floor'[j] = floor[j]
        /\ floor'[k] = floor[k] \/ floor'[k] = version
        /\ version' = version /\ now' = now /\ version \in Nat
    BY <1>1 DEF TypeOK
  <1>5. \A i \in DOMAIN reads' : i \in DOMAIN reads \/ i = n
    BY <1>2
  <1>6. TypeOK'
    BY <1>1, <1>2, <1>4 DEF TypeOK
  <1>7. FloorsArePast'
    BY <1>1, <1>4 DEF FloorsArePast
  <1>8. AnswersFollowReads'
    BY <1>1, <1>2, <1>3, <1>4, <1>5 DEF AnswersFollowReads, FloorsArePast, TypeOK
  <1>9. ReadsAreFresh'
    BY <1>1, <1>2, <1>3, <1>5 DEF ReadsAreFresh
  <1>10. \A j \in Key : \/ cache'[j] = NoEntry
                        \/ cache'[j] = cache[j] /\ floor'[j] = floor[j]
                        \/ /\ j = k /\ floor'[k] = version
                           /\ cache'[k] = [read |-> n, pending |-> TRUE, expires |-> 0, value |-> 0]
    BY <1>1, <1>4 DEF TypeOK
  <1>11. n \in DOMAIN reads'
    BY <1>2
  <1>12. PendingIsInFlight'
    <2>1. SUFFICES ASSUME NEW j \in Key, cache'[j].pending
                   PROVE  /\ cache'[j].read \in DOMAIN reads'
                          /\ reads'[cache'[j].read].key = j
                          /\ reads'[cache'[j].read].state \in {"asked", "answered"}
      BY DEF PendingIsInFlight
    <2>2. CASE cache'[j] = cache[j]
      BY <1>1, <1>2, <2>1, <2>2 DEF PendingIsInFlight
    <2>3. CASE j = k /\ cache'[k].read = n
      BY <1>3, <1>11, <2>3
    <2>4. cache'[j] # NoEntry
      BY <2>1 DEF NoEntry
    <2>5. QED
      BY <1>10, <2>2, <2>3, <2>4
  <1>13. EntriesAreFresh'
    <2>1. SUFFICES ASSUME NEW j \in Key, cache'[j].read # 0
                   PROVE  /\ cache'[j].read \in DOMAIN reads'
                          /\ reads'[cache'[j].read].key = j
                          /\ reads'[cache'[j].read].issued >= floor'[j]
                          /\ ~cache'[j].pending => cache'[j].value >= floor'[j]
      BY DEF EntriesAreFresh, Present
    <2>2. CASE cache'[j] = cache[j] /\ floor'[j] = floor[j]
      BY <1>1, <1>2, <2>1, <2>2 DEF EntriesAreFresh, Present
    <2>3. CASE /\ j = k /\ floor'[k] = version
               /\ cache'[k] = [read |-> n, pending |-> TRUE, expires |-> 0, value |-> 0]
      BY <1>3, <1>4, <1>11, <2>3
    <2>4. cache'[j] # NoEntry
      BY <2>1 DEF NoEntry
    <2>5. QED
      BY <1>10, <2>2, <2>3, <2>4
  <1>14. QED
    BY <1>6, <1>7, <1>8, <1>9, <1>12, <1>13 DEF Inv

(* The calls of read.                                                      *)
LEMMA ReadsKeepInv ==
  ASSUME Inv, NEW k \in Key, NEW invalidate \in BOOLEAN,
         ReadDirect(k, invalidate) \/ ReadMiss(k, invalidate)
  PROVE  Inv'
  <1>1. TypeOK /\ Len(reads) + 1 \in Nat
    BY DEF Inv, TypeOK
  <1>2. /\ Evicted(k, invalidate) \in [Key -> Entry]
        /\ Shrinks(cache, Evicted(k, invalidate))
        /\ invalidate => Evicted(k, invalidate)[k] = NoEntry
        /\ ~invalidate => Evicted(k, invalidate) = cache
    BY <1>1, EvictedShrinks DEF Evicted
  <1>3. CASE ReadDirect(k, invalidate)
    <2>1. /\ cache' = Evicted(k, invalidate)
          /\ floor' = [floor EXCEPT ![k] = IF invalidate THEN version ELSE @]
          /\ reads' = Append(reads, Call(k, "asked", 0))
          /\ UNCHANGED <<now, version>>
      BY <1>3 DEF ReadDirect
    <2>2. ~invalidate => floor' = floor
      BY <1>1, <2>1 DEF TypeOK
    <2>3. QED
      BY <1>2, <2>1, <2>2, AskingKeepsInv DEF Shrinks
  <1>4. CASE ReadMiss(k, invalidate)
    <2>1. /\ cache' = Reserved(Evicted(k, invalidate), k, Len(reads) + 1)
          /\ floor' = [floor EXCEPT ![k] = version]
          /\ reads' = Append(reads, Call(k, "asked", 0))
          /\ UNCHANGED <<now, version>>
      BY <1>4 DEF ReadMiss
    <2>2. /\ cache' \in [Key -> Entry]
          /\ cache'[k] = [read |-> Len(reads) + 1, pending |-> TRUE, expires |-> 0, value |-> 0]
          /\ \A j \in Key \ {k} :
               cache'[j] = Evicted(k, invalidate)[j] \/ cache'[j] = NoEntry
      BY <1>1, <1>2, <2>1, ReservedShrinks
    <2>3. QED
      BY <1>2, <2>1, <2>2, AskingKeepsInv DEF Shrinks
  <1>5. QED
    BY <1>3, <1>4

(* A hit returns a filled entry's value, which is no older than the floor. *)
LEMMA HitsKeepInv ==
  ASSUME Inv, NEW k \in Key, ReadHit(k)
  PROVE  Inv'
  <1> DEFINE n == Len(reads) + 1
  <1>1. TypeOK /\ FloorsArePast /\ EntriesAreFresh /\ AnswersFollowReads
        /\ PendingIsInFlight /\ ReadsAreFresh
    BY DEF Inv
  <1>2. /\ reads' = Append(reads, Call(k, "returned", cache[k].value))
        /\ UNCHANGED <<now, version, cache, floor>>
        /\ cache[k].read # 0 /\ ~cache[k].pending
    BY DEF ReadHit, Hit
  <1>3. cache[k].value \in Nat /\ cache[k].value >= floor[k]
    BY <1>1, <1>2 DEF EntriesAreFresh, Present, TypeOK, Entry
  <1>4. /\ reads' \in Seq(Read)
        /\ DOMAIN reads' = 1 .. n
        /\ \A i \in DOMAIN reads : reads'[i] = reads[i]
        /\ reads'[n] = Call(k, "returned", cache[k].value)
        /\ DOMAIN reads = 1 .. Len(reads) /\ Len(reads) \in Nat
    BY <1>1, <1>2, <1>3, CallType
  <1>5. reads'[n] = [key |-> k, state |-> "returned", value |-> cache[k].value,
                     issued |-> version, floor |-> floor[k]]
    BY <1>4 DEF Call
  <1>6. DOMAIN reads \subseteq DOMAIN reads' /\ \A i \in DOMAIN reads' : i \in DOMAIN reads \/ i = n
    BY <1>4
  <1>7. TypeOK' /\ FloorsArePast'
    BY <1>1, <1>2, <1>4 DEF TypeOK, FloorsArePast
  <1>8. AnswersFollowReads'
    BY <1>1, <1>2, <1>4, <1>5, <1>6 DEF AnswersFollowReads, FloorsArePast, TypeOK
  <1>9. ReadsAreFresh'
    BY <1>1, <1>3, <1>4, <1>5, <1>6 DEF ReadsAreFresh
  <1>10. EntriesAreFresh'
    BY <1>1, <1>2, <1>4, <1>6 DEF EntriesAreFresh, Present
  <1>11. PendingIsInFlight'
    BY <1>1, <1>2, <1>4, <1>6 DEF PendingIsInFlight
  <1>12. QED
    BY <1>7, <1>8, <1>9, <1>10, <1>11 DEF Inv

(* The contracts answer with the version they are in.                      *)
LEMMA AnswersKeepInv ==
  ASSUME Inv, NEW id \in DOMAIN reads, Answer(id)
  PROVE  Inv'
  <1> DEFINE r == [reads[id] EXCEPT !.state = "answered", !.value = version]
  <1>1. TypeOK /\ FloorsArePast /\ EntriesAreFresh /\ AnswersFollowReads
        /\ PendingIsInFlight /\ ReadsAreFresh
    BY DEF Inv
  <1>2. reads[id] \in Read
    BY <1>1 DEF TypeOK
  <1>3. /\ r \in Read /\ r.key = reads[id].key /\ r.state = "answered" /\ r.value = version
        /\ r.issued = reads[id].issued /\ r.floor = reads[id].floor
    BY <1>1, <1>2 DEF Read, TypeOK
  <1>4. reads' = [reads EXCEPT ![id] = r] /\ UNCHANGED <<now, version, cache, floor>>
    BY DEF Answer
  <1>5. /\ reads' \in Seq(Read) /\ DOMAIN reads' = DOMAIN reads /\ reads'[id] = r
        /\ \A i \in DOMAIN reads : i # id => reads'[i] = reads[i]
    BY <1>1, <1>3, <1>4, ChangedCall
  <1> HIDE DEF r
  <1>6. TypeOK' /\ FloorsArePast'
    BY <1>1, <1>4, <1>5 DEF TypeOK, FloorsArePast
  <1>7. AnswersFollowReads'
    BY <1>1, <1>3, <1>4, <1>5 DEF AnswersFollowReads
  <1>8. ReadsAreFresh'
    BY <1>1, <1>3, <1>5 DEF ReadsAreFresh
  <1>9. EntriesAreFresh'
    BY <1>1, <1>3, <1>4, <1>5 DEF EntriesAreFresh, Present
  <1>10. PendingIsInFlight'
    BY <1>1, <1>3, <1>4, <1>5 DEF PendingIsInFlight
  <1>11. QED
    BY <1>6, <1>7, <1>8, <1>9, <1>10 DEF Inv

(* A read that returned or failed leaves its reservation filled or gone;   *)
(* an entry that was not its own it leaves alone.                          *)
LEMMA EndingsKeepInv ==
  ASSUME Inv, NEW id \in DOMAIN reads, Return(id) \/ Fail(id)
  PROVE  Inv'
  <1> DEFINE k == reads[id].key
             s == IF Return(id) THEN "returned" ELSE "failed"
             r == [reads[id] EXCEPT !.state = s]
             filled == [cache[k] EXCEPT !.value = reads[id].value,
                                        !.expires = now + Ttl[k],
                                        !.pending = FALSE]
  <1>1. TypeOK /\ FloorsArePast /\ EntriesAreFresh /\ AnswersFollowReads
        /\ PendingIsInFlight /\ ReadsAreFresh
    BY DEF Inv
  <1>2. reads[id] \in Read /\ k \in Key
    <2>1. reads[id] \in Read
      BY <1>1 DEF TypeOK
    <2>2. QED
      BY <2>1 DEF Read
  <1>3. /\ r \in Read /\ r.key = k /\ r.state = s /\ r.value = reads[id].value
        /\ r.issued = reads[id].issued /\ r.floor = reads[id].floor
        /\ s \in {"returned", "failed"}
    BY <1>2 DEF Read
  <1>4. reads' = [reads EXCEPT ![id] = r] /\ UNCHANGED <<now, version, floor>>
    <2>1. CASE Return(id)
      BY <2>1 DEF Return
    <2>2. CASE Fail(id) /\ ~Return(id)
      BY <2>2 DEF Fail
    <2>3. QED
      BY <2>1, <2>2
  <1>5. /\ reads' \in Seq(Read) /\ DOMAIN reads' = DOMAIN reads /\ reads'[id] = r
        /\ \A i \in DOMAIN reads : i # id => reads'[i] = reads[i]
    BY <1>1, <1>3, <1>4, ChangedCall
  <1>6. /\ s = "returned" => reads[id].state = "answered"
        /\ \A j \in Key : j # k => cache'[j] = cache[j]
        /\ \/ cache'[k] = cache[k] /\ ~Owns(id)
           \/ cache'[k] = NoEntry
           \/ cache'[k] = filled /\ Owns(id) /\ s = "returned"
        /\ cache' \in [Key -> Entry]
    <2>1. CASE Return(id)
      <3>1. /\ reads[id].state = "answered"
            /\ cache' = IF Owns(id) THEN [cache EXCEPT ![k] = filled] ELSE cache
        <4>1. reads[id].state = "answered" /\ (~Owns(id) => cache' = cache)
          BY <2>1 DEF Return
        <4>2. ASSUME Owns(id) PROVE cache' = [cache EXCEPT ![k] = filled]
          BY <1>1, <1>2, <2>1, <4>2 DEF Return, TypeOK, Entry
        <4>3. QED
          BY <4>1, <4>2
      <3>2. filled \in Entry
        <4>1. now + Ttl[k] \in Nat
          BY <1>1, <1>2, CacheAssumption DEF TypeOK
        <4>2. QED
          BY <1>1, <1>2, <4>1 DEF TypeOK, Entry, Read
      <3> HIDE DEF filled
      <3>3. QED
        BY <1>1, <1>2, <2>1, <3>1, <3>2 DEF TypeOK
    <2>2. CASE Fail(id) /\ ~Return(id)
      <3>1. cache' = IF Owns(id) THEN Without(cache, {k}) ELSE cache
        BY <2>2 DEF Fail, Dropped
      <3>2. Without(cache, {k}) \in [Key -> Entry]
        BY <1>1, WithoutShrinks DEF TypeOK
      <3>3. QED
        BY <1>1, <1>2, <2>2, <3>1, <3>2 DEF TypeOK, Without
    <2>3. QED
      BY <2>1, <2>2
  <1>7. /\ filled.read = cache[k].read /\ ~filled.pending
        /\ filled.value = reads[id].value
    BY <1>1, <1>2 DEF TypeOK, Entry
  <1> HIDE DEF r, filled, s
  <1>8. TypeOK' /\ FloorsArePast'
    BY <1>1, <1>4, <1>5, <1>6 DEF TypeOK, FloorsArePast
  <1>9. AnswersFollowReads'
    BY <1>1, <1>3, <1>4, <1>5 DEF AnswersFollowReads
  <1>10. ReadsAreFresh'
    <2>1. ASSUME s = "returned" PROVE reads[id].value >= reads[id].floor
      BY <1>1, <1>2, <1>6, <2>1 DEF AnswersFollowReads, Read
    <2>2. QED
      BY <1>1, <1>3, <1>5, <2>1 DEF ReadsAreFresh
  <1>11. EntriesAreFresh'
    <2>1. SUFFICES ASSUME NEW j \in Key, cache'[j].read # 0
                   PROVE  /\ cache'[j].read \in DOMAIN reads'
                          /\ reads'[cache'[j].read].key = j
                          /\ reads'[cache'[j].read].issued >= floor'[j]
                          /\ ~cache'[j].pending => cache'[j].value >= floor'[j]
      BY DEF EntriesAreFresh, Present
    <2>2. CASE cache'[j] = cache[j]
      BY <1>1, <1>3, <1>4, <1>5, <2>1, <2>2 DEF EntriesAreFresh, Present
    <2>3. CASE j = k /\ cache'[k] = filled /\ Owns(id) /\ s = "returned"
      <3>1. cache[k].read = id /\ cache[k].read # 0
        BY <1>7, <2>1, <2>3 DEF Owns
      <3>2. reads[id].issued >= floor[k] /\ reads[id].value >= reads[id].issued
        BY <1>1, <1>2, <1>6, <2>3, <3>1 DEF EntriesAreFresh, Present, AnswersFollowReads
      <3>3. reads[id].value >= floor[k]
        BY <1>1, <1>2, <3>2 DEF Read, TypeOK
      <3>4. QED
        BY <1>2, <1>3, <1>4, <1>5, <1>7, <2>3, <3>1, <3>2, <3>3
    <2>4. cache'[j] # NoEntry
      BY <2>1 DEF NoEntry
    <2>5. QED
      BY <1>2, <1>6, <2>2, <2>3, <2>4
  <1>12. PendingIsInFlight'
    <2>1. SUFFICES ASSUME NEW j \in Key, cache'[j].pending
                   PROVE  /\ cache'[j].read \in DOMAIN reads'
                          /\ reads'[cache'[j].read].key = j
                          /\ reads'[cache'[j].read].state \in {"asked", "answered"}
      BY DEF PendingIsInFlight
    <2>2. cache'[j] = cache[j] /\ (j = k => ~Owns(id))
      BY <1>2, <1>6, <1>7, <2>1 DEF NoEntry
    <2>3. cache[j].read # id
      BY <1>1, <2>1, <2>2 DEF PendingIsInFlight, Owns
    <2>4. QED
      BY <1>1, <1>5, <2>1, <2>2, <2>3 DEF PendingIsInFlight
  <1>13. QED
    BY <1>8, <1>9, <1>10, <1>11, <1>12 DEF Inv

(* An invalidation only removes entries, and raises only their floors.     *)
LEMMA InvalidationsKeepInv ==
  ASSUME Inv, NEW keys \in Scopes, Invalidate(keys)
  PROVE  Inv'
  <1>1. TypeOK /\ FloorsArePast /\ EntriesAreFresh /\ AnswersFollowReads
        /\ PendingIsInFlight /\ ReadsAreFresh
    BY DEF Inv
  <1>2. /\ cache' \in [Key -> Entry]
        /\ \A j \in Key : cache'[j] = NoEntry \/ (cache'[j] = cache[j] /\ floor'[j] = floor[j])
        /\ \A j \in Key : floor'[j] = floor[j] \/ floor'[j] = version
        /\ floor' \in [Key -> Nat]
        /\ UNCHANGED <<now, version, reads>>
    BY <1>1 DEF Invalidate, Without, TypeOK, NoEntry, Entry
  <1>3. TypeOK' /\ FloorsArePast' /\ AnswersFollowReads' /\ ReadsAreFresh'
    BY <1>1, <1>2 DEF TypeOK, FloorsArePast, AnswersFollowReads, ReadsAreFresh
  <1>4. EntriesAreFresh' /\ PendingIsInFlight'
    BY <1>1, <1>2 DEF EntriesAreFresh, PendingIsInFlight, Present, NoEntry
  <1>5. QED
    BY <1>3, <1>4 DEF Inv

(* The cache's invariant, of which the theorems are conjuncts.             *)
LEMMA CacheInvariant == Spec => []Inv
  <1>1. Init => Inv
    <2>1. ASSUME Init PROVE Inv
      <3>1. TypeOK /\ FloorsArePast
        BY <2>1 DEF Init, TypeOK, FloorsArePast, NoEntry, Entry
      <3>2. AnswersFollowReads /\ ReadsAreFresh
        BY <2>1 DEF Init, AnswersFollowReads, ReadsAreFresh
      <3>3. EntriesAreFresh /\ PendingIsInFlight
        BY <2>1 DEF Init, EntriesAreFresh, PendingIsInFlight, Present, NoEntry
      <3>4. QED
        BY <3>1, <3>2, <3>3 DEF Inv
    <2>2. QED
      BY <2>1
  <1>2. Inv /\ [Next]_vars => Inv'
    <2>1. SUFFICES ASSUME Inv, [Next]_vars PROVE Inv'
      OBVIOUS
    <2>2. CASE \E k \in Key, invalidate \in BOOLEAN :
                 ReadDirect(k, invalidate) \/ ReadMiss(k, invalidate)
      BY <2>1, <2>2, ReadsKeepInv
    <2>3. CASE \E k \in Key : ReadHit(k)
      BY <2>1, <2>3, HitsKeepInv
    <2>4. CASE \E id \in DOMAIN reads : Answer(id) \/ Return(id) \/ Fail(id)
      BY <2>1, <2>4, AnswersKeepInv, EndingsKeepInv
    <2>5. CASE \E keys \in Scopes : Invalidate(keys)
      BY <2>1, <2>5, InvalidationsKeepInv
    <2>6. CASE Write \/ Tick \/ UNCHANGED vars
      <3>1. /\ UNCHANGED <<cache, reads, floor>>
            /\ now' \in Nat /\ version' \in Nat /\ version' >= version
        BY <2>1, <2>6 DEF Write, Tick, vars, Inv, TypeOK
      <3>2. TypeOK' /\ FloorsArePast' /\ ReadsAreFresh'
        BY <2>1, <3>1 DEF Inv, TypeOK, FloorsArePast, ReadsAreFresh
      <3>3. \A id \in DOMAIN reads : reads[id].issued \in Nat
        <4>1. \A id \in DOMAIN reads : reads[id] \in Read
          BY <2>1 DEF Inv, TypeOK
        <4>2. QED
          BY <4>1 DEF Read
      <3>4. version \in Nat /\ AnswersFollowReads
        BY <2>1 DEF Inv, TypeOK
      <3>5. AnswersFollowReads'
        BY <3>1, <3>3, <3>4 DEF AnswersFollowReads
      <3>6. EntriesAreFresh' /\ PendingIsInFlight'
        BY <2>1, <3>1 DEF Inv, EntriesAreFresh, PendingIsInFlight, Present
      <3>7. QED
        BY <3>2, <3>5, <3>6 DEF Inv
    <2>7. QED
      BY <2>1, <2>2, <2>3, <2>4, <2>5, <2>6 DEF Next
  <1>3. QED
    BY <1>1, <1>2, PTL DEF Spec

(* The cache, the reads and the floors keep their types.                   *)
THEOREM CacheTypeOK == Spec => []TypeOK
  <1>1. Inv => TypeOK
    BY DEF Inv
  <1>2. QED
    BY <1>1, CacheInvariant, PTL

(* Whatever overlaps, no read returns an answer from before its key was    *)
(* last invalidated or asked for anew ahead of that read.                  *)
THEOREM CachedReadsAreFresh == Spec => []ReadsAreFresh
  <1>1. Inv => ReadsAreFresh
    BY DEF Inv
  <1>2. QED
    BY <1>1, CacheInvariant, PTL

(* No reservation outlives the read that made it.                          *)
THEOREM NoReservationIsLeft == Spec => []PendingIsInFlight
  <1>1. Inv => PendingIsInFlight
    BY DEF Inv
  <1>2. QED
    BY <1>1, CacheInvariant, PTL

(***************************************************************************)
(* The limit.                                                              *)
(***************************************************************************)

(* A cache has finitely many entries, and no more when some are removed.   *)
LEMMA PresentShrinks ==
  ASSUME NEW c \in [Key -> Entry], NEW d, Present(d) \subseteq Present(c)
  PROVE  /\ IsFiniteSet(Present(d)) /\ Cardinality(Present(d)) \in Nat
         /\ Cardinality(Present(d)) <= Cardinality(Present(c))
         /\ Cardinality(Present(c)) \in Nat
<1>1. IsFiniteSet(Present(c))
  BY KeyAssumption, FS_Subset DEF Present
<1>2. QED
  BY <1>1, FS_Subset, FS_CardinalityType

(* Removed entries are not present.                                        *)
LEMMA PresentWithout ==
  ASSUME NEW c \in [Key -> Entry], NEW keys
  PROVE  Present(Without(c, keys)) = Present(c) \ keys
  BY DEF Present, Without, NoEntry

(* At the limit there is an oldest entry to remove.                        *)
LEMMA TrimmedFits ==
  ASSUME NEW c \in [Key -> Entry], Cardinality(Present(c)) <= MaxEntries
  PROVE  /\ Present(Trimmed(c)) \subseteq Present(c)
         /\ Cardinality(Present(Trimmed(c))) < MaxEntries
<1>1. MaxEntries \in Nat /\ MaxEntries > 0
  BY CacheAssumption
<1>2. IsFiniteSet(Present(c)) /\ Cardinality(Present(c)) \in Nat
  BY PresentShrinks
<1>3. CASE Cardinality(Present(c)) < MaxEntries
  BY <1>1, <1>2, <1>3 DEF Trimmed
<1>4. CASE Cardinality(Present(c)) >= MaxEntries
  <2>1. Trimmed(c) = Without(c, Oldest(c))
    BY <1>4 DEF Trimmed
  <2>2. Present(Trimmed(c)) = Present(c) \ Oldest(c)
    BY <2>1, PresentWithout
  <2>3. PICK k \in Present(c) : k \in Oldest(c)
    <3> DEFINE R == {c[k].read : k \in Present(c)}
    <3>1. Present(c) # {}
      BY <1>1, <1>4, FS_EmptySet
    <3>2. R \in SUBSET Nat /\ R # {}
      BY <3>1 DEF Present, Entry
    <3> HIDE DEF R
    <3>3. PICK m \in R : \A i \in R : m <= i
      BY <3>2, LeastElement
    <3>4. PICK k \in Present(c) : c[k].read = m
      BY <3>3 DEF R
    <3>5. \A j \in Present(c) : c[k].read <= c[j].read
      BY <3>3, <3>4 DEF R
    <3>6. QED
      BY <3>4, <3>5 DEF Oldest
  <2>4. /\ IsFiniteSet(Present(c) \ {k})
        /\ Cardinality(Present(c) \ {k}) = Cardinality(Present(c)) - 1
    BY <1>2, <2>3, FS_RemoveElement
  <2>5. Present(Trimmed(c)) \subseteq Present(c) \ {k}
    BY <2>2, <2>3
  <2>6. Cardinality(Present(Trimmed(c))) <= Cardinality(Present(c)) - 1
    BY <2>4, <2>5, FS_Subset
  <2>7. Cardinality(Present(Trimmed(c))) \in Nat
    BY <2>4, <2>5, FS_Subset, FS_CardinalityType
  <2>8. QED
    BY <1>1, <1>2, <2>2, <2>6, <2>7
<1>5. QED
  BY <1>1, <1>2, <1>3, <1>4

LEMMA ReservedFits ==
  ASSUME NEW c \in [Key -> Entry], NEW k \in Key, NEW id \in Nat,
         Cardinality(Present(c)) <= MaxEntries
  PROVE  Cardinality(Present(Reserved(c, k, id))) <= MaxEntries
<1> DEFINE d == Without(c, {k} \cup Lapsed(c))
           e == Trimmed(d)
           f == Reserved(c, k, id)
<1>1. d \in [Key -> Entry] /\ Present(d) \subseteq Present(c)
  BY WithoutShrinks, PresentWithout
<1>2. f = [e EXCEPT ![k] = [read |-> id, pending |-> TRUE, expires |-> 0, value |-> 0]]
  BY DEF Reserved
<1> HIDE DEF d
<1>3. Cardinality(Present(d)) <= MaxEntries
  BY <1>1, PresentShrinks, CacheAssumption
<1>4. Present(e) \subseteq Present(d) /\ Cardinality(Present(e)) < MaxEntries
  BY <1>1, <1>3, TrimmedFits
<1>5. e = [j \in Key |-> e[j]]
  BY <1>1 DEF Trimmed, Without
<1> HIDE DEF e
<1>6. IsFiniteSet(Present(e)) /\ Cardinality(Present(e)) \in Nat
  BY <1>1, <1>4, PresentShrinks
<1> HIDE DEF f
<1>7. Present(f) \subseteq Present(e) \cup {k}
  BY <1>2, <1>5 DEF Present
<1>8. /\ IsFiniteSet(Present(e) \cup {k})
      /\ Cardinality(Present(e) \cup {k}) <= Cardinality(Present(e)) + 1
      /\ Cardinality(Present(e) \cup {k}) \in Nat
  <2>1. IsFiniteSet(Present(e) \cup {k})
    BY <1>6, FS_AddElement
  <2>2. \/ Cardinality(Present(e) \cup {k}) = Cardinality(Present(e))
        \/ Cardinality(Present(e) \cup {k}) = Cardinality(Present(e)) + 1
    BY <1>6, FS_AddElement
  <2>3. QED
    BY <1>6, <2>1, <2>2, FS_CardinalityType
<1>9. Cardinality(Present(f)) <= Cardinality(Present(e) \cup {k}) /\ Cardinality(Present(f)) \in Nat
  BY <1>7, <1>8, FS_Subset, FS_CardinalityType
<1>10. Cardinality(Present(f)) <= MaxEntries
  BY <1>4, <1>6, <1>8, <1>9, CacheAssumption
<1>11. QED
  BY <1>10 DEF f

(* "maxEntries bounds memory": the entries, reservations in flight         *)
(* included, never exceed the limit, however reads overlap.                *)
THEOREM CacheIsBounded == Spec => []Bounded
<1>1. Init => Bounded
  <2>1. ASSUME Init PROVE Present(cache) = {}
    BY <2>1 DEF Init, Present, NoEntry
  <2>2. QED
    BY <2>1, FS_EmptySet, CacheAssumption DEF Bounded
<1>2. Inv /\ Bounded /\ [Next]_vars => Bounded'
  <2> SUFFICES ASSUME Inv, Bounded, [Next]_vars PROVE Bounded'
    OBVIOUS
  <2>1. /\ cache \in [Key -> Entry] /\ Cardinality(Present(cache)) <= MaxEntries
        /\ Len(reads) + 1 \in Nat /\ MaxEntries \in Nat
    BY CacheAssumption DEF Inv, TypeOK, Bounded
  <2>2. ASSUME Present(cache') \subseteq Present(cache) PROVE Bounded'
    <3>1. /\ Cardinality(Present(cache')) <= Cardinality(Present(cache))
          /\ Cardinality(Present(cache')) \in Nat /\ Cardinality(Present(cache)) \in Nat
      BY <2>1, <2>2, PresentShrinks
    <3>2. Present(cache)' = Present(cache')
      BY DEF Present
    <3>3. QED
      BY <2>1, <3>1, <3>2 DEF Bounded
  <2>3. ASSUME NEW keys PROVE Present(Without(cache, keys)) \subseteq Present(cache)
    BY <2>1, PresentWithout
  <2>4. ASSUME NEW k \in Key, NEW invalidate \in BOOLEAN
        PROVE  /\ Evicted(k, invalidate) \in [Key -> Entry]
               /\ Present(Evicted(k, invalidate)) \subseteq Present(cache)
    BY <2>1, <2>3, WithoutShrinks DEF Evicted
  <2>5. ASSUME NEW k \in Key, NEW invalidate \in BOOLEAN, ReadDirect(k, invalidate)
        PROVE  Bounded'
    BY <2>2, <2>4, <2>5 DEF ReadDirect
  <2>6. ASSUME NEW k \in Key, NEW invalidate \in BOOLEAN, ReadMiss(k, invalidate)
        PROVE  Bounded'
    <3> DEFINE c == Evicted(k, invalidate)
    <3>1. c \in [Key -> Entry] /\ Present(c) \subseteq Present(cache)
      BY <2>4
    <3>2. cache' = Reserved(c, k, Len(reads) + 1)
      BY <2>6 DEF ReadMiss
    <3> HIDE DEF c
    <3>3. Cardinality(Present(c)) <= MaxEntries
      BY <2>1, <3>1, PresentShrinks
    <3>4. Cardinality(Present(cache')) <= MaxEntries
      BY <2>1, <3>1, <3>2, <3>3, ReservedFits
    <3>5. Present(cache)' = Present(cache')
      BY DEF Present
    <3>6. QED
      BY <3>4, <3>5 DEF Bounded
  <2>7. ASSUME NEW id \in DOMAIN reads, Return(id) PROVE Bounded'
    <3>1. CASE Owns(id)
      <4> DEFINE k == reads[id].key
                 filled == [cache[k] EXCEPT !.value = reads[id].value,
                                            !.expires = now + Ttl[k],
                                            !.pending = FALSE]
      <4>1. k \in Key
        <5>1. reads[id] \in Read
          BY DEF Inv, TypeOK
        <5>2. QED
          BY <5>1 DEF Read
      <4>2. filled.read = cache[k].read
        BY <2>1, <4>1 DEF Entry
      <4>3. cache' = [cache EXCEPT ![k] = filled]
        BY <2>1, <2>7, <3>1, <4>1 DEF Return, Entry
      <4> HIDE DEF filled
      <4>4. \A j \in Key : cache'[j].read = cache[j].read
        BY <2>1, <4>1, <4>2, <4>3
      <4>5. Present(cache') \subseteq Present(cache)
        BY <4>4 DEF Present
      <4>6. QED
        BY <2>2, <4>5
    <3>2. CASE ~Owns(id)
      <4>1. cache' = cache
        BY <2>7, <3>2 DEF Return
      <4>2. QED
        BY <2>2, <4>1
    <3>3. QED
      BY <3>1, <3>2
  <2>8. ASSUME NEW id \in DOMAIN reads, Fail(id) PROVE Bounded'
    BY <2>2, <2>3, <2>8 DEF Fail, Dropped
  <2>9. ASSUME NEW keys \in Scopes, Invalidate(keys) PROVE Bounded'
    BY <2>2, <2>3, <2>9 DEF Invalidate
  <2>10. ASSUME UNCHANGED cache PROVE Bounded'
    BY <2>2, <2>10
  <2>11. QED
    BY <2>5, <2>6, <2>7, <2>8, <2>9, <2>10 DEF Next, ReadHit, Answer, Write, Tick, vars
<1>3. QED
  BY <1>1, <1>2, CacheInvariant, PTL DEF Spec
==============================================================================
