------------------------------- MODULE ReadCache -------------------------------
(***************************************************************************)
(* The read cache of the TypeScript client (sdk/src/cache.ts).  JavaScript *)
(* runs one callback at a time, so what a read does before its await and   *)
(* what it does after are two steps; other reads, invalidations, writes to *)
(* the contracts and the clock come between them.                          *)
(*                                                                         *)
(* Reads are numbered in the order they are made.  An entry carries the    *)
(* number of the read that reserved it: that is its identity (the ===      *)
(* tests) and its place in the Map's insertion order, since an entry is    *)
(* only ever set anew, at the end, and filled in place.                    *)
(*                                                                         *)
(* What the contracts answer is the version they have reached when they    *)
(* are asked: a later version is a later state.                            *)
(***************************************************************************)
EXTENDS Integers, Sequences, FiniteSets

CONSTANTS
  Key,         \* method and arguments
  Scopes,      \* the sets of keys invalidate is called for: one, a method's, all
  Ttl,         \* by key; 0 where caching is disabled
  MaxEntries,  \* config.maxEntries
  MaxReads,    \* bound: reads made in a behaviour
  MaxTime,     \* bound: the last instant of a behaviour
  MaxVersion   \* bound: the last version the contracts reach

ASSUME CacheAssumption ==
  /\ Scopes \subseteq SUBSET Key
  /\ Ttl \in [Key -> Nat]
  /\ MaxEntries \in Nat \ {0}
  /\ MaxReads \in Nat /\ MaxTime \in Nat /\ MaxVersion \in Nat
ASSUME KeyAssumption == IsFiniteSet(Key)

VARIABLES
  now,      \* Date.now()
  version,  \* the state the contracts are in
  cache,    \* entries, by key
  reads,    \* the calls of read, in order
  floor     \* history: the version at which the cached value of a key was last
            \* given up, by an invalidation or by a read that asked anew

vars == <<now, version, cache, reads, floor>>

NoEntry  == [read |-> 0, pending |-> FALSE, expires |-> 0, value |-> 0]
Present(c) == {k \in Key : c[k].read # 0}

Init ==
  /\ now = 0
  /\ version = 0
  /\ cache = [k \in Key |-> NoEntry]
  /\ reads = << >>
  /\ floor = [k \in Key |-> 0]

------------------------------------------------------------------------------

Without(c, keys) == [k \in Key |-> IF k \in keys THEN NoEntry ELSE c[k]]

(* Read, not pending and unexpired: answered from the cache.               *)
Hit(c, k) == c[k].read # 0 /\ ~c[k].pending /\ c[k].expires > now

Lapsed(c) == {k \in Present(c) : ~c[k].pending /\ c[k].expires <= now}

Oldest(c) == {k \in Present(c) : \A j \in Present(c) : c[k].read <= c[j].read}

(* Mutant: one entry too many.                                             *)
TrimmedLate(c) ==
  IF Cardinality(Present(c)) > MaxEntries THEN Without(c, Oldest(c)) ELSE c

(* At the limit the oldest entry goes, in flight or not.                   *)
Trimmed(c) ==
  IF Cardinality(Present(c)) >= MaxEntries THEN Without(c, Oldest(c)) ELSE c

Reserved(c, k, id) ==
  [Trimmed(Without(c, {k} \cup Lapsed(c))) EXCEPT
     ![k] = [read |-> id, pending |-> TRUE, expires |-> 0, value |-> 0]]

(* A call of read that now is in the given state.                          *)
Call(k, state, value) ==
  [key |-> k, state |-> state, value |-> value, issued |-> version, floor |-> floor[k]]

Evicted(k, invalidate) == IF invalidate THEN Without(cache, {k}) ELSE cache

(* With bypassCache, or for a method without a TTL: straight to the RPC.   *)
ReadDirect(k, invalidate) ==
  /\ Len(reads) < MaxReads
  /\ cache' = Evicted(k, invalidate)
  /\ floor' = [floor EXCEPT ![k] = IF invalidate THEN version ELSE @]
  /\ reads' = Append(reads, Call(k, "asked", 0))
  /\ UNCHANGED <<now, version>>

ReadHit(k) ==
  /\ Len(reads) < MaxReads
  /\ Ttl[k] > 0
  /\ Hit(cache, k)
  /\ reads' = Append(reads, Call(k, "returned", cache[k].value))
  /\ UNCHANGED <<now, version, cache, floor>>

(* A miss takes the place of an entry in flight for the same key: the      *)
(* newest read is the one that may fill it.                                *)
ReadMiss(k, invalidate) ==
  /\ Len(reads) < MaxReads
  /\ Ttl[k] > 0
  /\ ~Hit(Evicted(k, invalidate), k)
  /\ cache' = Reserved(Evicted(k, invalidate), k, Len(reads) + 1)
  /\ floor' = [floor EXCEPT ![k] = version]
  /\ reads' = Append(reads, Call(k, "asked", 0))
  /\ UNCHANGED <<now, version>>

(* The contracts' state is read somewhere between request and response.    *)
Answer(id) ==
  /\ reads[id].state = "asked"
  /\ reads' = [reads EXCEPT ![id].state = "answered", ![id].value = version]
  /\ UNCHANGED <<now, version, cache, floor>>

(* Mutant: whichever entry is there for the key.                           *)
OwnsAny(id) == cache[reads[id].key].read # 0

(* The reservation is still this read's.                                   *)
Owns(id) == cache[reads[id].key].read = id

(* The response arrives: it fills the entry only if nothing gave it up.    *)
Return(id) ==
  LET r == reads[id]
  IN  /\ r.state = "answered"
      /\ reads' = [reads EXCEPT ![id].state = "returned"]
      /\ cache' = IF Owns(id)
                  THEN [cache EXCEPT ![r.key].value = r.value,
                                     ![r.key].expires = now + Ttl[r.key],
                                     ![r.key].pending = FALSE]
                  ELSE cache
      /\ UNCHANGED <<now, version, floor>>

(* Mutant: the reservation of a failed read stays.                         *)
DroppedNever(id) == cache

Dropped(id) == IF Owns(id) THEN Without(cache, {reads[id].key}) ELSE cache

(* The request fails, or times out with the answer under way.              *)
Fail(id) ==
  /\ reads[id].state \in {"asked", "answered"}
  /\ reads' = [reads EXCEPT ![id].state = "failed"]
  /\ cache' = Dropped(id)
  /\ UNCHANGED <<now, version, floor>>

Invalidate(keys) ==
  /\ cache' = Without(cache, keys)
  /\ floor' = [k \in Key |-> IF k \in keys THEN version ELSE floor[k]]
  /\ UNCHANGED <<now, version, reads>>

(* The surroundings.                                                       *)
Write == version < MaxVersion /\ version' = version + 1 /\ UNCHANGED <<now, cache, reads, floor>>
Tick  == now < MaxTime /\ now' = now + 1 /\ UNCHANGED <<version, cache, reads, floor>>

Next ==
  \/ \E k \in Key, invalidate \in BOOLEAN : ReadDirect(k, invalidate) \/ ReadMiss(k, invalidate)
  \/ \E k \in Key : ReadHit(k)
  \/ \E id \in DOMAIN reads : Answer(id) \/ Return(id) \/ Fail(id)
  \/ \E keys \in Scopes : Invalidate(keys)
  \/ Write
  \/ Tick

Spec == Init /\ [][Next]_vars

------------------------------------------------------------------------------
(* Properties.                                                             *)

Entry == [read : Nat, pending : BOOLEAN, expires : Nat, value : Nat]
Read  == [key : Key, state : {"asked", "answered", "returned", "failed"},
          value : Nat, issued : Nat, floor : Nat]

TypeOK ==
  /\ now \in Nat
  /\ version \in Nat
  /\ cache \in [Key -> Entry]
  /\ reads \in Seq(Read)
  /\ floor \in [Key -> Nat]

(* "maxEntries bounds memory": reservations in flight count too.           *)
Bounded == Cardinality(Present(cache)) <= MaxEntries

(* However reads, invalidations and responses overlap, no read returns     *)
(* what the contracts answered before the key was last invalidated, or     *)
(* last asked for anew, ahead of that read.                                *)
ReadsAreFresh ==
  \A id \in DOMAIN reads : reads[id].state = "returned" => reads[id].value >= reads[id].floor

(* A reservation belongs to a read for its key that is still in flight: no *)
(* failed or superseded read leaves one behind that nothing will fill.     *)
PendingIsInFlight ==
  \A k \in Key : cache[k].pending =>
    /\ cache[k].read \in DOMAIN reads
    /\ reads[cache[k].read].key = k
    /\ reads[cache[k].read].state \in {"asked", "answered"}

(* What is in the cache was asked for since the key was last given up,     *)
(* and what fills it is no older: why ReadsAreFresh holds.                 *)
EntriesAreFresh ==
  \A k \in Present(cache) :
    /\ cache[k].read \in DOMAIN reads
    /\ reads[cache[k].read].key = k
    /\ reads[cache[k].read].issued >= floor[k]
    /\ ~cache[k].pending => cache[k].value >= floor[k]

(* Floors lie in the past, a read is made after the floor it knows of, and *)
(* an answer is no older than the read that asked for it.                  *)
FloorsArePast == \A k \in Key : floor[k] <= version
AnswersFollowReads ==
  \A id \in DOMAIN reads :
    /\ reads[id].floor <= reads[id].issued
    /\ reads[id].issued <= version
    /\ reads[id].state = "answered" => reads[id].value >= reads[id].issued
==============================================================================
