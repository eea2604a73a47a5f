--------------------------- MODULE SimulationBatcher ---------------------------
(***************************************************************************)
(* How the TypeScript client sends proposal reads (sdk/src/batch.ts and    *)
(* simulateWith, read and withTimeout of client.ts): reads made together   *)
(* share one JSON-RPC envelope; when the provider turns out not to take    *)
(* envelopes, they are sent one by one, for good.                          *)
(*                                                                         *)
(* A flush awaits its envelopes one after the other; reads made meanwhile  *)
(* start flushes of their own.  What runs between two awaits is one step.  *)
(* An answer is known by the read whose transaction was simulated.         *)
(***************************************************************************)
EXTENDS Integers, Sequences, FiniteSets, SequencesExt

CONSTANTS
  Reads,    \* calls of getProposal
  Size,     \* simulationBatchSize
  Attempts  \* readRetryAttempts + 1

VARIABLES
  supported,  \* SimulationBatcher.supported
  pending,    \* reads to go with the next flush
  flushes,    \* runs of flush at their await: reads left, attempt of the envelope
  single,     \* reads sent by themselves: attempt under way, by read
  settled     \* what each promise was given, in order

vars == <<supported, pending, flushes, single, settled>>

None == 0
Rejected == 0    \* no read has this number

Init ==
  /\ supported = TRUE
  /\ pending = << >>
  /\ flushes = << >>
  /\ single = [r \in Reads |-> None]
  /\ settled = [r \in Reads |-> << >>]

Made(r) ==
  \/ single[r] # None \/ settled[r] # << >>
  \/ r \in ToSet(pending)
  \/ \E f \in DOMAIN flushes : r \in ToSet(flushes[f].items)

Chunk(items) == SubSeq(items, 1, IF Len(items) < Size THEN Len(items) ELSE Size)
Rest(items)  == SubSeq(items, Len(Chunk(items)) + 1, Len(items))

(* A lone read is not worth an envelope, and without support none is.      *)
SentSingly(items, support) ==
  IF ~support \/ Size = 1 \/ Len(items) = 1 THEN ToSet(items) ELSE {}

Alone(reads) == [r \in Reads |-> IF r \in reads THEN 1 ELSE single[r]]
Settle(given) ==
  [r \in Reads |-> IF r \in DOMAIN given THEN Append(settled[r], given[r]) ELSE settled[r]]

(* Mutant: a flush ends with its first envelope.                           *)
EnvelopeDone(f, items, support) == RemoveAt(flushes, f)

(* The flushes, with this one going on to what is left of its reads.       *)
GoingOn(f, items, support) ==
  IF items = << >> \/ SentSingly(items, support) # {} THEN RemoveAt(flushes, f)
  ELSE [flushes EXCEPT ![f] = [items |-> items, attempt |-> 1]]

------------------------------------------------------------------------------

Enqueue(r) ==
  /\ ~Made(r)
  /\ pending' = IF supported THEN Append(pending, r) ELSE pending
  /\ single' = IF supported THEN single ELSE Alone({r})
  /\ UNCHANGED <<supported, flushes, settled>>

Flush ==
  /\ pending # << >>
  /\ pending' = << >>
  /\ single' = Alone(SentSingly(pending, supported))
  /\ flushes' = IF SentSingly(pending, supported) # {} THEN flushes
                ELSE Append(flushes, [items |-> pending, attempt |-> 1])
  /\ UNCHANGED <<supported, settled>>

(* Every id of the envelope once.                                          *)
WellFormed(ids, chunk) ==
  Len(ids) = Len(chunk) /\ ToSet(ids) = DOMAIN chunk

(* Mutant: responses taken in the order of the requests.                   *)
InOrder(ids, n, chunk) == chunk[n]

(* The read a response is for: JSON-RPC may reorder them.                  *)
Addressed(ids, n, chunk) == chunk[ids[n]]

(* The envelope comes back.  "ids" are the responses' ids in their order,  *)
(* "bad" the ids whose simulation failed or returned nothing.              *)
Envelope(f, ids, bad) ==
  LET items == flushes[f].items
      chunk == Chunk(items)
      given == [r \in {Addressed(ids, n, chunk) : n \in DOMAIN ids} |->
                  LET n == CHOOSE m \in DOMAIN ids : Addressed(ids, m, chunk) = r
                  IN  IF ids[n] \in bad THEN Rejected ELSE chunk[ids[n]]]
  IN  /\ WellFormed(ids, chunk)
      /\ settled' = Settle(given)
      /\ single' = Alone(SentSingly(Rest(items), supported))
      /\ flushes' = GoingOn(f, Rest(items), supported)
      /\ UNCHANGED <<supported, pending>>

(* Ids missing, repeated or unknown, no array, an error about the batch    *)
(* itself, or a status of a provider that takes none.                      *)
Unsupported(f) ==
  /\ supported' = FALSE
  /\ single' = Alone(ToSet(flushes[f].items))
  /\ flushes' = RemoveAt(flushes, f)
  /\ UNCHANGED <<pending, settled>>

Misformed(f, ids) == ~WellFormed(ids, Chunk(flushes[f].items)) /\ Unsupported(f)

(* How a request may fail: not answered in time, overload or a broken      *)
(* connection, anything else.  Only the second is worth another attempt: a *)
(* timeout looks transient too, but has been told apart before.            *)
Errors == {"timeout", "overload", "other"}

Retriable(error, attempt) == error = "overload" /\ attempt < Attempts

EnvelopeFails(f, error) ==
  LET items == flushes[f].items
  IN  /\ ~Retriable(error, flushes[f].attempt)
      /\ settled' = Settle([r \in ToSet(Chunk(items)) |-> Rejected])
      /\ single' = Alone(SentSingly(Rest(items), supported))
      /\ flushes' = GoingOn(f, Rest(items), supported)
      /\ UNCHANGED <<supported, pending>>

EnvelopeRetry(f, error) ==
  /\ Retriable(error, flushes[f].attempt)
  /\ flushes' = [flushes EXCEPT ![f].attempt = @ + 1]
  /\ UNCHANGED <<supported, pending, single, settled>>

(* A read by itself: request of simulateWith, in the loop of read.         *)
SingleReturns(r, given) ==
  /\ single[r] # None
  /\ settled' = Settle([x \in {r} |-> given])
  /\ single' = [single EXCEPT ![r] = None]
  /\ UNCHANGED <<supported, pending, flushes>>

SingleFails(r, error) ==
  /\ ~Retriable(error, single[r])
  /\ SingleReturns(r, Rejected)

SingleRetry(r, error) ==
  /\ single[r] # None
  /\ Retriable(error, single[r])
  /\ single' = [single EXCEPT ![r] = @ + 1]
  /\ UNCHANGED <<supported, pending, flushes, settled>>

(* Every envelope of up to n responses, with ids of the request or one off.*)
Replies(n) == UNION {[1..m -> 1..(n + 1)] : m \in 0..n}

Comes(f) ==
  LET n == Len(Chunk(flushes[f].items))
  IN  \/ Unsupported(f)
      \/ \E error \in Errors : EnvelopeFails(f, error) \/ EnvelopeRetry(f, error)
      \/ \E ids \in Replies(n) :
           Misformed(f, ids) \/ \E bad \in SUBSET (1..n) : Envelope(f, ids, bad)

Ends(r) ==
  \/ SingleReturns(r, r)
  \/ \E error \in Errors : SingleFails(r, error) \/ SingleRetry(r, error)

Next ==
  \/ \E r \in Reads : Enqueue(r) \/ Ends(r)
  \/ Flush
  \/ \E f \in DOMAIN flushes : Comes(f)

(* Microtasks run, and every attempt ends, if only by its timeout.         *)
Fairness ==
  /\ WF_vars(Flush)
  /\ WF_vars(\E f \in DOMAIN flushes : Comes(f))
  /\ \A r \in Reads : WF_vars(Ends(r))

Spec == Init /\ [][Next]_vars /\ Fairness

------------------------------------------------------------------------------
(* Properties.                                                             *)

(* Whatever the provider answers, and however flushes overlap, a read is   *)
(* settled at most once, and never with the answer to another's            *)
(* transaction; what is settled is no longer under way.                    *)
ReadsGetTheirOwn ==
  \A r \in Reads :
    /\ settled[r] \in {<< >>, <<r>>, <<Rejected>>}
    /\ settled[r] # << >> => /\ single[r] = None
                             /\ r \notin ToSet(pending)
                             /\ \A f \in DOMAIN flushes : r \notin ToSet(flushes[f].items)

(* Every read made is settled.                                             *)
EveryReadSettles == \A r \in Reads : Made(r) ~> settled[r] # << >>
==============================================================================
