------------------------------ MODULE ListBench ------------------------------
(***************************************************************************)
(* The load test of the proposal list (sdk/bench/proposal-list.bench.mjs): *)
(* strategies of reading a list, each measured in several runs through a   *)
(* bounded pool of calls to a stub of the RPC.                             *)
(*                                                                         *)
(* Times and bytes are left out.  A call is answered at any moment after   *)
(* it was made; its place in the pool is free a few microtasks later.      *)
(***************************************************************************)
EXTENDS Integers, Sequences, FiniteSets, Functions

CONSTANTS
  Sizes, PageSizes,  \* --sizes and --page-sizes
  Pools,             \* values of --concurrency
  Runs               \* --runs

VARIABLES
  mode,         \* --mode
  concurrency,  \* --concurrency
  jobs,         \* measurements left, the one under way first
  run,          \* number of its run
  counted,      \* the run has the number of proposals
  queue,        \* requests that wait for the pool, by number
  inFlight,     \* requests made and not answered
  settled,      \* requests answered that still have their place
  answers,      \* proposals read, by request
  calls,        \* calls the run made
  thrown        \* main failed

vars == <<mode, concurrency, jobs, run, counted, queue, inFlight, settled, answers, calls, thrown>>

Least(a, b) == IF a < b THEN a ELSE b

(* The measurements of stub mode: three strategies for each size, with a   *)
(* page size from the middle of the list; then every page size, for the    *)
(* last size.                                                              *)
Job(strategy, size, page) == [strategy |-> strategy, size |-> size, page |-> page]

JobsOf ==
  LET page       == PageSizes[(Len(PageSizes) \div 2) + 1]
      strategies == <<"all", "first", "pages">>
  IN  [i \in 1 .. 3 * Len(Sizes) |->
         Job(strategies[((i - 1) % 3) + 1], Sizes[((i - 1) \div 3) + 1], page)]
      \o [i \in DOMAIN PageSizes |-> Job("pages", Sizes[Len(Sizes)], PageSizes[i])]

Init ==
  /\ mode \in {"stub", "rpc"}
  /\ concurrency \in Pools
  /\ jobs = JobsOf
  /\ run = 1
  /\ counted = FALSE
  /\ queue = << >>
  /\ inFlight = {}
  /\ settled = {}
  /\ answers = << >>
  /\ calls = 0
  /\ thrown = FALSE

Measuring == ~thrown /\ jobs # << >>

------------------------------------------------------------------------------
(* The requests of a strategy: the proposals that each is to return.       *)
CeilDiv(n, page) == (n + page - 1) \div page

(* Mutant: every page has the full size.                                   *)
FullPage(k, page, n) == (((k - 1) * page) + 1) .. (k * page)

Page(k, page, n) == (((k - 1) * page) + 1) .. Least(k * page, n)

Requests(job) ==
  CASE job.strategy = "all"   -> [k \in 1 .. job.size |-> {k}]
    [] job.strategy = "first" -> <<Page(1, job.page, job.size)>>
    [] job.strategy = "pages" ->
         [k \in 1 .. CeilDiv(job.size, job.page) |-> Page(k, job.page, job.size)]

(* createLimiter's runNext: requests are made while there are places.      *)
RunNext(waiting, flying, held) ==
  LET places == concurrency - Cardinality(flying) - Cardinality(held)
      n == Least(Len(waiting), places)
  IN  /\ queue' = SubSeq(waiting, n + 1, Len(waiting))
      /\ inFlight' = flying \cup {waiting[i] : i \in 1 .. n}
      /\ settled' = held
      /\ calls' = IF counted THEN calls + n ELSE 1 + n

(* rpc mode builds a client on a contract ID whose checksum is wrong.      *)
RpcMode ==
  /\ mode = "rpc"
  /\ Measuring
  /\ thrown' = TRUE
  /\ UNCHANGED <<mode, concurrency, jobs, run, counted, queue, inFlight, settled, answers, calls>>

(* The proposals are counted, then all requests given to a new pool.       *)
CountAndAsk ==
  /\ mode = "stub"
  /\ Measuring
  /\ ~counted
  /\ counted' = TRUE
  /\ LET n == Len(Requests(Head(jobs)))
     IN  /\ RunNext([k \in 1 .. n |-> k], {}, {})
         /\ answers' = [k \in 1 .. n |-> {}]
  /\ UNCHANGED <<mode, concurrency, jobs, run, thrown>>

Answered ==
  /\ \E k \in inFlight :
       /\ inFlight' = inFlight \ {k}
       /\ settled' = settled \cup {k}
       /\ answers' = [answers EXCEPT ![k] = Requests(Head(jobs))[k]]
  /\ UNCHANGED <<mode, concurrency, jobs, run, counted, queue, calls, thrown>>

(* The finally of a request.                                               *)
PlaceFree ==
  /\ \E k \in settled : RunNext(queue, inFlight, settled \ {k})
  /\ UNCHANGED <<mode, concurrency, jobs, run, counted, answers, thrown>>

AllRead == counted /\ queue = << >> /\ inFlight = {}

(* Promise.all resolves: a sample, then the next run or measurement; what  *)
(* is left to do in the old pool does nothing.                             *)
RunEnds ==
  /\ Measuring
  /\ AllRead
  /\ counted' = FALSE
  /\ settled' = {}
  /\ answers' = << >>
  /\ calls' = 0
  /\ IF run < Runs
     THEN run' = run + 1 /\ UNCHANGED jobs
     ELSE run' = 1 /\ jobs' = Tail(jobs)
  /\ UNCHANGED <<mode, concurrency, queue, inFlight, thrown>>

Next == RpcMode \/ CountAndAsk \/ Answered \/ PlaceFree \/ RunEnds

Spec == Init /\ [][Next]_vars
------------------------------------------------------------------------------
(* Properties.                                                             *)

Reported(job) ==
  CASE job.strategy = "all"   -> 1 + job.size
    [] job.strategy = "first" -> 2
    [] job.strategy = "pages" -> 1 + CeilDiv(job.size, job.page)

(* What the report says of a strategy is what was measured: a run that     *)
(* ends has read each proposal once, and no other, in the number of calls  *)
(* printed; and a request never waits while the pool has a place, so what  *)
(* was timed is the concurrency asked for, neither less nor more.          *)
RunsAreAsReported ==
  counted =>
    /\ Cardinality(inFlight) <= concurrency
    /\ queue # << >> /\ concurrency > 0 => Cardinality(inFlight \cup settled) = concurrency
    /\ AllRead =>
         LET job == Head(jobs)
         IN  /\ calls = Reported(job)
             /\ UNION Range(answers) =
                  1 .. IF job.strategy = "first" THEN Least(job.page, job.size) ELSE job.size
             /\ \A j, k \in DOMAIN answers : j # k => answers[j] \cap answers[k] = {}
==============================================================================
