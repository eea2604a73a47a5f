---------------------------- MODULE ServiceWorker ----------------------------
(***************************************************************************)
(* The service worker (frontend/public/sw.js): navigations go to the       *)
(* network first and to the caches when it fails.  New versions of it are  *)
(* deployed, each with a cache name of its own; the browser installs one   *)
(* beside the active one and activates it when no page is in use.          *)
(*                                                                         *)
(* Nothing waits for the copy of a response to be cached, so it may come   *)
(* late, or never if the browser ends the worker first.                    *)
(***************************************************************************)
EXTENDS Naturals, FiniteSets

CONSTANTS
  Pages,        \* URLs navigated to
  Shell,        \* those of STATIC_ASSETS
  MaxVersion,   \* bound: versions of the worker deployed
  MaxInFlight   \* bound: navigations and copies under way

VARIABLES
  online,    \* the network can be reached
  deployed,  \* version of sw.js the server has
  active,    \* version that handles navigations, 0 if none
  waiting,   \* version installed and not active, 0 if none
  caches,    \* content by URL of each version's cache, << >> if there is none
  fetches,   \* navigations under way
  copies,    \* responses about to be cached
  shown      \* the last page a navigation was answered with

vars == <<online, deployed, active, waiting, caches, fetches, copies, shown>>

OFFLINE_URL == "/offline"
STATIC_ASSETS == Shell \cup {OFFLINE_URL}
Versions == 1 .. MaxVersion

Cached(url) == \E v \in Versions : url \in DOMAIN caches[v]

Init ==
  /\ online = TRUE
  /\ deployed = 1
  /\ active = 0
  /\ waiting = 0
  /\ caches = [v \in Versions |-> << >>]
  /\ fetches = {}
  /\ copies = {}
  /\ shown = [url |-> "none", content |-> "none"]

------------------------------------------------------------------------------
(* The server and the network.                                             *)

Deploy ==
  /\ deployed < MaxVersion
  /\ deployed' = deployed + 1
  /\ UNCHANGED <<online, active, waiting, caches, fetches, copies, shown>>

Connectivity ==
  /\ online' = ~online
  /\ UNCHANGED <<deployed, active, waiting, caches, fetches, copies, shown>>

------------------------------------------------------------------------------
(* The worker's life.  Installing takes every asset or fails, and leaves   *)
(* the active worker and the caches as they are.                           *)
Stored(cache, urls) ==
  [url \in DOMAIN cache \cup urls |-> IF url \in urls THEN "page" ELSE cache[url]]

Install ==
  /\ deployed \notin {active, waiting}
  /\ online
  /\ caches' = [caches EXCEPT ![deployed] = Stored(@, STATIC_ASSETS)]
  /\ waiting' = deployed
  /\ UNCHANGED <<online, deployed, active, fetches, copies, shown>>

(* Mutant: the worker's own cache is among those it clears away.           *)
KeptNone(v) == [w \in Versions |-> << >>]

Kept(v) == [w \in Versions |-> IF w = v THEN caches[w] ELSE << >>]

Activate ==
  /\ waiting # 0
  /\ fetches = {}
  /\ active' = waiting
  /\ waiting' = 0
  /\ caches' = Kept(waiting)
  /\ UNCHANGED <<online, deployed, fetches, copies, shown>>

------------------------------------------------------------------------------
(* Navigations, once a worker is active.                                   *)

Navigate ==
  /\ active # 0
  /\ Cardinality(fetches) + Cardinality(copies) < MaxInFlight
  /\ \E url \in Pages : fetches' = fetches \cup {url}
  /\ UNCHANGED <<online, deployed, active, waiting, caches, copies, shown>>

Copied(response, url) ==
  IF response = "page"
  THEN {[version |-> active, url |-> url, content |-> response]}
  ELSE {}

Answered ==
  /\ online
  /\ \E url \in fetches, response \in {"page", "error page"} :
       /\ fetches' = fetches \ {url}
       /\ copies' = copies \cup Copied(response, url)
       /\ shown' = [url |-> url, content |-> response]
  /\ UNCHANGED <<online, deployed, active, waiting, caches>>

(* A copy opens its cache by name, making it again if it was deleted.      *)
CopyStored ==
  /\ \E copy \in copies :
       /\ copies' = copies \ {copy}
       /\ caches' = [caches EXCEPT ![copy.version] =
            [url \in DOMAIN @ \cup {copy.url} |->
               IF url = copy.url THEN copy.content ELSE @[url]]]
  /\ UNCHANGED <<online, deployed, active, waiting, fetches, shown>>

CopyLost ==
  /\ \E copy \in copies : copies' = copies \ {copy}
  /\ UNCHANGED <<online, deployed, active, waiting, caches, fetches, shown>>

(* caches.match looks into every cache there is.                           *)
FromCaches(url) ==
  IF Cached(url)
  THEN {caches[v][url] : v \in {w \in Versions : url \in DOMAIN caches[w]}}
  ELSE {"nothing"}

Failed ==
  /\ ~online
  /\ \E url \in fetches :
       /\ fetches' = fetches \ {url}
       /\ LET from == IF Cached(url) THEN url ELSE OFFLINE_URL
          IN  \E content \in FromCaches(from) : shown' = [url |-> from, content |-> content]
  /\ UNCHANGED <<online, deployed, active, waiting, caches, copies>>

Next ==
  \/ Deploy \/ Connectivity \/ Install \/ Activate
  \/ Navigate \/ Answered \/ CopyStored \/ CopyLost \/ Failed

Spec == Init /\ [][Next]_vars

------------------------------------------------------------------------------
(* Property.                                                               *)

(* Whatever was deployed, activated, cached late or never: a navigation    *)
(* that the network fails is answered, with a page the network once        *)
(* answered well with or the offline page, never with the browser's own    *)
(* error or a cached one of the server's.                                  *)
OfflineIsAnswered ==
  active # 0 =>
    /\ \E v \in Versions : OFFLINE_URL \in DOMAIN caches[v]
    /\ \A v \in Versions, url \in Pages \cup STATIC_ASSETS :
         url \in DOMAIN caches[v] => caches[v][url] = "page"
    /\ shown.content # "nothing"
==============================================================================
