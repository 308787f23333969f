------------------------------- MODULE Watches -------------------------------
(***************************************************************************)
(* The update cycle of PTVDataUpdateCoordinator (coordinator.py), one      *)
(* coordinator per watch, for watches of one mode that share the cache of  *)
(* module FeedCache: the two realtime fetches, the merge with the          *)
(* scheduled departures, the 429 backoff and the diagnostics.              *)
(*                                                                         *)
(* A step is the code between two awaits.  That a cycle waits for its      *)
(* token is a place of its own; how tokens are given is module             *)
(* RateLimiter's matter.  What Home Assistant's DataUpdateCoordinator      *)
(* makes of the outcome is included: it goes on polling after every        *)
(* failure but a ConfigEntryAuthFailed.                                    *)
(***************************************************************************)
EXTENDS FeedCache

CONSTANTS
  BackoffInitial,  \* _BACKOFF_INITIAL_SECONDS
  BackoffMax       \* _BACKOFF_MAX_SECONDS

ASSUME WatchesAssumption ==
  /\ Feeds = {"trips", "alerts"}
  /\ TTL \in Nat \ {0}
  /\ Timeout \in Nat \ {0}
  /\ BackoffInitial \in Nat \ {0}
  /\ BackoffMax \in Nat /\ BackoffMax >= BackoffInitial
  /\ None \notin Nat

VARIABLES
  pc,        \* where the cycle of each watch is
  backoff,   \* _backoff_seconds
  until,     \* _backoff_until: None, or the time left to it
  error,     \* last_http_error is not None
  polling    \* Home Assistant schedules further updates

watchVars == <<pc, backoff, until, error, polling>>
vars == <<cache, request, watchVars>>

Init ==
  /\ CacheInit
  /\ pc = [w \in Clients |-> "idle"]
  /\ backoff = [w \in Clients |-> 0]
  /\ until = [w \in Clients |-> None]
  /\ error = [w \in Clients |-> FALSE]
  /\ polling = [w \in Clients |-> TRUE]

------------------------------------------------------------------------------
(* The cycle starts.                                                       *)

BackedOff(w) == until[w] # None /\ until[w] > 0

DoubledUncapped(seconds) ==
  IF seconds = 0 THEN BackoffInitial ELSE 2 * seconds
Doubled(seconds) ==
  IF seconds = 0 THEN BackoffInitial
  ELSE IF 2 * seconds < BackoffMax THEN 2 * seconds ELSE BackoffMax

(* _handle_rate_limit. *)
HandleRateLimit(w) ==
  /\ backoff' = [backoff EXCEPT ![w] = Doubled(@)]
  /\ until' = [until EXCEPT ![w] = backoff'[w]]

SkipRenews(w) ==
  /\ pc[w] = "idle" /\ polling[w]
  /\ BackedOff(w)
  /\ HandleRateLimit(w)
  /\ UNCHANGED <<cache, request, pc, error, polling>>

(* A backoff is active: the last data once more, and no request. *)
Skip(w) ==
  /\ pc[w] = "idle" /\ polling[w]
  /\ BackedOff(w)
  /\ UNCHANGED vars

(* No backoff, or it is over.  The option realtime_enabled, which the user *)
(* may change at any time, decides whether the cycle fetches.              *)
Begin(w) ==
  /\ pc[w] = "idle" /\ polling[w]
  /\ ~BackedOff(w)
  /\ \E realtime \in BOOLEAN :
       pc' = [pc EXCEPT ![w] = IF realtime THEN "trips" ELSE "query"]
  /\ UNCHANGED <<cache, request, backoff, until, error, polling>>

------------------------------------------------------------------------------
(* The two fetches, first "trips", then "alerts".                          *)

Following(f) == IF f = "trips" THEN "alerts" ELSE "query"

(* A token is there: acquire() returns and fetch_feed misses the cache. *)
Ask(w, f) ==
  /\ pc[w] = f
  /\ Send(w, f)
  /\ UNCHANGED watchVars

(* fetch_feed returned a feed. *)
Got(w, f) ==
  /\ pc' = [pc EXCEPT ![w] = Following(f)]
  /\ error' = [error EXCEPT ![w] = @ /\ f # "trips"]
  /\ UNCHANGED <<backoff, until, polling>>

FetchHits(w, f) == pc[w] = f /\ Hit(w, f) /\ Got(w, f)

FetchStores(w, f) == pc[w] = f /\ Store(w, f) /\ Got(w, f)

RateLimitedSilently(w, f) ==
  /\ pc[w] = f /\ Raise(w, f, "sent")
  /\ HandleRateLimit(w)
  /\ pc' = [pc EXCEPT ![w] = Following(f)]
  /\ UNCHANGED <<error, polling>>

(* 429: noted, and the cycle goes on without this feed. *)
RateLimited(w, f) ==
  /\ pc[w] = f /\ Raise(w, f, "sent")
  /\ error' = [error EXCEPT ![w] = TRUE]
  /\ HandleRateLimit(w)
  /\ pc' = [pc EXCEPT ![w] = Following(f)]
  /\ UNCHANGED <<polling>>

(* Another error status: the same, without a backoff. *)
StatusError(w, f) ==
  /\ pc[w] = f /\ Raise(w, f, "sent")
  /\ error' = [error EXCEPT ![w] = TRUE]
  /\ pc' = [pc EXCEPT ![w] = Following(f)]
  /\ UNCHANGED <<backoff, until, polling>>

(* A network error leaves no trace but a log line. *)
NetworkError(w, f) ==
  /\ pc[w] = f /\ (Raise(w, f, "sent") \/ Raise(w, f, "body"))
  /\ pc' = [pc EXCEPT ![w] = Following(f)]
  /\ UNCHANGED <<backoff, until, error, polling>>

(* 401: ConfigEntryAuthFailed, after which nothing is scheduled. *)
Rejected(w, f) ==
  /\ pc[w] = f /\ Raise(w, f, "sent")
  /\ error' = [error EXCEPT ![w] = TRUE]
  /\ pc' = [pc EXCEPT ![w] = "idle"]
  /\ polling' = [polling EXCEPT ![w] = FALSE]
  /\ UNCHANGED <<backoff, until>>

(* The timeout (a TimeoutError is no ClientError) and a feed that does not *)
(* decode end the cycle.                                                   *)
CycleRaises(w, f) ==
  /\ pc[w] = f
  /\ \E where \in {"sent", "body", "decode"} : Raise(w, f, where)
  /\ pc' = [pc EXCEPT ![w] = "idle"]
  /\ UNCHANGED <<backoff, until, error, polling>>

Transfer(w) ==
  /\ Respond(w) \/ ReadBody(w)
  /\ UNCHANGED watchVars

------------------------------------------------------------------------------
(* The scheduled departures, and the end of the cycle.                     *)

FinishKeepsDeadline(w) ==
  /\ pc[w] = "query"
  /\ pc' = [pc EXCEPT ![w] = "idle"]
  /\ backoff' = [backoff EXCEPT ![w] = 0]
  /\ UNCHANGED <<cache, request, until, error, polling>>

(* The query works: publish, and forget any backoff. *)
Finish(w) ==
  /\ pc[w] = "query"
  /\ pc' = [pc EXCEPT ![w] = "idle"]
  /\ backoff' = [backoff EXCEPT ![w] = 0]
  /\ until' = [until EXCEPT ![w] = None]
  /\ UNCHANGED <<cache, request, error, polling>>

(* It raises UpdateFailed. *)
QueryFails(w) ==
  /\ pc[w] = "query"
  /\ pc' = [pc EXCEPT ![w] = "idle"]
  /\ UNCHANGED <<cache, request, backoff, until, error, polling>>

Tick ==
  /\ CacheTick
  /\ until' = [w \in Clients |->
                 IF BackedOff(w) THEN until[w] - 1 ELSE until[w]]
  /\ UNCHANGED <<pc, backoff, error, polling>>

Fetch(w, f) ==
  \/ Ask(w, f) \/ FetchHits(w, f) \/ FetchStores(w, f)
  \/ RateLimited(w, f) \/ StatusError(w, f) \/ NetworkError(w, f)
  \/ Rejected(w, f) \/ CycleRaises(w, f)

Step(w) ==
  \/ Skip(w) \/ Begin(w)
  \/ \E f \in Feeds : Fetch(w, f)
  \/ Transfer(w)
  \/ Finish(w) \/ QueryFails(w)

Next ==
  \/ Tick
  \/ \E w \in Clients : Step(w)

Spec == Init /\ [][Next]_vars

(* Time passes, the timer of an update fires, and what a cycle waits for   *)
(* comes: a token, an answer or its timeout, a thread.                     *)
FairSpec == Spec /\ WF_vars(Tick) /\ \A w \in Clients : WF_vars(Step(w))

------------------------------------------------------------------------------

TypeOK ==
  /\ CacheType
  /\ pc \in [Clients -> {"idle", "trips", "alerts", "query"}]
  /\ backoff \in [Clients -> 0 .. BackoffMax]
  /\ until \in [Clients -> {None} \cup 0 .. BackoffMax]
  /\ error \in [Clients -> BOOLEAN]
  /\ polling \in [Clients -> BOOLEAN]

(* The two halves of the backoff agree: a deadline exactly when there is a *)
(* backoff, and never further away than that backoff is long.              *)
BackoffCoherent ==
  \A w \in Clients :
    /\ (backoff[w] = 0) = (until[w] = None)
    /\ until[w] # None => until[w] <= backoff[w]

(* A watch that holds back its requests does not report "ok"               *)
(* (PTVDiagnosticsSensor): last_http_error outlives the backoff it came    *)
(* with.                                                                   *)
BackoffShows == \A w \in Clients : BackedOff(w) => error[w]

(* No watch falls silent for good: while Home Assistant schedules it, a    *)
(* cycle that goes past the backoff check comes again and again, whatever  *)
(* the server answers.                                                     *)
PollsAgain == \A w \in Clients : []<>(pc[w] # "idle" \/ ~polling[w])

(* coordinator.py:15-16: "On HTTP 429 the coordinator enters an            *)
(* exponential backoff: the next update is delayed".  A backoff that has   *)
(* begun is not lifted before its time is over.                            *)
BackoffRunsOut ==
  [][\A w \in Clients : BackedOff(w) => until'[w] # None]_vars
==============================================================================
