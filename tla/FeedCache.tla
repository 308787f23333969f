------------------------------ MODULE FeedCache ------------------------------
(***************************************************************************)
(* PTVRealtimeClient.fetch_feed (realtime/client.py): the module-level     *)
(* cache of decoded realtime feeds and the HTTP requests that fill it, for *)
(* the feeds of one mode.  The callers are in module Watches.              *)
(*                                                                         *)
(* A call looks into the cache and, if it misses, awaits the response, its *)
(* body and the decoding in a thread before it stores the feed: other      *)
(* calls run in each of these gaps.  Time is in ticks and relative: an age *)
(* stops at TTL, from where on all ages are treated alike.                 *)
(***************************************************************************)
EXTENDS Integers

CONSTANTS
  Clients,  \* the coordinators that fetch
  Feeds,    \* the feed types of a mode: "trip-updates", "service-alerts"
  TTL,      \* _CACHE_TTL: 30 s
  Timeout,  \* ClientTimeout(total=30) of a request
  None      \* no entry, no request

VARIABLES
  cache,   \* _FEED_CACHE: per feed None, or how long ago the entry was
           \* stamped (age) and how long ago its data left the server (snap)
  request  \* per client None, or its call in flight: which feed, how long
           \* ago it started (age), the age of the data it got (snap)

Ages == 0 .. TTL

(* From here on the age of a call makes no difference any more. *)
Longest == IF TTL < Timeout THEN Timeout ELSE TTL

Entries == [age : Ages, snap : Ages]

Requests == [feed : Feeds, at : {"sent", "body", "decode"},
             age : 0 .. Longest, snap : Ages]

CacheType ==
  /\ cache \in [Feeds -> {None} \cup Entries]
  /\ request \in [Clients -> {None} \cup Requests]

CacheInit ==
  /\ cache = [f \in Feeds |-> None]
  /\ request = [c \in Clients |-> None]

(* The lookup: an entry counts while its stamp is younger than the TTL. *)
Fresh(f) == cache[f] # None /\ cache[f].age < TTL

Hit(c, f) ==
  /\ request[c] = None
  /\ Fresh(f)
  /\ UNCHANGED <<cache, request>>

(* A miss: `now` was taken before the request goes out. *)
Send(c, f) ==
  /\ request[c] = None
  /\ ~Fresh(f)
  /\ request' = [request EXCEPT
                   ![c] = [feed |-> f, at |-> "sent", age |-> 0, snap |-> 0]]
  /\ UNCHANGED cache

At(c, where) == request[c] # None /\ request[c].at = where

(* The server answers 200 with the feed as it is now... *)
Respond(c) ==
  /\ At(c, "sent")
  /\ request' = [request EXCEPT ![c] = [@ EXCEPT !.at = "body", !.snap = 0]]
  /\ UNCHANGED cache

(* ...the body has been read and goes to a thread for decoding... *)
ReadBody(c) ==
  /\ At(c, "body")
  /\ request' = [request EXCEPT ![c].at = "decode"]
  /\ UNCHANGED cache

StampNow(r) == [age |-> 0, snap |-> r.snap]
(* The entry a finished call writes is stamped with the start of the call. *)
Entry(r) == [age  |-> IF r.age < TTL THEN r.age ELSE TTL,
             snap |-> r.snap]

(* ...and is stored, over whatever another call has stored meanwhile. *)
Store(c, f) ==
  /\ At(c, "decode") /\ request[c].feed = f
  /\ cache' = [cache EXCEPT ![f] = Entry(request[c])]
  /\ request' = [request EXCEPT ![c] = None]

(* An exception leaves fetch_feed: an error status, a failed connection,   *)
(* the timeout, bytes that do not decode.                                  *)
Raise(c, f, where) ==
  /\ At(c, where) /\ request[c].feed = f
  /\ request' = [request EXCEPT ![c] = None]
  /\ UNCHANGED cache

(* A tick for one age. *)
Older(age, stop) == IF age < stop THEN age + 1 ELSE age

OlderEntry(e) == [age |-> Older(e.age, TTL), snap |-> Older(e.snap, TTL)]

OlderRequest(r) ==
  [r EXCEPT !.age = Older(@, Longest),
            !.snap = IF r.at = "sent" THEN 0 ELSE Older(@, TTL)]

(* Time passes; a request out for Timeout ticks must end first.  Decoding  *)
(* is not under the timeout.                                               *)
CacheTick ==
  /\ \A c \in Clients :
       At(c, "sent") \/ At(c, "body") => request[c].age < Timeout
  /\ cache' = [f \in Feeds |->
                 IF cache[f] = None THEN None ELSE OlderEntry(cache[f])]
  /\ request' = [c \in Clients |->
                   IF request[c] = None THEN None
                   ELSE OlderRequest(request[c])]

------------------------------------------------------------------------------

(* Whoever hits the cache gets data that left the server less than a TTL   *)
(* ago, however long the call took that stored it, and whichever of two    *)
(* overlapping calls stored last.                                          *)
HitIsFresh == \A f \in Feeds : Fresh(f) => cache[f].snap < TTL

(* client.py:6-7 and 62-63: coordinators that watch the same mode share    *)
(* one HTTP request; no two calls fetch the same feed at the same time.    *)
OneRequestPerFeed ==
  \A c, d \in Clients :
    c # d /\ request[c] # None /\ request[d] # None
      => request[c].feed # request[d].feed
==============================================================================
