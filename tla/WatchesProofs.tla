---------------------------- MODULE WatchesProofs ----------------------------
(***************************************************************************)
(* For any number of watches and feeds' callers, any TTL, request timeout  *)
(* and backoff bounds: the state is well typed, cached data is as fresh as *)
(* its TTL says, and the backoff is coherent and visible.                  *)
(***************************************************************************)
EXTENDS Watches, TLAPS

(* What the steps of a cycle do to the cache and the requests. *)
CacheStep ==
  \/ \E c \in Clients, f \in Feeds :
       \/ Send(c, f) \/ Store(c, f)
       \/ \E where \in {"sent", "body", "decode"} : Raise(c, f, where)
  \/ \E c \in Clients : Respond(c) \/ ReadBody(c)
  \/ CacheTick
  \/ UNCHANGED <<cache, request>>

LEMMA CacheStepTaken == [Next]_vars => CacheStep
  <1> SUFFICES ASSUME [Next]_vars
               PROVE  CacheStep
    OBVIOUS
  <1>1. ASSUME NEW w \in Clients, NEW f \in Feeds, Fetch(w, f)
        PROVE  CacheStep
    BY <1>1
       DEF Fetch, Ask, FetchHits, FetchStores, RateLimited, StatusError,
           NetworkError, Rejected, CycleRaises, Hit, CacheStep
  <1>2. ASSUME NEW w \in Clients, Step(w)
        PROVE  CacheStep
    BY <1>1, <1>2
       DEF Step, Skip, Begin, Transfer, Finish, QueryFails, vars, CacheStep
  <1>3. QED
    BY <1>2 DEF Next, Tick, vars, CacheStep

(* Stopped or not, a tick keeps ages in their range. *)
LEMMA OlderType ==
  /\ \A stop \in Nat : \A age \in 0 .. stop : Older(age, stop) \in 0 .. stop
  /\ Longest \in Nat /\ TTL <= Longest
  BY WatchesAssumption DEF Older, Longest

LEMMA OlderEntryType ==
  ASSUME NEW e \in Entries
  PROVE  OlderEntry(e) \in Entries
  BY OlderType, WatchesAssumption DEF OlderEntry, Entries, Ages

LEMMA OlderRequestType ==
  ASSUME NEW r \in Requests
  PROVE  OlderRequest(r) \in Requests
  <1>1. Older(r.age, Longest) \in 0 .. Longest
    BY OlderType DEF Requests
  <1>2. (IF r.at = "sent" THEN 0 ELSE Older(r.snap, TTL)) \in Ages
    BY OlderType, WatchesAssumption DEF Requests, Ages
  <1>3. QED
    BY <1>1, <1>2 DEF OlderRequest, Requests

(* Entries and requests stay records of ages. *)
LEMMA CacheTypeInductive == CacheType /\ CacheStep => CacheType'
  <1> SUFFICES ASSUME CacheType, CacheStep
               PROVE  CacheType'
    OBVIOUS
  <1> USE WatchesAssumption
  <1>1. ASSUME NEW c \in Clients, NEW f \in Feeds, Send(c, f)
        PROVE  CacheType'
    <2>1. [feed |-> f, at |-> "sent", age |-> 0, snap |-> 0] \in Requests
      BY OlderType DEF Requests, Ages
    <2>2. QED
      BY <1>1, <2>1 DEF Send, CacheType
  <1>2. ASSUME NEW c \in Clients, NEW f \in Feeds, Store(c, f)
        PROVE  CacheType'
    <2>1. request[c] \in Requests
      BY <1>2 DEF Store, At, CacheType
    <2>2. Entry(request[c]) \in Entries
      BY <2>1, OlderType DEF Entry, Requests, Entries, Ages
    <2>3. QED
      BY <1>2, <2>2 DEF Store, CacheType
  <1>3. ASSUME NEW c \in Clients, NEW f \in Feeds, NEW where, Raise(c, f, where)
        PROVE  CacheType'
    BY <1>3 DEF Raise, CacheType
  <1>4. ASSUME NEW c \in Clients, Respond(c)
        PROVE  CacheType'
    <2>1. request[c] \in Requests
      BY <1>4 DEF Respond, At, CacheType
    <2>2. 0 \in Ages
      BY DEF Ages
    <2>3. [request[c] EXCEPT !.at = "body", !.snap = 0] \in Requests
      BY ONLY <2>1, <2>2 DEF Requests
    <2>4. QED
      BY <1>4, <2>3 DEF Respond, CacheType
  <1>5. ASSUME NEW c \in Clients, ReadBody(c)
        PROVE  CacheType'
    <2>1. request[c] \in Requests
      BY <1>5 DEF ReadBody, At, CacheType
    <2>2. [request[c] EXCEPT !.at = "decode"] \in Requests
      BY <2>1 DEF Requests
    <2>3. QED
      BY <1>5, <2>2 DEF ReadBody, CacheType
  <1>6. CASE CacheTick
    BY <1>6, OlderEntryType, OlderRequestType DEF CacheTick, CacheType
  <1>7. CASE UNCHANGED <<cache, request>>
    BY <1>7 DEF CacheType
  <1>8. QED
    BY <1>1, <1>2, <1>3, <1>4, <1>5, <1>6, <1>7 DEF CacheStep

(* The strengthening that makes HitIsFresh inductive: data never is older  *)
(* than the stamp it has, or will have once its call is over.              *)
SnapWithinAge ==
  /\ \A f \in Feeds : cache[f] # None => cache[f].snap <= cache[f].age
  /\ \A c \in Clients : request[c] # None => request[c].snap <= request[c].age

(* Age and snap advance together, and snap stops first. *)
LEMMA OlderTogether ==
  /\ \A e \in Entries :
       e.snap <= e.age => OlderEntry(e).snap <= OlderEntry(e).age
  /\ \A r \in Requests :
       r.snap <= r.age => OlderRequest(r).snap <= OlderRequest(r).age
  <1> USE WatchesAssumption, OlderType
  <1>1. ASSUME NEW e \in Entries, e.snap <= e.age
        PROVE  OlderEntry(e).snap <= OlderEntry(e).age
    BY <1>1 DEF OlderEntry, Older, Entries, Ages
  <1>2. ASSUME NEW r \in Requests, r.snap <= r.age
        PROVE  OlderRequest(r).snap <= OlderRequest(r).age
    <2>1. /\ OlderRequest(r).snap = IF r.at = "sent" THEN 0
                                    ELSE Older(r.snap, TTL)
          /\ OlderRequest(r).age = Older(r.age, Longest)
      BY DEF OlderRequest, Requests
    <2>2. r.snap \in 0 .. TTL /\ r.age \in 0 .. Longest
      BY DEF Requests, Ages
    <2>3. QED
      BY <1>2, <2>1, <2>2 DEF Older
  <1>3. QED
    BY <1>1, <1>2

LEMMA SnapInductive == CacheType /\ SnapWithinAge /\ CacheStep => SnapWithinAge'
  <1> SUFFICES ASSUME CacheType, SnapWithinAge, CacheStep
               PROVE  SnapWithinAge'
    OBVIOUS
  <1> USE WatchesAssumption
  <1>1. ASSUME NEW c \in Clients, NEW f \in Feeds, Send(c, f)
        PROVE  SnapWithinAge'
    BY <1>1 DEF Send, CacheType, SnapWithinAge
  <1>2. ASSUME NEW c \in Clients, NEW f \in Feeds, Store(c, f)
        PROVE  SnapWithinAge'
    <2>1. request[c] # None /\ request[c] \in Requests
      BY <1>2 DEF Store, At, CacheType
    <2>2. Entry(request[c]).snap <= Entry(request[c]).age
      BY <2>1, OlderType DEF Entry, SnapWithinAge, Requests, Ages
    <2>3. QED
      BY <1>2, <2>2 DEF Store, CacheType, SnapWithinAge
  <1>3. ASSUME NEW c \in Clients, NEW f \in Feeds, NEW where, Raise(c, f, where)
        PROVE  SnapWithinAge'
    BY <1>3 DEF Raise, CacheType, SnapWithinAge
  <1>4. ASSUME NEW c \in Clients, Respond(c)
        PROVE  SnapWithinAge'
    <2>1. request[c] \in Requests
      BY <1>4 DEF Respond, At, CacheType
    <2>2. LET r == [request[c] EXCEPT !.at = "body", !.snap = 0]
          IN  r.snap <= r.age
      BY <2>1, OlderType DEF Requests
    <2>3. QED
      BY <1>4, <2>2 DEF Respond, CacheType, SnapWithinAge
  <1>5. ASSUME NEW c \in Clients, ReadBody(c)
        PROVE  SnapWithinAge'
    <2>1. request[c] # None /\ request[c] \in Requests
      BY <1>5 DEF ReadBody, At, CacheType
    <2>2. LET r == [request[c] EXCEPT !.at = "decode"]
          IN  r.snap <= r.age
      BY <2>1 DEF Requests, SnapWithinAge
    <2>3. QED
      BY <1>5, <2>2 DEF ReadBody, CacheType, SnapWithinAge
  <1>6. CASE CacheTick
    <2>1. ASSUME NEW f \in Feeds, cache'[f] # None
          PROVE  cache'[f].snap <= cache'[f].age
      BY <1>6, <2>1, OlderTogether DEF CacheTick, CacheType, SnapWithinAge
    <2>2. ASSUME NEW c \in Clients, request'[c] # None
          PROVE  request'[c].snap <= request'[c].age
      BY <1>6, <2>2, OlderTogether DEF CacheTick, CacheType, SnapWithinAge
    <2>3. QED
      BY <2>1, <2>2 DEF SnapWithinAge
  <1>7. CASE UNCHANGED <<cache, request>>
    BY <1>7 DEF SnapWithinAge
  <1>8. QED
    BY <1>1, <1>2, <1>3, <1>4, <1>5, <1>6, <1>7 DEF CacheStep

------------------------------------------------------------------------------

LEMMA DoubledType ==
  ASSUME NEW seconds \in 0 .. BackoffMax
  PROVE  Doubled(seconds) \in 1 .. BackoffMax
  BY WatchesAssumption DEF Doubled

(* The types of a watch's own variables. *)
WatchType ==
  /\ pc \in [Clients -> {"idle", "trips", "alerts", "query"}]
  /\ backoff \in [Clients -> 0 .. BackoffMax]
  /\ until \in [Clients -> {None} \cup 0 .. BackoffMax]
  /\ error \in [Clients -> BOOLEAN]
  /\ polling \in [Clients -> BOOLEAN]

LEMMA FollowingType == \A f \in Feeds : Following(f) \in {"alerts", "query"}
  BY DEF Following

(* HandleRateLimit sets a deadline one whole backoff away. *)
LEMMA HandleRateLimitType ==
  ASSUME WatchType, NEW w \in Clients, HandleRateLimit(w)
  PROVE  /\ backoff' \in [Clients -> 0 .. BackoffMax]
         /\ until' \in [Clients -> {None} \cup 0 .. BackoffMax]
         /\ backoff'[w] # 0 /\ until'[w] = backoff'[w]
         /\ \A v \in Clients \ {w} : backoff'[v] = backoff[v] /\ until'[v] = until[v]
  <1>1. backoff'[w] \in 1 .. BackoffMax
    BY DoubledType DEF HandleRateLimit, WatchType
  <1>2. backoff' \in [Clients -> 0 .. BackoffMax]
    BY DoubledType DEF HandleRateLimit, WatchType
  <1>3. until' \in [Clients -> {None} \cup 0 .. BackoffMax]
    BY <1>1 DEF HandleRateLimit, WatchType
  <1>4. QED
    BY <1>1, <1>2, <1>3 DEF HandleRateLimit, WatchType

(* A step of the cycle keeps the types. *)
LEMMA WatchTypeInductive == WatchType /\ [Next]_vars => WatchType'
  <1> SUFFICES ASSUME WatchType, [Next]_vars
               PROVE  WatchType'
    OBVIOUS
  <1> USE WatchesAssumption
  <1>1. ASSUME NEW w \in Clients, Skip(w)
        PROVE  WatchType'
    BY <1>1 DEF Skip, WatchType, vars, watchVars
  <1>2. ASSUME NEW w \in Clients, Begin(w)
        PROVE  WatchType'
    BY <1>2 DEF Begin, WatchType
  <1>3. ASSUME NEW w \in Clients, NEW f \in Feeds, Fetch(w, f)
        PROVE  WatchType'
    <2>1. CASE Ask(w, f)
      BY <2>1 DEF Ask, WatchType, watchVars
    <2>2. CASE Got(w, f)
      <3>1. (error[w] /\ f # "trips") \in BOOLEAN
        OBVIOUS
      <3>2. QED
        BY <2>2, <3>1, FollowingType DEF Got, WatchType
    <2>3. CASE RateLimited(w, f)
      BY <2>3, FollowingType, HandleRateLimitType DEF RateLimited, WatchType
    <2>4. CASE StatusError(w, f)
      BY <2>4, FollowingType DEF StatusError, WatchType
    <2>5. CASE NetworkError(w, f)
      BY <2>5, FollowingType DEF NetworkError, WatchType
    <2>6. CASE Rejected(w, f)
      BY <2>6 DEF Rejected, WatchType
    <2>7. CASE CycleRaises(w, f)
      BY <2>7 DEF CycleRaises, WatchType
    <2>8. QED
      BY <1>3, <2>1, <2>2, <2>3, <2>4, <2>5, <2>6, <2>7
         DEF Fetch, FetchHits, FetchStores
  <1>4. ASSUME NEW w \in Clients, Transfer(w)
        PROVE  WatchType'
    BY <1>4 DEF Transfer, WatchType, watchVars
  <1>5. ASSUME NEW w \in Clients, Finish(w)
        PROVE  WatchType'
    BY <1>5 DEF Finish, WatchType
  <1>6. ASSUME NEW w \in Clients, QueryFails(w)
        PROVE  WatchType'
    BY <1>6 DEF QueryFails, WatchType
  <1>7. CASE Tick
    BY <1>7 DEF Tick, BackedOff, WatchType
  <1>8. CASE UNCHANGED vars
    BY <1>8 DEF WatchType, vars, watchVars
  <1>9. QED
    BY <1>1, <1>2, <1>3, <1>4, <1>5, <1>6, <1>7, <1>8 DEF Next, Step

(* The state of the cache, the requests and the watches stays in range. *)
THEOREM TypeCorrect == Spec => []TypeOK
  <1>1. TypeOK <=> CacheType /\ WatchType
    BY DEF TypeOK, WatchType
  <1>2. Init => CacheType /\ WatchType
    BY WatchesAssumption DEF Init, CacheInit, CacheType, WatchType
  <1>3. QED
    BY <1>1, <1>2, CacheStepTaken, CacheTypeInductive, WatchTypeInductive, PTL
       DEF Spec

(* A cache hit never returns data that left the server a TTL ago or more,  *)
(* whatever the order in which overlapping calls end.                      *)
THEOREM HitsAreFresh == Spec => []HitIsFresh
  <1>1. Init => CacheType /\ SnapWithinAge
    BY DEF Init, CacheInit, CacheType, SnapWithinAge
  <1>2. CacheType /\ SnapWithinAge => HitIsFresh
    BY WatchesAssumption
       DEF CacheType, SnapWithinAge, HitIsFresh, Fresh, Entries, Ages
  <1>3. QED
    BY <1>1, <1>2, CacheStepTaken, CacheTypeInductive, SnapInductive, PTL
       DEF Spec

------------------------------------------------------------------------------

(* The strengthening that makes BackoffShows inductive: only a cycle that  *)
(* met a 429 has a backoff that is not over, and such a cycle is past its  *)
(* trips, the one fetch whose success clears the error.                    *)
Sound(w) ==
  /\ (backoff[w] = 0) <=> (until[w] = None)
  /\ until[w] # None => until[w] <= backoff[w]
  /\ BackedOff(w) => error[w]
  /\ BackedOff(w) => pc[w] # "trips"

BackoffInv == \A w \in Clients : Sound(w)

LEMMA BackoffInductive == WatchType /\ BackoffInv /\ [Next]_vars => BackoffInv'
  <1> SUFFICES ASSUME WatchType, BackoffInv, [Next]_vars,
                      NEW v \in Clients
               PROVE  Sound(v)'
    BY DEF BackoffInv
  <1> USE WatchesAssumption
  <1>0. Sound(v)
    BY DEF BackoffInv
  <1>1. ASSUME NEW w \in Clients, Skip(w)
        PROVE  Sound(v)'
    BY <1>0, <1>1 DEF Skip, Sound, BackedOff, vars, watchVars
  <1>2. ASSUME NEW w \in Clients, Begin(w)
        PROVE  Sound(v)'
    BY <1>0, <1>2 DEF Begin, Sound, BackedOff, WatchType
  <1>3. ASSUME NEW w \in Clients, NEW f \in Feeds, Fetch(w, f)
        PROVE  Sound(v)'
    <2>1. CASE Ask(w, f)
      BY <1>0, <2>1 DEF Ask, Sound, BackedOff, watchVars
    <2>2. CASE pc[w] = f /\ Got(w, f)
      <3>1. pc'[v] # "trips" \/ pc'[v] = pc[v]
        BY <2>2, FollowingType DEF Got, WatchType
      <3>2. BackedOff(v) => error'[v]
        <4>1. CASE v = w /\ f = "trips"
          BY <1>0, <2>2, <4>1 DEF Sound
        <4>2. CASE ~(v = w /\ f = "trips")
          <5>1. error'[v] = error[v]
            BY <2>2, <4>2 DEF Got, WatchType
          <5>2. QED
            BY <1>0, <5>1 DEF Sound
        <4>3. QED
          BY <4>1, <4>2
      <3>3. QED
        BY <1>0, <2>2, <3>1, <3>2 DEF Got, Sound, BackedOff
    <2>3. CASE RateLimited(w, f)
      <3>1. CASE v = w
        <4>1. pc'[v] # "trips" /\ error'[v]
          BY <2>3, <3>1, FollowingType DEF RateLimited, WatchType
        <4>2. backoff'[v] # 0 /\ until'[v] = backoff'[v] /\ backoff'[v] \in Nat
          BY <2>3, <3>1, HandleRateLimitType DEF RateLimited
        <4>3. QED
          BY <4>1, <4>2 DEF Sound, BackedOff
      <3>2. CASE v # w
        <4>1. /\ backoff'[v] = backoff[v] /\ until'[v] = until[v]
              /\ pc'[v] = pc[v] /\ error'[v] = error[v]
          BY <2>3, <3>2, HandleRateLimitType DEF RateLimited, WatchType
        <4>2. QED
          BY <1>0, <4>1 DEF Sound, BackedOff
      <3>3. QED
        BY <3>1, <3>2
    <2>4. CASE StatusError(w, f) \/ Rejected(w, f)
      <3>1. pc'[v] # "trips" \/ pc'[v] = pc[v]
        BY <2>4, FollowingType DEF StatusError, Rejected, WatchType
      <3>2. error[v] => error'[v]
        BY <2>4 DEF StatusError, Rejected, WatchType
      <3>3. backoff' = backoff /\ until' = until
        BY <2>4 DEF StatusError, Rejected
      <3>4. QED
        BY <1>0, <3>1, <3>2, <3>3 DEF Sound, BackedOff
    <2>5. CASE NetworkError(w, f) \/ CycleRaises(w, f)
      <3>1. pc'[v] # "trips" \/ pc'[v] = pc[v]
        BY <2>5, FollowingType DEF NetworkError, CycleRaises, WatchType
      <3>2. backoff' = backoff /\ until' = until /\ error' = error
        BY <2>5 DEF NetworkError, CycleRaises
      <3>3. QED
        BY <1>0, <3>1, <3>2 DEF Sound, BackedOff
    <2>6. QED
      BY <1>3, <2>1, <2>2, <2>3, <2>4, <2>5 DEF Fetch, FetchHits, FetchStores
  <1>4. ASSUME NEW w \in Clients, Transfer(w)
        PROVE  Sound(v)'
    BY <1>0, <1>4 DEF Transfer, Sound, BackedOff, watchVars
  <1>5. ASSUME NEW w \in Clients, Finish(w)
        PROVE  Sound(v)'
    BY <1>0, <1>5 DEF Finish, Sound, BackedOff, WatchType
  <1>6. ASSUME NEW w \in Clients, QueryFails(w)
        PROVE  Sound(v)'
    BY <1>0, <1>6 DEF QueryFails, Sound, BackedOff, WatchType
  <1>7. CASE Tick
    <2>1. until'[v] = IF BackedOff(v) THEN until[v] - 1 ELSE until[v]
      BY <1>7 DEF Tick
    <2>2. backoff' = backoff /\ error' = error /\ pc' = pc
      BY <1>7 DEF Tick
    <2>3. backoff[v] \in Nat /\ (until[v] = None \/ until[v] \in Nat)
      BY DEF WatchType
    <2>4. QED
      BY <1>0, <2>1, <2>2, <2>3 DEF Sound, BackedOff
  <1>8. CASE UNCHANGED vars
    BY <1>0, <1>8 DEF vars, watchVars, Sound, BackedOff
  <1>9. QED
    BY <1>1, <1>2, <1>3, <1>4, <1>5, <1>6, <1>7, <1>8 DEF Next, Step

LEMMA BackoffInvariant == Spec => [](WatchType /\ BackoffInv)
  <1>1. Init => WatchType /\ BackoffInv
    BY WatchesAssumption
       DEF Init, CacheInit, WatchType, BackoffInv, Sound, BackedOff
  <1>2. QED
    BY <1>1, WatchTypeInductive, BackoffInductive, PTL DEF Spec

(* _backoff_seconds and _backoff_until agree: there is a deadline exactly  *)
(* when there is a backoff, and it is never further away than that.        *)
THEOREM BackoffIsCoherent == Spec => []BackoffCoherent
  <1>1. BackoffInv => BackoffCoherent
    BY DEF BackoffInv, Sound, BackoffCoherent
  <1>2. QED
    BY <1>1, BackoffInvariant, PTL

(* A watch in a backoff never reports "ok".                                *)
THEOREM BackoffIsShown == Spec => []BackoffShows
  <1>1. BackoffInv => BackoffShows
    BY DEF BackoffInv, Sound, BackoffShows
  <1>2. QED
    BY <1>1, BackoffInvariant, PTL
==============================================================================
