------------------------- MODULE EntryLifecycleProofs -------------------------
(***************************************************************************)
(* Proofs about EntryLifecycle, for any number of entries, coordinators,   *)
(* trips and options.  The invariant is one condition per kind of entry,   *)
(* which relates its state to what it has in memory, its option and its    *)
(* place in hass.config_entries; LimiterThere rests on it, since an entry  *)
(* that is unloaded is still listed.                                       *)
(***************************************************************************)
EXTENDS EntryLifecycle, FiniteSetTheorems, TLAPS

Up == {"forward", "loaded", "unloading"}
Down == {"not_loaded", "retry", "error"}

(* A watch: its handles, its coordinator and the three copies of its count *)
(* (n is the option, `there` that the entry is listed).                    *)
WatchOK(e, n, there) ==
  /\ e.making # None <=> e.state = "setup"
  /\ e.runtime # None => e.state \in Up \cup {"failed_unload"}
  /\ e.state \in Up => /\ "held" \in e.timers /\ e.listening
                       /\ e.stored # None /\ e.runtime # None
  /\ e.state = "setup" => "held" \in e.timers /\ ~ e.listening
  /\ e.state \in Down => "held" \notin e.timers /\ ~ e.listening
  /\ e.state \in Up \cup {"setup"} => there
  /\ e.state = "setup" /\ ~ e.missed => e.count = n
  /\ e.state \in {"forward", "loaded"} =>
       /\ ~ e.reload => e.stored = n
       /\ ~ e.missed => e.count = e.stored
  /\ e.state = "loaded" /\ ~ e.reload => e.slots = n

TrackerOK(e, there) ==
  /\ e.state \in {"setup", "loaded"} => e.parent # None /\ there
  /\ e.seeking # None => e.state \in {"setup", "loaded"}

RouteOK(e, there) ==
  /\ e.known = e.seen
  /\ \A t \in Trips : e.entities[t] = IF t \in e.seen THEN 1 ELSE 0
  /\ e.state \in {"setup", "loaded"} => there

WatchesOK == \A w \in Watches : WatchOK(watch[w], options[w], w \in listed)
TrackersOK == \A v \in Trackers : TrackerOK(tracker[v], v \in listed)
RoutesOK == \A r \in RouteTrackers : RouteOK(route[r], r \in listed)

IInv == TypeOK /\ WatchesOK /\ TrackersOK /\ RoutesOK /\ LimiterThere

------------------------------------------------------------------------------
(* A setup finds a coordinator that nothing refers to: each watch refers   *)
(* to one at most, each vehicle tracker too, and there are more.           *)
LEMMA FreshThere ==
  ASSUME TypeOK, WatchesOK
  PROVE  Fresh \in Coordinators
  <1> DEFINE S == Watches \cup Trackers
             f == [x \in S |->
                     IF x \in Trackers THEN tracker[x].parent
                     ELSE IF watch[x].making # None THEN watch[x].making
                     ELSE watch[x].runtime]
             T == {f[x] : x \in S}
  <1>1. IsFiniteSet(S) /\ IsFiniteSet(Coordinators)
        /\ Cardinality(Coordinators) > Cardinality(S)
    BY LifecycleAssumption
  <1>2. f \in Surjection(S, T)
    BY DEF Surjection
  <1>3. IsFiniteSet(T) /\ Cardinality(T) <= Cardinality(S)
    BY <1>1, <1>2, FS_Surjection
  <1>4. ~ (Coordinators \subseteq T)
    <2> SUFFICES ASSUME Coordinators \subseteq T PROVE FALSE
      OBVIOUS
    <2>1. Cardinality(Coordinators) <= Cardinality(T)
      BY <1>3, FS_Subset
    <2>2. /\ Cardinality(Coordinators) \in Nat /\ Cardinality(T) \in Nat
          /\ Cardinality(S) \in Nat
      BY <1>1, <1>3, FS_CardinalityType
    <2> HIDE DEF S, T
    <2> QED BY <1>1, <1>3, <2>1, <2>2
  <1>5. PICK c \in Coordinators : c \notin T
    BY <1>4
  <1>6. c # None
    BY LifecycleAssumption
  <1>7. ASSUME NEW w \in Watches
        PROVE  c # watch[w].making /\ c # watch[w].runtime
    <2>1. w \in S /\ w \notin Trackers
      BY LifecycleAssumption
    <2>2. f[w] = IF watch[w].making # None THEN watch[w].making
                 ELSE watch[w].runtime
      BY <2>1
    <2>3. f[w] # c
      BY <1>5, <2>1
    <2>4. watch[w].making = None \/ watch[w].runtime = None
      BY DEF WatchesOK, WatchOK, Up
    <2> QED BY <1>6, <2>2, <2>3, <2>4
  <1>8. ASSUME NEW v \in Trackers PROVE c # tracker[v].parent
    <2>1. v \in S /\ f[v] = tracker[v].parent
      OBVIOUS
    <2> QED BY <1>5, <2>1
  <1>9. c \notin Referred(watch, tracker)
    BY <1>7, <1>8 DEF Referred
  <1> QED BY <1>9 DEF Fresh

LEMMA KeptTyped ==
  ASSUME NEW ws, NEW ts, TypeOK
  PROVE  Kept(coord, ws, ts) \in [Coordinators -> Trips \cup {None}]
  BY DEF TypeOK, Kept, Cold

(* An entry that unloads is listed, so hass.data[DOMAIN] stays. *)
LEMMA DomainStays ==
  ASSUME IInv,
         \/ \E w \in Watches : watch[w].state \in Up
         \/ \E v \in Trackers : tracker[v].state = "loaded"
         \/ \E r \in RouteTrackers : route[r].state = "loaded"
  PROVE  DomainAfterUnload = domain
  BY DEF IInv, WatchesOK, WatchOK, TrackersOK, TrackerOK, RoutesOK, RouteOK,
         DomainAfterUnload

(* After a step of one entry the condition of that entry is what is left   *)
(* to show, and that hass.data[DOMAIN] keeps the limiter.                  *)
LEMMA OneWatch ==
  ASSUME IInv, NEW w \in Watches, NEW e,
         watch' = [watch EXCEPT ![w] = e],
         e \in Watch, WatchOK(e, options'[w], w \in listed),
         e.state \in Up => domain' = "limiter",
         domain = "limiter" => domain' = "limiter",
         \A u \in Watches \ {w} : options'[u] = options[u],
         UNCHANGED <<listed, tracker, route>>
  PROVE  /\ watch' \in [Watches -> Watch]
         /\ WatchesOK' /\ TrackersOK' /\ RoutesOK' /\ LimiterThere'
  <1>1. watch' \in [Watches -> Watch] /\ watch'[w] = e
        /\ \A u \in Watches \ {w} : watch'[u] = watch[u]
    BY DEF IInv, TypeOK
  <1>2. WatchesOK'
    <2> SUFFICES ASSUME NEW u \in Watches
                 PROVE  WatchOK(watch'[u], options'[u], u \in listed')
      BY DEF WatchesOK
    <2>1. CASE u = w
      BY <1>1, <2>1
    <2>2. CASE u # w
      <3>1. watch'[u] = watch[u] /\ options'[u] = options[u]
        BY <1>1, <2>2
      <3> QED BY <3>1 DEF IInv, WatchesOK
    <2> QED BY <2>1, <2>2
  <1>3. TrackersOK' /\ RoutesOK'
    BY DEF IInv, TrackersOK, RoutesOK
  <1>4. LimiterThere'
    BY <1>1 DEF IInv, LimiterThere, Live, Up
  <1> QED BY <1>1, <1>2, <1>3, <1>4

LEMMA OneTracker ==
  ASSUME IInv, NEW v \in Trackers, NEW e,
         tracker' = [tracker EXCEPT ![v] = e],
         e \in Tracker, TrackerOK(e, v \in listed),
         e.state = "loaded" \/ e.seeking # None => domain' = "limiter",
         domain = "limiter" => domain' = "limiter",
         UNCHANGED <<listed, options, watch, route>>
  PROVE  /\ tracker' \in [Trackers -> Tracker]
         /\ WatchesOK' /\ TrackersOK' /\ RoutesOK' /\ LimiterThere'
  <1>1. tracker' \in [Trackers -> Tracker] /\ tracker'[v] = e
        /\ \A u \in Trackers \ {v} : tracker'[u] = tracker[u]
    BY DEF IInv, TypeOK
  <1>2. TrackersOK'
    BY <1>1 DEF IInv, TrackersOK
  <1>3. WatchesOK' /\ RoutesOK'
    BY DEF IInv, WatchesOK, RoutesOK
  <1>4. LimiterThere'
    BY <1>1 DEF IInv, LimiterThere, Live
  <1> QED BY <1>1, <1>2, <1>3, <1>4

LEMMA OneRoute ==
  ASSUME IInv, NEW r \in RouteTrackers, NEW e,
         route' = [route EXCEPT ![r] = e],
         e \in Route, RouteOK(e, r \in listed),
         e.state = "loaded" => domain' = "limiter",
         domain = "limiter" => domain' = "limiter",
         UNCHANGED <<listed, options, watch, tracker>>
  PROVE  /\ route' \in [RouteTrackers -> Route]
         /\ WatchesOK' /\ TrackersOK' /\ RoutesOK' /\ LimiterThere'
  <1>1. route' \in [RouteTrackers -> Route] /\ route'[r] = e
        /\ \A u \in RouteTrackers \ {r} : route'[u] = route[u]
    BY DEF IInv, TypeOK
  <1>2. RoutesOK'
    BY <1>1 DEF IInv, RoutesOK
  <1>3. WatchesOK' /\ TrackersOK'
    BY DEF IInv, WatchesOK, TrackersOK
  <1>4. LimiterThere'
    BY <1>1 DEF IInv, LimiterThere, Live
  <1> QED BY <1>1, <1>2, <1>3, <1>4

------------------------------------------------------------------------------
(* What an action gives the entry it is about keeps its condition. *)
LEMMA WatchActions ==
  ASSUME IInv, NEW w \in Watches, WatchNext(w)
  PROVE  IInv'
  <1> DEFINE was == watch[w]
  <1>0. /\ was \in Watch /\ WatchOK(was, options[w], w \in listed)
        /\ options[w] \in Counts /\ options \in [Watches -> Counts]
        /\ watch \in [Watches -> Watch]
        /\ None \notin Counts /\ None \notin Coordinators
        /\ was.state \in Up => domain = "limiter"
    BY LifecycleAssumption DEF IInv, TypeOK, WatchesOK, LimiterThere, Live, Up
  <1>1. CASE SetupWatch(w)
    <2> DEFINE e == [was EXCEPT !.state = "setup", !.making = Fresh,
                                !.timers = @ \cup {"held"},
                                !.count = options[w],
                                !.reload = @ /\ was.state = "not_loaded"]
    <2>1. Fresh \in Coordinators
      BY FreshThere DEF IInv
    <2>2. watch' = [watch EXCEPT ![w] = e]
      BY <1>0, <1>1 DEF SetupWatch
    <2>3. e \in Watch
      <3>1. /\ was.timers \cup {"held"} \in Handles
            /\ (was.reload /\ was.state = "not_loaded") \in BOOLEAN
        BY <1>0 DEF Watch, Handles
      <3>2. options[w] \in Counts \cup {0} /\ "setup" \in States
        BY <1>0 DEF States
      <3> QED BY <1>0, <2>1, <3>1, <3>2 DEF Watch
    <2>4. WatchOK(e, options[w], w \in listed)
      <3>1. /\ e.state = "setup" /\ e.making # None /\ "held" \in e.timers
            /\ e.count = options[w] /\ e.runtime = was.runtime
            /\ e.listening = was.listening
        BY <1>0, <2>1 DEF Watch
      <3>2. was.state \in Down /\ w \in listed
        BY <1>1 DEF SetupWatch, Down
      <3>3. was.runtime = None /\ ~ was.listening
        BY <1>0, <3>2 DEF WatchOK, Up, Down
      <3> HIDE DEF e
      <3> QED BY <3>1, <3>2, <3>3 DEF WatchOK, Up, Down
    <2>5. watch' \in [Watches -> Watch]
          /\ WatchesOK' /\ TrackersOK' /\ RoutesOK' /\ LimiterThere'
      <3> HIDE DEF e
      <3>1. e.state \notin Up
        BY DEF e, Up
      <3> QED BY <1>1, <2>2, <2>3, <2>4, <3>1, OneWatch
              DEF SetupWatch, WithDomain, disk
    <2>6. TypeOK'
      BY <1>1, <2>5
      DEF IInv, TypeOK, SetupWatch, WithDomain, Refreshing, disk
    <2> QED BY <2>5, <2>6 DEF IInv
  <1>2. CASE FirstRefreshFails(w)
    <2>1. PICK s \in {"retry", "error"} :
            watch' = [watch EXCEPT ![w].state = s, ![w].making = None,
                                   ![w].count = 0, ![w].missed = FALSE,
                                   ![w].timers = (@ \ {"held"}) \cup {"lost"}]
      BY <1>2 DEF FirstRefreshFails
    <2> DEFINE e == [was EXCEPT !.state = s, !.making = None,
                                !.count = 0, !.missed = FALSE,
                                !.timers = (@ \ {"held"}) \cup {"lost"}]
    <2>2. watch' = [watch EXCEPT ![w] = e]
      BY <1>0, <1>2, <2>1 DEF FirstRefreshFails
    <2>3. e \in Watch
      BY <1>0, <1>2 DEF FirstRefreshFails, Watch, Handles, States
    <2>4. WatchOK(e, options[w], w \in listed)
      BY <1>0, <1>2 DEF FirstRefreshFails, WatchOK, Up, Down, Watch
    <2>5. watch' \in [Watches -> Watch]
          /\ WatchesOK' /\ TrackersOK' /\ RoutesOK' /\ LimiterThere'
      <3>1. e.state \in Up => domain' = "limiter"
        BY <1>0, <1>2 DEF FirstRefreshFails, WithLimiter, Watch, Up
      <3>2. domain = "limiter" => domain' = "limiter"
        BY <1>0, <1>2 DEF FirstRefreshFails, WithLimiter, Watch
      <3>3. /\ UNCHANGED <<listed, tracker, route>>
            /\ \A u \in Watches \ {w} : options'[u] = options[u]
        BY <1>0, <1>2, KeptTyped DEF FirstRefreshFails, disk
      <3>4. options'[w] = options[w]
        BY <1>0, <1>2, KeptTyped DEF FirstRefreshFails, disk
      <3>5. WatchOK(e, options'[w], w \in listed)
        BY <2>4, <3>4
      <3> HIDE DEF e
      <3> QED BY <2>2, <2>3, <3>1, <3>2, <3>3, <3>5, OneWatch
    <2>6. TypeOK'
      BY <1>0, <1>2, <2>5, KeptTyped
      DEF IInv, TypeOK, FirstRefreshFails, WithLimiter, disk
    <2> QED BY <2>5, <2>6 DEF IInv
  <1>3. CASE FirstRefreshWorks(w)
    <2> DEFINE e == [was EXCEPT !.state = "forward", !.making = None,
                                !.runtime = was.making, !.listening = TRUE,
                                !.stored = options[w]]
    <2>1. watch' = [watch EXCEPT ![w].state = "forward", ![w].making = None,
                                 ![w].runtime = watch[w].making,
                                 ![w].listening = TRUE,
                                 ![w].stored = options[w]]
      BY <1>3 DEF FirstRefreshWorks
    <2>2. watch' = [watch EXCEPT ![w] = e]
      BY <1>0, <2>1
    <2>3. e \in Watch
      BY <1>0, <1>3 DEF FirstRefreshWorks, Watch, Handles, States
    <2>4. WatchOK(e, options[w], w \in listed)
      BY <1>0, <1>3 DEF FirstRefreshWorks, WatchOK, Up, Down, Watch
    <2>5. watch' \in [Watches -> Watch]
          /\ WatchesOK' /\ TrackersOK' /\ RoutesOK' /\ LimiterThere'
      <3>1. e.state \in Up => domain' = "limiter"
        BY <1>0, <1>3 DEF FirstRefreshWorks, WithLimiter, Watch, Up
      <3>2. domain = "limiter" => domain' = "limiter"
        BY <1>0, <1>3 DEF FirstRefreshWorks, WithLimiter, Watch
      <3>3. /\ UNCHANGED <<listed, tracker, route>>
            /\ \A u \in Watches \ {w} : options'[u] = options[u]
        BY <1>0, <1>3 DEF FirstRefreshWorks, disk
      <3>4. options'[w] = options[w]
        BY <1>0, <1>3 DEF FirstRefreshWorks, disk
      <3>5. WatchOK(e, options'[w], w \in listed)
        BY <2>4, <3>4
      <3> HIDE DEF e
      <3> QED BY <2>2, <2>3, <3>1, <3>2, <3>3, <3>5, OneWatch
    <2>6. coord' \in [Coordinators -> Trips \cup {None}]
      <3>1. PICK t \in Trips \cup {None} :
              coord' = [coord EXCEPT ![watch[w].making] = t]
        BY <1>3 DEF FirstRefreshWorks
      <3> QED BY <3>1 DEF IInv, TypeOK
    <2>7. TypeOK'
      BY <1>3, <2>5, <2>6
      DEF IInv, TypeOK, FirstRefreshWorks, WithLimiter, disk
    <2> QED BY <2>5, <2>7 DEF IInv
  <1>4. CASE ForwardWatch(w)
    <2> DEFINE e == [was EXCEPT !.state = "loaded", !.slots = Slots(w)]
    <2>2. watch' = [watch EXCEPT ![w] = e]
      BY <1>0, <1>4 DEF ForwardWatch
    <2>3. e \in Watch
      BY <1>0, <1>4 DEF ForwardWatch, Slots, Watch, Handles, States
    <2>4. WatchOK(e, options[w], w \in listed)
      BY <1>0, <1>4 DEF ForwardWatch, Slots, WatchOK, Up, Down, Watch
    <2>5. watch' \in [Watches -> Watch]
          /\ WatchesOK' /\ TrackersOK' /\ RoutesOK' /\ LimiterThere'
      <3>1. e.state \in Up => domain' = "limiter"
        BY <1>0, <1>4 DEF ForwardWatch, Watch, Up
      <3>2. domain = "limiter" => domain' = "limiter"
        BY <1>0, <1>4 DEF ForwardWatch, Watch
      <3>3. /\ UNCHANGED <<listed, tracker, route>>
            /\ \A u \in Watches \ {w} : options'[u] = options[u]
        BY <1>0, <1>4 DEF ForwardWatch, disk
      <3>4. options'[w] = options[w]
        BY <1>0, <1>4 DEF ForwardWatch, disk
      <3>5. WatchOK(e, options'[w], w \in listed)
        BY <2>4, <3>4
      <3> HIDE DEF e
      <3> QED BY <2>2, <2>3, <3>1, <3>2, <3>3, <3>5, OneWatch
    <2>6. TypeOK'
      BY <1>0, <1>4, <2>5
      DEF IInv, TypeOK, ForwardWatch, disk
    <2> QED BY <2>5, <2>6 DEF IInv
  <1>5. CASE PollWatch(w)
    <2>1. TypeOK'
      BY <1>0, <1>5 DEF IInv, TypeOK, PollWatch, disk
    <2> QED BY <1>5, <2>1
            DEF IInv, WatchesOK, TrackersOK, RoutesOK, LimiterThere, Live,
                PollWatch, disk
  <1>6. CASE ChangeOptions(w)
    <2>1. PICK n \in Counts :
            /\ options' = [options EXCEPT ![w] = n]
            /\ watch' = [watch EXCEPT ![w] =
                 IF @.listening THEN OptionsUpdated(@, n)
                 ELSE Unheard(@)]
      BY <1>6 DEF ChangeOptions
    <2> DEFINE e == IF was.listening THEN OptionsUpdated(was, n)
                        ELSE Unheard(was)
    <2>2. watch' = [watch EXCEPT ![w] = e]
      BY <1>0, <1>6, <2>1 DEF ChangeOptions
    <2>3. e \in Watch
      <3>1. CASE was.listening
        BY <1>0, <3>1 DEF OptionsUpdated, Watch
      <3>2. CASE ~ was.listening
        <4>1. (was.missed \/ was.state = "setup") \in BOOLEAN
          BY <1>0 DEF Watch
        <4> QED BY <1>0, <3>2, <4>1 DEF Unheard, Watch
      <3> QED BY <3>1, <3>2
    <2>4. WatchOK(e, n, w \in listed)
      BY <1>0, <1>6 DEF OptionsUpdated, Unheard, WatchOK, Up, Down, Watch
    <2>5. watch' \in [Watches -> Watch]
          /\ WatchesOK' /\ TrackersOK' /\ RoutesOK' /\ LimiterThere'
      <3>1. e.state \in Up => domain' = "limiter"
        BY <1>0, <1>6 DEF ChangeOptions, OptionsUpdated, Unheard, Watch, Up
      <3>2. domain = "limiter" => domain' = "limiter"
        BY <1>0, <1>6 DEF ChangeOptions, OptionsUpdated, Unheard, Watch
      <3>3. /\ UNCHANGED <<listed, tracker, route>>
            /\ \A u \in Watches \ {w} : options'[u] = options[u]
        BY <1>0, <1>6, <2>1 DEF ChangeOptions, disk
      <3>4. options'[w] = n
        BY <1>0, <1>6, <2>1 DEF ChangeOptions, disk
      <3>5. WatchOK(e, options'[w], w \in listed)
        BY <2>4, <3>4
      <3> HIDE DEF e
      <3> QED BY <2>2, <2>3, <3>1, <3>2, <3>3, <3>5, OneWatch
    <2>6. TypeOK'
      BY <1>0, <1>6, <2>5, <2>1
      DEF IInv, TypeOK, ChangeOptions, disk
    <2> QED BY <2>5, <2>6 DEF IInv
  <1>7. CASE StartUnload(w)
    <2> DEFINE e == [was EXCEPT !.state = "unloading", !.reload = FALSE]
    <2>2. watch' = [watch EXCEPT ![w] = e]
      BY <1>0, <1>7 DEF StartUnload
    <2>3. e \in Watch
      BY <1>0, <1>7 DEF StartUnload, Watch, Handles, States
    <2>4. WatchOK(e, options[w], w \in listed)
      BY <1>0, <1>7 DEF StartUnload, WatchOK, Up, Down, Watch
    <2>5. watch' \in [Watches -> Watch]
          /\ WatchesOK' /\ TrackersOK' /\ RoutesOK' /\ LimiterThere'
      <3>1. e.state \in Up => domain' = "limiter"
        BY <1>0, <1>7 DEF StartUnload, Watch, Up
      <3>2. domain = "limiter" => domain' = "limiter"
        BY <1>0, <1>7 DEF StartUnload, Watch
      <3>3. /\ UNCHANGED <<listed, tracker, route>>
            /\ \A u \in Watches \ {w} : options'[u] = options[u]
        BY <1>0, <1>7 DEF StartUnload, disk
      <3>4. options'[w] = options[w]
        BY <1>0, <1>7 DEF StartUnload, disk
      <3>5. WatchOK(e, options'[w], w \in listed)
        BY <2>4, <3>4
      <3> HIDE DEF e
      <3> QED BY <2>2, <2>3, <3>1, <3>2, <3>3, <3>5, OneWatch
    <2>6. TypeOK'
      BY <1>0, <1>7, <2>5
      DEF IInv, TypeOK, StartUnload, disk
    <2> QED BY <2>5, <2>6 DEF IInv
  <1>8. CASE Unload(w)
    <2> DEFINE e == [Cancelled(was) EXCEPT
                     !.state = "not_loaded", !.slots = 0, !.count = 0,
                     !.stored = None, !.runtime = None, !.missed = FALSE]
    <2>1. domain' = domain
      BY <1>8, DomainStays DEF Unload, Up
    <2>2. watch' = [watch EXCEPT ![w] = e]
      BY <1>0, <1>8 DEF Unload
    <2>3. e \in Watch
      BY <1>0, <1>8 DEF Unload, Cancelled, Watch, Handles, States
    <2>4. WatchOK(e, options[w], w \in listed)
      BY <1>0, <1>8 DEF Unload, Cancelled, WatchOK, Up, Down, Watch
    <2>5. watch' \in [Watches -> Watch]
          /\ WatchesOK' /\ TrackersOK' /\ RoutesOK' /\ LimiterThere'
      <3>1. e.state \in Up => domain' = "limiter"
        BY <1>0, <1>8, <2>1 DEF Unload, Watch, Up
      <3>2. domain = "limiter" => domain' = "limiter"
        BY <1>0, <1>8, <2>1 DEF Unload, Watch
      <3>3. /\ UNCHANGED <<listed, tracker, route>>
            /\ \A u \in Watches \ {w} : options'[u] = options[u]
        BY <1>0, <1>8, <2>1, KeptTyped DEF Unload, disk
      <3>4. options'[w] = options[w]
        BY <1>0, <1>8, <2>1, KeptTyped DEF Unload, disk
      <3>5. WatchOK(e, options'[w], w \in listed)
        BY <2>4, <3>4
      <3> HIDE DEF e
      <3> QED BY <2>2, <2>3, <3>1, <3>2, <3>3, <3>5, OneWatch
    <2>6. TypeOK'
      BY <1>0, <1>8, <2>5, <2>1, KeptTyped
      DEF IInv, TypeOK, Unload, disk
    <2> QED BY <2>5, <2>6 DEF IInv
  <1>9. CASE UnloadFails(w)
    <2> DEFINE e == [was EXCEPT !.state = "failed_unload"]
    <2>1. domain' = domain
      BY <1>9, DomainStays DEF UnloadFails, Up
    <2>2. watch' = [watch EXCEPT ![w] = e]
      BY <1>0, <1>9 DEF UnloadFails
    <2>3. e \in Watch
      BY <1>0, <1>9 DEF UnloadFails, Watch, Handles, States
    <2>4. WatchOK(e, options[w], w \in listed)
      BY <1>0, <1>9 DEF UnloadFails, WatchOK, Up, Down, Watch
    <2>5. watch' \in [Watches -> Watch]
          /\ WatchesOK' /\ TrackersOK' /\ RoutesOK' /\ LimiterThere'
      <3>1. e.state \in Up => domain' = "limiter"
        BY <1>0, <1>9, <2>1 DEF UnloadFails, Watch, Up
      <3>2. domain = "limiter" => domain' = "limiter"
        BY <1>0, <1>9, <2>1 DEF UnloadFails, Watch
      <3>3. /\ UNCHANGED <<listed, tracker, route>>
            /\ \A u \in Watches \ {w} : options'[u] = options[u]
        BY <1>0, <1>9, <2>1 DEF UnloadFails, disk
      <3>4. options'[w] = options[w]
        BY <1>0, <1>9, <2>1 DEF UnloadFails, disk
      <3>5. WatchOK(e, options'[w], w \in listed)
        BY <2>4, <3>4
      <3> HIDE DEF e
      <3> QED BY <2>2, <2>3, <3>1, <3>2, <3>3, <3>5, OneWatch
    <2>6. TypeOK'
      BY <1>0, <1>9, <2>5, <2>1
      DEF IInv, TypeOK, UnloadFails, disk
    <2> QED BY <2>5, <2>6 DEF IInv
  <1> QED
    BY <1>1, <1>2, <1>3, <1>4, <1>5, <1>6, <1>7, <1>8, <1>9 DEF WatchNext

LEMMA TrackerActions ==
  ASSUME IInv, NEW v \in Trackers, TrackerNext(v)
  PROVE  IInv'
  <1> DEFINE was == tracker[v]
  <1>0. /\ was \in Tracker /\ TrackerOK(was, v \in listed)
        /\ tracker \in [Trackers -> Tracker]
        /\ None \notin Coordinators /\ None \notin Trips
        /\ was.state = "loaded" \/ was.seeking # None => domain = "limiter"
    BY LifecycleAssumption DEF IInv, TypeOK, TrackersOK, LimiterThere
  <1>1. CASE SetupTracker(v)
    <2> DEFINE parent == watch[Parent[v]].runtime
               e == [was EXCEPT !.state = IF Parent[v] \in listed
                                             /\ parent # None
                                          THEN "setup" ELSE "error",
                                !.parent = parent]
    <2>1. parent \in Coordinators \cup {None}
      BY LifecycleAssumption DEF IInv, TypeOK, Watch
    <2>2. tracker' = [tracker EXCEPT ![v] = e]
      BY <1>0, <1>1 DEF SetupTracker
    <2>3. e \in Tracker /\ TrackerOK(e, v \in listed)
      BY <1>0, <1>1, <2>1 DEF SetupTracker, Tracker, TrackerOK, States
    <2>4. ~ (e.state = "loaded" \/ e.seeking # None)
      BY <1>0, <1>1 DEF SetupTracker, Tracker, TrackerOK
    <2>5. tracker' \in [Trackers -> Tracker]
          /\ WatchesOK' /\ TrackersOK' /\ RoutesOK' /\ LimiterThere'
      <3> HIDE DEF e
      <3> QED BY <1>1, <2>2, <2>3, <2>4, OneTracker
              DEF SetupTracker, WithDomain, disk
    <2>6. TypeOK'
      BY <1>1, <2>5 DEF IInv, TypeOK, SetupTracker, WithDomain, disk
    <2> QED BY <2>5, <2>6 DEF IInv
  <1>2. CASE TrackerFails(v)
    <2>1. PICK s \in {"retry", "error"} :
            tracker' = [tracker EXCEPT ![v] =
                          [Cold.tracker EXCEPT !.state = s]]
      BY <1>2 DEF TrackerFails
    <2> DEFINE e == [Cold.tracker EXCEPT !.state = s]
    <2>2. e \in Tracker /\ TrackerOK(e, v \in listed)
          /\ ~ (e.state = "loaded" \/ e.seeking # None)
      BY DEF Cold, Tracker, TrackerOK, States
    <2>5. tracker' \in [Trackers -> Tracker]
          /\ WatchesOK' /\ TrackersOK' /\ RoutesOK' /\ LimiterThere'
      <3> HIDE DEF e
      <3> QED BY <1>2, <2>1, <2>2, OneTracker
              DEF TrackerFails, WithLimiter, disk, e
    <2>6. TypeOK'
      BY <1>2, <2>5, KeptTyped
      DEF IInv, TypeOK, TrackerFails, WithLimiter, disk
    <2> QED BY <2>5, <2>6 DEF IInv
  <1>3. CASE SeekVehicle(v)
    <2> DEFINE t == NextTrip(v)
               e == IF t = None
                    THEN [was EXCEPT !.state = "loaded", !.shows = None,
                                     !.success = TRUE]
                    ELSE [was EXCEPT !.seeking = t]
    <2>1. t \in Trips \cup {None}
      BY <1>0, <1>3 DEF SeekVehicle, NextTrip, IInv, TypeOK, Tracker,
                        TrackerOK
    <2>2. tracker' = [tracker EXCEPT ![v] = e]
      BY <1>0, <1>3 DEF SeekVehicle
    <2>3. e \in Tracker /\ TrackerOK(e, v \in listed)
      <3> HIDE DEF t
      <3> QED BY <1>0, <1>3, <2>1 DEF SeekVehicle, Tracker, TrackerOK, States
    <2>5. tracker' \in [Trackers -> Tracker]
          /\ WatchesOK' /\ TrackersOK' /\ RoutesOK' /\ LimiterThere'
      <3> HIDE DEF e
      <3> QED BY <1>3, <2>2, <2>3, OneTracker
              DEF SeekVehicle, WithLimiter, disk
    <2>6. TypeOK'
      BY <1>3, <2>5 DEF IInv, TypeOK, SeekVehicle, WithLimiter, disk
    <2> QED BY <2>5, <2>6 DEF IInv
  <1>4. CASE FindVehicle(v)
    <2>1. PICK t \in {was.seeking, None} :
            tracker' = [tracker EXCEPT ![v].state = "loaded",
                                       ![v].shows = t, ![v].seeking = None,
                                       ![v].success = TRUE]
      BY <1>4 DEF FindVehicle
    <2> DEFINE e == [was EXCEPT !.state = "loaded", !.shows = t,
                                !.seeking = None, !.success = TRUE]
    <2>2. tracker' = [tracker EXCEPT ![v] = e]
      BY <1>0, <2>1
    <2>3. e \in Tracker /\ TrackerOK(e, v \in listed)
      BY <1>0, <1>4, <2>1 DEF FindVehicle, Tracker, TrackerOK, States
    <2>5. tracker' \in [Trackers -> Tracker]
          /\ WatchesOK' /\ TrackersOK' /\ RoutesOK' /\ LimiterThere'
      <3> HIDE DEF e
      <3> QED BY <1>0, <1>4, <2>2, <2>3, OneTracker DEF FindVehicle, disk
    <2>6. TypeOK'
      BY <1>4, <2>5 DEF IInv, TypeOK, FindVehicle, disk
    <2> QED BY <2>5, <2>6 DEF IInv
  <1>5. CASE FindFails(v)
    <2> DEFINE e == [was EXCEPT !.seeking = None, !.success = FALSE]
    <2>1. tracker' = [tracker EXCEPT ![v] = e]
      BY <1>0, <1>5 DEF FindFails
    <2>2. e \in Tracker /\ TrackerOK(e, v \in listed)
      BY <1>0, <1>5 DEF FindFails, Tracker, TrackerOK, States
    <2>3. tracker' \in [Trackers -> Tracker]
          /\ WatchesOK' /\ TrackersOK' /\ RoutesOK' /\ LimiterThere'
      <3> HIDE DEF e
      <3> QED BY <1>0, <1>5, <2>1, <2>2, OneTracker DEF FindFails, disk
    <2>4. TypeOK'
      BY <1>5, <2>3 DEF IInv, TypeOK, FindFails, disk
    <2> QED BY <2>3, <2>4 DEF IInv
  <1>6. CASE UnloadTracker(v)
    <2> DEFINE e == Cold.tracker
    <2>1. domain' = domain
      BY <1>6, DomainStays DEF UnloadTracker
    <2>2. tracker' = [tracker EXCEPT ![v] = e]
      BY <1>6 DEF UnloadTracker
    <2>3. e \in Tracker /\ TrackerOK(e, v \in listed)
          /\ ~ (e.state = "loaded" \/ e.seeking # None)
      BY DEF Cold, Tracker, TrackerOK, States
    <2>5. tracker' \in [Trackers -> Tracker]
          /\ WatchesOK' /\ TrackersOK' /\ RoutesOK' /\ LimiterThere'
      <3> HIDE DEF e
      <3> QED BY <1>6, <2>1, <2>2, <2>3, OneTracker DEF UnloadTracker, disk
    <2>6. TypeOK'
      BY <1>6, <2>1, <2>5, KeptTyped DEF IInv, TypeOK, UnloadTracker, disk
    <2> QED BY <2>5, <2>6 DEF IInv
  <1> QED
    BY <1>1, <1>2, <1>3, <1>4, <1>5, <1>6 DEF TrackerNext

(* A look at the feed gives an entity to the trips that have none yet. *)
LEMMA AddedOK ==
  ASSUME LifecycleAssumption, NEW e \in Route, NEW P \in SUBSET OnRoute,
         NEW there, RouteOK(e, there)
  PROVE  /\ Added(e, P) \in Route
         /\ Added(e, P).state = e.state
         /\ RouteOK(Added(e, P), there)
  <1>1. PICK N : N = WithNew(e, P)
    OBVIOUS
  <1>2. PICK K : K = e.known \cup P
    OBVIOUS
  <1>3. PICK a : a = Added(e, P)
    OBVIOUS
  <1>4. K \in SUBSET Trips /\ K = e.seen \cup P
    BY <1>2 DEF Route, RouteOK, LifecycleAssumption
  <1>5. N \in [Trips -> Nat] /\ \A t \in Trips : N[t] = IF t \in K THEN 1 ELSE 0
    <2>1. \A t \in Trips : N[t] = IF t \in P \ e.known THEN e.entities[t] + 1
                                                     ELSE e.entities[t]
      BY <1>1 DEF WithNew
    <2>2. \A t \in Trips : e.entities[t] = IF t \in e.known THEN 1 ELSE 0
      BY DEF RouteOK
    <2>3. \A t \in Trips : N[t] = IF t \in K THEN 1 ELSE 0
      BY <1>2, <2>1, <2>2
    <2>4. N = [t \in Trips |-> N[t]]
      BY <1>1 DEF WithNew
    <2> QED BY <2>3, <2>4
  <1>6. a = [e EXCEPT !.known = K, !.entities = N, !.seen = K]
    BY <1>1, <1>2, <1>3, <1>4 DEF Added, Route
  <1>7. /\ a \in Route /\ a.state = e.state /\ a.known = K /\ a.seen = K
        /\ a.entities = N
    BY <1>4, <1>5, <1>6 DEF Route
  <1>8. RouteOK(a, there)
    BY <1>5, <1>7 DEF RouteOK
  <1> QED BY <1>3, <1>7, <1>8

LEMMA RouteActions ==
  ASSUME IInv, NEW r \in RouteTrackers, RouteNext(r)
  PROVE  IInv'
  <1> DEFINE was == route[r]
  <1>0. /\ was \in Route /\ RouteOK(was, r \in listed)
        /\ route \in [RouteTrackers -> Route]
        /\ was.state = "loaded" => domain = "limiter"
        /\ LifecycleAssumption
    BY LifecycleAssumption DEF IInv, TypeOK, RoutesOK, LimiterThere
  <1>1. CASE SetupRoute(r)
    <2> DEFINE e == [was EXCEPT !.state = "setup"]
    <2>1. route' = [route EXCEPT ![r] = e]
      BY <1>0, <1>1 DEF SetupRoute
    <2>2. e \in Route /\ RouteOK(e, r \in listed) /\ e.state # "loaded"
      BY <1>0, <1>1 DEF SetupRoute, Route, RouteOK, States
    <2>5. route' \in [RouteTrackers -> Route]
          /\ WatchesOK' /\ TrackersOK' /\ RoutesOK' /\ LimiterThere'
      <3> HIDE DEF e
      <3> QED BY <1>1, <2>1, <2>2, OneRoute DEF SetupRoute, WithDomain, disk
    <2>6. TypeOK'
      BY <1>1, <2>5 DEF IInv, TypeOK, SetupRoute, WithDomain, disk
    <2> QED BY <2>5, <2>6 DEF IInv
  <1>2. CASE RouteWorks(r)
    <2>1. PICK P \in Positions :
            route' = [route EXCEPT ![r] =
                        Added([@ EXCEPT !.state = "loaded"], P)]
      BY <1>2 DEF RouteWorks
    <2> DEFINE b == [was EXCEPT !.state = "loaded"]
               e == Added(b, P)
    <2>2. b \in Route /\ b.state = "loaded" /\ RouteOK(b, r \in listed)
      BY <1>0, <1>2 DEF RouteWorks, Route, RouteOK, States
    <2>3. e \in Route /\ RouteOK(e, r \in listed)
      <3> HIDE DEF b
      <3> QED BY <1>0, <2>2, AddedOK DEF Positions
    <2>4. route' = [route EXCEPT ![r] = e]
      BY <1>0, <2>1
    <2>5. route' \in [RouteTrackers -> Route]
          /\ WatchesOK' /\ TrackersOK' /\ RoutesOK' /\ LimiterThere'
      <3> HIDE DEF e
      <3> QED BY <1>2, <2>3, <2>4, OneRoute DEF RouteWorks, WithLimiter, disk
    <2>6. TypeOK'
      BY <1>2, <2>5 DEF IInv, TypeOK, RouteWorks, WithLimiter, disk
    <2> QED BY <2>5, <2>6 DEF IInv
  <1>3. CASE RouteFails(r)
    <2>1. PICK s \in {"retry", "error"} : route' = [route EXCEPT ![r].state = s]
      BY <1>3 DEF RouteFails
    <2> DEFINE e == [was EXCEPT !.state = s]
    <2>2. route' = [route EXCEPT ![r] = e]
      BY <1>0, <2>1
    <2>3. e \in Route /\ RouteOK(e, r \in listed) /\ e.state # "loaded"
      BY <1>0 DEF Route, RouteOK, States
    <2>5. route' \in [RouteTrackers -> Route]
          /\ WatchesOK' /\ TrackersOK' /\ RoutesOK' /\ LimiterThere'
      <3> HIDE DEF e
      <3> QED BY <1>3, <2>2, <2>3, OneRoute DEF RouteFails, WithLimiter, disk
    <2>6. TypeOK'
      BY <1>3, <2>5 DEF IInv, TypeOK, RouteFails, WithLimiter, disk
    <2> QED BY <2>5, <2>6 DEF IInv
  <1>4. CASE PollRoute(r)
    <2>1. PICK P \in Positions : route' = [route EXCEPT ![r] = Added(@, P)]
      BY <1>4 DEF PollRoute
    <2> DEFINE e == Added(was, P)
    <2>2. route' = [route EXCEPT ![r] = e]
      BY <1>0, <2>1
    <2>3. e \in Route /\ RouteOK(e, r \in listed)
      BY <1>0, AddedOK DEF Positions
    <2>5. route' \in [RouteTrackers -> Route]
          /\ WatchesOK' /\ TrackersOK' /\ RoutesOK' /\ LimiterThere'
      <3> HIDE DEF e
      <3> QED BY <1>0, <1>4, <2>2, <2>3, OneRoute DEF PollRoute, disk
    <2>6. TypeOK'
      BY <1>4, <2>5 DEF IInv, TypeOK, PollRoute, disk
    <2> QED BY <2>5, <2>6 DEF IInv
  <1>5. CASE UnloadRoute(r)
    <2> DEFINE e == UnloadedRoute(was)
    <2>1. domain' = domain
      BY <1>5, DomainStays DEF UnloadRoute
    <2>2. route' = [route EXCEPT ![r] = e]
      BY <1>0, <1>5 DEF UnloadRoute
    <2>3. e \in Route /\ RouteOK(e, r \in listed) /\ e.state # "loaded"
      BY DEF UnloadedRoute, Cold, Route, RouteOK, States
    <2>5. route' \in [RouteTrackers -> Route]
          /\ WatchesOK' /\ TrackersOK' /\ RoutesOK' /\ LimiterThere'
      <3> HIDE DEF e
      <3> QED BY <1>5, <2>1, <2>2, <2>3, OneRoute DEF UnloadRoute, disk
    <2>6. TypeOK'
      BY <1>5, <2>1, <2>5 DEF IInv, TypeOK, UnloadRoute, disk
    <2> QED BY <2>5, <2>6 DEF IInv
  <1> QED
    BY <1>1, <1>2, <1>3, <1>4, <1>5 DEF RouteNext

(* Adding, removing, restarting and the refresh. *)
LEMMA AddKeeps ==
  ASSUME IInv, NEW a \in Entries, AddEntry(a)
  PROVE  IInv'
  <1>1. TypeOK'
    BY DEF IInv, TypeOK, AddEntry, Entries
  <1>2. \A x \in listed : x \in listed'
    BY DEF AddEntry
  <1>3. WatchesOK' /\ TrackersOK' /\ RoutesOK'
    <2>1. UNCHANGED <<options, watch, tracker, route>>
      BY DEF AddEntry
    <2> QED BY <1>2, <2>1 DEF IInv, WatchesOK, WatchOK, TrackersOK, TrackerOK,
                              RoutesOK, RouteOK
  <1>4. LimiterThere'
    BY DEF IInv, LimiterThere, Live, AddEntry
  <1> QED BY <1>1, <1>3, <1>4 DEF IInv

(* What is removed is neither set up nor loaded. *)
LEMMA RemoveKeeps ==
  ASSUME IInv, NEW d \in Entries, RemoveEntry(d)
  PROVE  IInv'
  <1>1. /\ TypeOK /\ WatchesOK /\ TrackersOK /\ RoutesOK /\ LimiterThere
        /\ listed' = listed \ {d} /\ UNCHANGED <<ready, refreshing, domain>>
        /\ coord' \in [Coordinators -> Trips \cup {None}]
    BY KeptTyped DEF IInv, RemoveEntry
  <1>2. CASE d \in Watches
    <2> DEFINE was == watch[d]
               e == [was EXCEPT !.reload = FALSE, !.missed = FALSE,
                       !.state = IF @ = "failed_unload" THEN @
                                 ELSE "not_loaded"]
    <2>1. /\ options' = [options EXCEPT ![d] = DefaultCount]
          /\ watch' = [watch EXCEPT ![d].reload = FALSE, ![d].missed = FALSE,
                 ![d].state = IF @ = "failed_unload" THEN @ ELSE "not_loaded"]
          /\ UNCHANGED <<tracker, route>>
          /\ was.state \in {"not_loaded", "retry", "error", "failed_unload"}
      BY <1>2 DEF RemoveEntry, StateOf
    <2>2. was \in Watch /\ WatchOK(was, options[d], d \in listed)
      BY <1>1, <1>2 DEF TypeOK, WatchesOK
    <2>3. watch' = [watch EXCEPT ![d] = e]
      BY <1>1, <1>2, <2>1 DEF TypeOK
    <2>4. e \in Watch /\ e.state \in {"not_loaded", "failed_unload"}
      BY <2>2 DEF Watch, States
    <2>5. WatchOK(e, DefaultCount, FALSE)
      BY <2>1, <2>2, <2>4 DEF WatchOK, Watch, Up, Down
    <2> HIDE DEF e
    <2>6. /\ watch' \in [Watches -> Watch] /\ watch'[d] = e
          /\ options' \in [Watches -> Counts] /\ options'[d] = DefaultCount
          /\ \A u \in Watches \ {d} : /\ watch'[u] = watch[u]
                                      /\ options'[u] = options[u]
      <3>1. /\ options' \in [Watches -> Counts] /\ options'[d] = DefaultCount
            /\ \A u \in Watches \ {d} : options'[u] = options[u]
        BY <1>1, <1>2, <2>1, LifecycleAssumption DEF TypeOK
      <3>2. /\ watch' \in [Watches -> Watch] /\ watch'[d] = e
            /\ \A u \in Watches \ {d} : watch'[u] = watch[u]
        BY <1>1, <1>2, <2>3, <2>4 DEF TypeOK
      <3> QED BY <3>1, <3>2
    <2>7. TypeOK'
      BY <1>1, <2>1, <2>6 DEF TypeOK
    <2>8. WatchesOK'
      <3> SUFFICES ASSUME NEW u \in Watches
                   PROVE  WatchOK(watch'[u], options'[u], u \in listed')
        BY DEF WatchesOK
      <3>1. CASE u = d
        BY <1>1, <2>5, <2>6, <3>1 DEF WatchOK
      <3>2. CASE u # d
        <4>1. watch'[u] = watch[u] /\ options'[u] = options[u]
              /\ (u \in listed' <=> u \in listed)
          BY <1>1, <2>6, <3>2
        <4> QED BY <1>1, <4>1 DEF WatchesOK, WatchOK
      <3> QED BY <3>1, <3>2
    <2>9. TrackersOK' /\ RoutesOK'
      BY <1>1, <1>2, <2>1, LifecycleAssumption
      DEF TrackersOK, TrackerOK, RoutesOK, RouteOK
    <2>10. LimiterThere'
      BY <1>1, <2>1, <2>4, <2>6 DEF LimiterThere, Live
    <2> QED BY <2>7, <2>8, <2>9, <2>10 DEF IInv
  <1>3. CASE d \in Trackers
    <2>1. /\ tracker' = [tracker EXCEPT ![d] = Cold.tracker]
          /\ UNCHANGED <<options, watch, route>>
      BY <1>1, <1>3, LifecycleAssumption DEF RemoveEntry
    <2>2. Cold.tracker \in Tracker /\ Cold.tracker.state = "not_loaded"
          /\ Cold.tracker.seeking = None
      BY DEF Cold, Tracker, States
    <2> DEFINE e == Cold.tracker
    <2> HIDE DEF e
    <2>3. /\ tracker' \in [Trackers -> Tracker] /\ tracker'[d] = e
          /\ \A u \in Trackers \ {d} : tracker'[u] = tracker[u]
      BY <1>1, <1>3, <2>1, <2>2 DEF TypeOK, e
    <2>4. TypeOK'
      BY <1>1, <2>1, <2>3 DEF TypeOK
    <2>5. TrackersOK'
      BY <1>1, <2>2, <2>3 DEF TrackersOK, TrackerOK, e
    <2>6. WatchesOK' /\ RoutesOK'
      BY <1>1, <1>3, <2>1, LifecycleAssumption
      DEF WatchesOK, WatchOK, RoutesOK, RouteOK
    <2>7. LimiterThere'
      BY <1>1, <2>1, <2>2, <2>3 DEF LimiterThere, Live, e
    <2> QED BY <2>4, <2>5, <2>6, <2>7 DEF IInv
  <1>4. CASE d \in RouteTrackers
    <2>1. /\ route' = [route EXCEPT ![d] = Cold.route]
          /\ UNCHANGED <<options, watch, tracker>>
      BY <1>1, <1>4, LifecycleAssumption DEF RemoveEntry
    <2>2. /\ Cold.route \in Route /\ Cold.route.state = "not_loaded"
          /\ RouteOK(Cold.route, FALSE)
      BY DEF Cold, Route, RouteOK, States
    <2> DEFINE e == Cold.route
    <2> HIDE DEF e
    <2>3. /\ route' \in [RouteTrackers -> Route] /\ route'[d] = e
          /\ \A u \in RouteTrackers \ {d} : route'[u] = route[u]
      BY <1>1, <1>4, <2>1, <2>2 DEF TypeOK, e
    <2>4. TypeOK'
      BY <1>1, <2>1, <2>3 DEF TypeOK
    <2>5. RoutesOK'
      BY <1>1, <2>2, <2>3 DEF RoutesOK, RouteOK, e
    <2>6. WatchesOK' /\ TrackersOK'
      BY <1>1, <1>4, <2>1, LifecycleAssumption
      DEF WatchesOK, WatchOK, TrackersOK, TrackerOK
    <2>7. LimiterThere'
      BY <1>1, <2>1, <2>2, <2>3 DEF LimiterThere, Live, e
    <2> QED BY <2>4, <2>5, <2>6, <2>7 DEF IInv
  <1> QED BY <1>2, <1>3, <1>4 DEF Entries

(* Nothing is in memory at the start, nor after a restart. *)
LEMMA ColdOK ==
  ASSUME LifecycleAssumption,
         listed \in SUBSET Entries, options \in [Watches -> Counts],
         ready \in BOOLEAN, refreshing = FALSE, domain = "absent",
         coord = [c \in Coordinators |-> Cold.coord],
         watch = [w \in Watches |-> Cold.watch],
         tracker = [v \in Trackers |-> Cold.tracker],
         route = [r \in RouteTrackers |-> Cold.route]
  PROVE  IInv
  <1>1. /\ Cold.watch \in Watch /\ Cold.tracker \in Tracker
        /\ Cold.route \in Route /\ Cold.coord = None
    BY DEF Cold, Watch, Tracker, Route, States, Handles
  <1>2. TypeOK
    BY <1>1 DEF TypeOK
  <1>3. \A n, there : /\ WatchOK(Cold.watch, n, there)
                      /\ TrackerOK(Cold.tracker, there)
                      /\ RouteOK(Cold.route, there)
    BY DEF Cold, WatchOK, TrackerOK, RouteOK, Up, Down
  <1>4. WatchesOK /\ TrackersOK /\ RoutesOK
    BY <1>3 DEF WatchesOK, TrackersOK, RoutesOK
  <1>5. LimiterThere
    BY DEF LimiterThere, Live, Cold
  <1> QED BY <1>2, <1>4, <1>5 DEF IInv

LEMMA InitOK == Init => IInv
  BY LifecycleAssumption, ColdOK DEF Init

LEMMA RestartKeeps ==
  ASSUME IInv, Restart
  PROVE  IInv'
  <1>1. /\ Cold.watch \in Watch /\ Cold.tracker \in Tracker
        /\ Cold.route \in Route /\ Cold.coord = None
    BY DEF Cold, Watch, Tracker, Route, States, Handles
  <1>2. TypeOK'
    BY <1>1 DEF IInv, TypeOK, Restart, disk
  <1>3. \A n, there : /\ WatchOK(Cold.watch, n, there)
                      /\ TrackerOK(Cold.tracker, there)
                      /\ RouteOK(Cold.route, there)
    BY DEF Cold, WatchOK, TrackerOK, RouteOK, Up, Down
  <1>4. WatchesOK' /\ TrackersOK' /\ RoutesOK'
    BY <1>3 DEF WatchesOK, TrackersOK, RoutesOK, Restart
  <1>5. LimiterThere'
    BY DEF LimiterThere, Live, Cold, Restart
  <1> QED BY <1>2, <1>4, <1>5 DEF IInv

(* An inductive invariant. *)
LEMMA Inductive == IInv /\ [Next]_vars => IInv'
  <1> SUFFICES ASSUME IInv, [Next]_vars PROVE IInv'
    OBVIOUS
  <1>1. CASE Restart
    BY <1>1, RestartKeeps
  <1>2. CASE RefreshWorks \/ RefreshFails
    BY <1>2 DEF RefreshWorks, RefreshFails, IInv, TypeOK, WatchesOK,
                TrackersOK, RoutesOK, LimiterThere, Live, disk
  <1>3. CASE \E w \in Watches : WatchNext(w)
    BY <1>3, WatchActions
  <1>4. CASE \E v \in Trackers : TrackerNext(v)
    BY <1>4, TrackerActions
  <1>5. CASE \E r \in RouteTrackers : RouteNext(r)
    BY <1>5, RouteActions
  <1>6. CASE \E x \in Entries : AddEntry(x) \/ RemoveEntry(x)
    BY <1>6, AddKeeps, RemoveKeeps
  <1>7. CASE UNCHANGED vars
    BY <1>7 DEF vars, disk, IInv, TypeOK, WatchesOK, TrackersOK, RoutesOK,
                LimiterThere, Live
  <1> QED BY <1>1, <1>2, <1>3, <1>4, <1>5, <1>6, <1>7 DEF Next

LEMMA Always == Spec => []IInv
  BY InitOK, Inductive, PTL DEF Spec

(* The values of the variables have their types. *)
THEOREM TypeCorrect == Spec => []TypeOK
  <1>1. IInv => TypeOK
    BY DEF IInv
  <1> QED BY <1>1, Always, PTL

(* A watch that is set up has a timer and a listener whose handles         *)
(* async_unload_entry finds, one that is not has none of them.             *)
THEOREM HandlesAreHeld == Spec => []HandlesHeld
  <1>1. IInv => HandlesHeld
    BY DEF IInv, WatchesOK, WatchOK, HandlesHeld, Live, Up, Down
  <1> QED BY <1>1, Always, PTL

(* The sensors, the coordinator and the stored count agree with the option *)
(* of a loaded watch, unless a reload waits or nobody listened             *)
(* (_async_options_updated).                                               *)
THEOREM OptionsAreApplied == Spec => []OptionsApplied
  <1>1. IInv => OptionsApplied
    BY DEF IInv, WatchesOK, WatchOK, OptionsApplied
  <1> QED BY <1>1, Always, PTL

(* hass.data[DOMAIN] has the limiter while any entry polls. *)
THEOREM LimiterIsThere == Spec => []LimiterThere
  <1>1. IInv => LimiterThere
    BY DEF IInv
  <1> QED BY <1>1, Always, PTL

(* A trip that a route tracker ever listed was given one entity, whatever  *)
(* the maximum cuts off and whatever falls out of the list and comes back  *)
(* (_async_add_new_vehicles).                                              *)
THEOREM OneEntityForEachTrip == Spec => []OneEntityPerTrip
  <1>1. IInv => OneEntityPerTrip
    BY DEF IInv, RoutesOK, RouteOK, OneEntityPerTrip
  <1> QED BY <1>1, Always, PTL
===============================================================================
