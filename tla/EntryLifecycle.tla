--------------------------- MODULE EntryLifecycle ----------------------------
(***************************************************************************)
(* The config entries while Home Assistant runs: setup, retry, reload and  *)
(* unload of watches, vehicle trackers and route trackers (__init__.py),   *)
(* what they keep in hass.data, the timers and listeners they register,    *)
(* the options of a watch (coordinator.py, config_flow.py), its sensors    *)
(* (sensor.py), and the vehicles the trackers show (device_tracker.py).    *)
(*                                                                         *)
(* A step is the code between two awaits.  One operation on an entry runs  *)
(* at a time (ConfigEntry.setup_lock); those on different entries          *)
(* interleave.  Coordinators of watches are objects: a vehicle tracker     *)
(* keeps the one it was set up with.  Their identities are reused once     *)
(* nothing refers to them.                                                 *)
(***************************************************************************)
EXTENDS Integers, FiniteSets

CONSTANTS
  Watches,        \* entry_ids by entry_type; the watches are of one mode
  Trackers,
  RouteTrackers,
  Parent,         \* a vehicle tracker's CONF_PARENT_ENTRY_ID
  Coordinators,   \* coordinators of watches
  Counts,         \* values of the option departure_count
  DefaultCount,   \* DEFAULT_DEPARTURE_COUNT
  Trips,          \* trip_ids
  OnRoute,        \* those of the route a route tracker is for
  MaxVehicles,    \* CONF_MAX_VEHICLES
  None

Entries == Watches \cup Trackers \cup RouteTrackers

ASSUME LifecycleAssumption ==
  /\ Parent \in [Trackers -> Watches]
  /\ Watches \cap Trackers = {} /\ Watches \cap RouteTrackers = {}
  /\ Trackers \cap RouteTrackers = {}
  /\ Counts \subseteq Nat \ {0} /\ DefaultCount \in Counts
  /\ MaxVehicles \in Nat \ {0} /\ OnRoute \subseteq Trips
  /\ None \notin Coordinators \cup Counts \cup Trips
  /\ IsFiniteSet(Coordinators) /\ IsFiniteSet(Watches \cup Trackers)
  /\ Cardinality(Coordinators) > Cardinality(Watches \cup Trackers)

VARIABLES
  listed,      \* hass.config_entries
  options,     \* a watch's departure_count: its option, or the default
  ready,       \* is_mode_ready for the watches' mode
  refreshing,  \* an async_trigger_gtfs_refresh for it is running
  domain,      \* hass.data[DOMAIN]: absent, there, or with "rate_limiter"
  coord,       \* the coordinators of watches: the first trip of their board
  watch, tracker, route  \* what is in memory of the entries of each type

disk == <<listed, options, ready>>
vars == <<disk, refreshing, domain, coord, watch, tracker, route>>

States == {"not_loaded", "setup", "forward", "loaded", "unloading", "retry",
           "error", "failed_unload"}

(* The weekly timers that are live: the one the code has a handle of, and  *)
(* any whose handle was lost.                                              *)
Handles == SUBSET {"held", "lost"}

(* `stored` is the departure_count in hass.data[DOMAIN][entry_id], `making`*)
(* the coordinator of a setup that is under way, `runtime` runtime_data,   *)
(* `count` the departure_count in the _watch_config of either, `slots` the *)
(* number of departure sensors, `reload` an async_reload that waits,       *)
(* `listening` that the update listener is registered.  History: `missed`, *)
(* the options changed in the first refresh, when nobody listened.         *)
Watch == [state : States, timers : Handles, listening : BOOLEAN,
          stored : Counts \cup {None}, making : Coordinators \cup {None},
          runtime : Coordinators \cup {None}, slots : Counts \cup {0},
          count : Counts \cup {0}, reload : BOOLEAN, missed : BOOLEAN]
(* `parent` is _parent, `seeking` the trip a poll is after, `shows` the    *)
(* trip whose position is the coordinator's data, `success` its            *)
(* last_update_success: the entity is available.                           *)
Tracker == [state : States, parent : Coordinators \cup {None},
            seeking : Trips \cup {None}, shows : Trips \cup {None},
            success : BOOLEAN]
(* `known` is known_trip_ids, and `entities` how many entities each trip   *)
(* was given.  History: `seen`, the trips that were in the coordinator's   *)
(* data since the entry was set up.                                        *)
Route == [state : States, known : SUBSET Trips, entities : [Trips -> Nat],
          seen : SUBSET Trips]

Cold ==
  [watch |-> [state |-> "not_loaded", timers |-> {}, listening |-> FALSE,
              stored |-> None, making |-> None, runtime |-> None, slots |-> 0,
              count |-> 0, reload |-> FALSE, missed |-> FALSE],
   tracker |-> [state |-> "not_loaded", parent |-> None, seeking |-> None,
                shows |-> None, success |-> TRUE],
   route |-> [state |-> "not_loaded", known |-> {},
              entities |-> [t \in Trips |-> 0], seen |-> {}],
   coord |-> None]

Init ==
  /\ listed \in SUBSET Entries /\ ready \in BOOLEAN
  /\ options = [w \in Watches |-> DefaultCount]
  /\ refreshing = FALSE /\ domain = "absent"
  /\ coord = [c \in Coordinators |-> Cold.coord]
  /\ watch = [w \in Watches |-> Cold.watch]
  /\ tracker = [v \in Trackers |-> Cold.tracker]
  /\ route = [r \in RouteTrackers |-> Cold.route]

(* Home Assistant is restarted: only what is on disk stays. *)
Restart ==
  /\ refreshing' = FALSE /\ domain' = "absent"
  /\ coord' = [c \in Coordinators |-> Cold.coord]
  /\ watch' = [w \in Watches |-> Cold.watch]
  /\ tracker' = [v \in Trackers |-> Cold.tracker]
  /\ route' = [r \in RouteTrackers |-> Cold.route]
  /\ UNCHANGED disk

(* Coordinators something refers to; the others are forgotten. *)
Referred(ws, ts) ==
  {ws[w].making : w \in Watches} \cup {ws[w].runtime : w \in Watches}
  \cup {ts[v].parent : v \in Trackers}
Kept(co, ws, ts) ==
  [c \in Coordinators |-> IF c \in Referred(ws, ts) THEN co[c] ELSE Cold.coord]

(* PTVDataUpdateCoordinator(...) *)
Fresh == CHOOSE c \in Coordinators : c \notin Referred(watch, tracker)

(* hass.data.setdefault(DOMAIN, {}) *)
WithDomain == IF domain = "absent" THEN "there" ELSE domain
WithLimiter == "limiter"

------------------------------------------------------------------------------
(* Watches. *)

(* A setup that finds the mode not ready starts a refresh. *)
RefreshingForgotten == refreshing
Refreshing == refreshing \/ ~ ready

(* _async_setup_watch up to its first refresh: at start, to try again, at  *)
(* a reload, which also takes up an entry in error.                        *)
SetupWatch(w) ==
  /\ w \in listed /\ watch[w].state \in {"not_loaded", "retry", "error"}
  /\ domain' = WithDomain
  /\ refreshing' = Refreshing
  /\ watch' = [watch EXCEPT ![w].state = "setup", ![w].making = Fresh,
                            ![w].timers = @ \cup {"held"},
                            ![w].count = options[w],
                            ![w].reload = @ /\ watch[w].state = "not_loaded"]
  /\ UNCHANGED <<disk, coord, tracker, route>>

(* The first refresh raises: nobody has the timer's handle any more.       *)
(* ConfigEntryNotReady is tried again, ConfigEntryAuthFailed is not.       *)
FirstRefreshFails(w) ==
  /\ watch[w].state = "setup"
  /\ \E s \in {"retry", "error"} :
       watch' = [watch EXCEPT ![w].state = s, ![w].making = None,
                              ![w].count = 0, ![w].missed = FALSE,
                              ![w].timers = (@ \ {"held"}) \cup {"lost"}]
  /\ domain' \in {domain, WithLimiter}
  /\ coord' = Kept(coord, watch', tracker)
  /\ UNCHANGED <<disk, refreshing, tracker, route>>

(* It succeeds, which takes the mode to be ready: runtime_data, listener   *)
(* and hass.data follow without an await.                                  *)
FirstRefreshWorks(w) ==
  /\ watch[w].state = "setup" /\ ready
  /\ domain' = WithLimiter
  /\ watch' = [watch EXCEPT ![w].state = "forward", ![w].making = None,
                            ![w].runtime = watch[w].making,
                            ![w].listening = TRUE,
                            ![w].stored = options[w]]
  /\ \E t \in Trips \cup {None} :
       coord' = [coord EXCEPT ![watch[w].making] = t]
  /\ UNCHANGED <<disk, refreshing, tracker, route>>

(* The sensor platform is set up, one sensor per departure. *)
SlotsAndOne(w) == options[w] + 1
Slots(w) == options[w]

ForwardWatch(w) ==
  /\ watch[w].state = "forward"
  /\ watch' = [watch EXCEPT ![w].state = "loaded", ![w].slots = Slots(w)]
  /\ UNCHANGED <<disk, refreshing, domain, coord, tracker, route>>

PollWatch(w) ==
  /\ watch[w].state = "loaded"
  /\ \E t \in Trips \cup {None} :
       coord' = [coord EXCEPT ![watch[w].runtime] = t]
  /\ UNCHANGED <<disk, refreshing, domain, watch, tracker, route>>

(* _async_options_updated compares the count with the stored one, to       *)
(* reload or to update the coordinator's configuration.                    *)
OptionsUpdatedLive(e, n) == [e EXCEPT !.missed = FALSE, !.count = n]
OptionsUpdated(e, n) ==
  IF n # e.stored THEN [e EXCEPT !.reload = TRUE]
  ELSE [e EXCEPT !.missed = FALSE, !.count = n]

Unheard(e) == [e EXCEPT !.missed = @ \/ e.state = "setup"]

(* The options flow stores what the user chose, and Home Assistant calls   *)
(* the listener if there is one.                                           *)
ChangeOptions(w) ==
  /\ w \in listed
  /\ \E n \in Counts :
       /\ options' = [options EXCEPT ![w] = n]
       /\ watch' = [watch EXCEPT ![w] =
            IF @.listening THEN OptionsUpdated(@, n)
            ELSE Unheard(@)]
  /\ UNCHANGED <<listed, ready, refreshing, domain, coord, tracker, route>>

(* async_unload_entry, for a reload that waits or because the user wants   *)
(* it; the platforms come first, and may fail to unload.                   *)
StartUnload(w) ==
  /\ watch[w].state = "loaded"
  /\ watch' = [watch EXCEPT ![w].state = "unloading", ![w].reload = FALSE]
  /\ UNCHANGED <<disk, refreshing, domain, coord, tracker, route>>

(* The last lines drop hass.data[DOMAIN] when no entry is listed; an entry *)
(* that is being removed still is.                                         *)
DomainAfterUnloadOfWatches ==
  IF \E w \in Watches : watch[w].state = "loaded" THEN domain ELSE "absent"
DomainAfterUnload == IF listed = {} THEN "absent" ELSE domain

(* The cancel_* handles in hass.data[DOMAIN][entry_id] are called. *)
CancelledRefresh(e) == [e EXCEPT !.timers = @ \ {"held"}]
Cancelled(e) == [e EXCEPT !.timers = @ \ {"held"}, !.listening = FALSE]

Unload(w) ==
  /\ watch[w].state = "unloading"
  /\ watch' = [watch EXCEPT ![w] =
       [Cancelled(@) EXCEPT !.state = "not_loaded", !.slots = 0, !.count = 0,
                            !.stored = None, !.runtime = None,
                            !.missed = FALSE]]
  /\ domain' = DomainAfterUnload
  /\ coord' = Kept(coord, watch', tracker)
  /\ UNCHANGED <<disk, refreshing, tracker, route>>

UnloadFails(w) ==
  /\ watch[w].state = "unloading"
  /\ watch' = [watch EXCEPT ![w].state = "failed_unload"]
  /\ domain' = DomainAfterUnload
  /\ UNCHANGED <<disk, refreshing, coord, tracker, route>>

------------------------------------------------------------------------------
(* Vehicle trackers. *)

(* _async_setup_vehicle_tracker up to its first refresh: without the       *)
(* parent entry it returns False, and without the parent's runtime_data it *)
(* raises an AttributeError.  Home Assistant repeats neither; the user may *)
(* reload the entry.                                                       *)
SetupTracker(v) ==
  /\ v \in listed /\ tracker[v].state \in {"not_loaded", "retry", "error"}
  /\ domain' = WithDomain
  /\ LET parent == watch[Parent[v]].runtime IN
     tracker' =
       [tracker EXCEPT
          ![v].state = IF Parent[v] \in listed /\ parent # None
                       THEN "setup" ELSE "error",
          ![v].parent = parent]
  /\ UNCHANGED <<disk, refreshing, coord, watch, route>>

(* Its first refresh: the parent is gone by now, or the fetch fails. *)
TrackerFails(v) ==
  /\ tracker[v].state = "setup"
  /\ \E s \in {"retry", "error"} :
       tracker' = [tracker EXCEPT ![v] = [Cold.tracker EXCEPT !.state = s]]
  /\ domain' = WithLimiter
  /\ coord' = Kept(coord, watch, tracker')
  /\ UNCHANGED <<disk, refreshing, watch, route>>

NextTripOnce(v) == IF tracker[v].shows # None THEN tracker[v].shows
                   ELSE coord[tracker[v].parent]
NextTrip(v) == coord[tracker[v].parent]

(* A poll reads the first trip of the parent's board, and then waits for   *)
(* the feed, which may lack the trip.  The first poll is the first refresh.*)
SeekVehicle(v) ==
  /\ tracker[v].seeking = None
  /\ \/ tracker[v].state = "loaded"
     \/ tracker[v].state = "setup" /\ Parent[v] \in listed
  /\ domain' = WithLimiter
  /\ LET t == NextTrip(v) IN
     tracker' = IF t = None
                THEN [tracker EXCEPT ![v].state = "loaded", ![v].shows = None,
                                     ![v].success = TRUE]
                ELSE [tracker EXCEPT ![v].seeking = t]
  /\ UNCHANGED <<disk, refreshing, coord, watch, route>>

FindVehicle(v) ==
  /\ tracker[v].seeking # None
  /\ \E t \in {tracker[v].seeking, None} :
       tracker' = [tracker EXCEPT ![v].state = "loaded", ![v].shows = t,
                                  ![v].seeking = None, ![v].success = TRUE]
  /\ UNCHANGED <<disk, refreshing, domain, coord, watch, route>>

(* UpdateFailed: the data stays as it is, the entity is not available. *)
FindFails(v) ==
  /\ tracker[v].state = "loaded" /\ tracker[v].seeking # None
  /\ tracker' = [tracker EXCEPT ![v].seeking = None, ![v].success = FALSE]
  /\ UNCHANGED <<disk, refreshing, domain, coord, watch, route>>

UnloadTracker(v) ==
  /\ tracker[v].state = "loaded"
  /\ tracker' = [tracker EXCEPT ![v] = Cold.tracker]
  /\ domain' = DomainAfterUnload
  /\ coord' = Kept(coord, watch, tracker')
  /\ UNCHANGED <<disk, refreshing, watch, route>>

------------------------------------------------------------------------------
(* Route trackers. *)

SetupRoute(r) ==
  /\ r \in listed /\ route[r].state \in {"not_loaded", "retry", "error"}
  /\ domain' = WithDomain
  /\ route' = [route EXCEPT ![r].state = "setup"]
  /\ UNCHANGED <<disk, refreshing, coord, watch, tracker>>

(* _async_update_data: of the vehicles the feed has on the route, near     *)
(* enough, the first so many, in an order that changes as they move.  (One *)
(* that fails keeps the data as it is.)                                    *)
Positions == {P \in SUBSET OnRoute : Cardinality(P) <= MaxVehicles}

(* _async_add_new_vehicles: async_add_entities gets the trips not known.   *)
WithNew(e, positions) ==
  [t \in Trips |-> IF t \in positions \ e.known THEN e.entities[t] + 1
                                                ELSE e.entities[t]]

AddedListed(e, positions) ==
  [e EXCEPT !.known = positions,
            !.entities = WithNew(e, positions), !.seen = @ \cup positions]
Added(e, positions) ==
  [e EXCEPT !.known = @ \cup positions,
            !.entities = WithNew(e, positions), !.seen = @ \cup positions]

(* The first refresh, the platform's setup and its first look. *)
RouteWorks(r) ==
  /\ route[r].state = "setup"
  /\ domain' = WithLimiter
  /\ \E P \in Positions :
       route' = [route EXCEPT ![r] = Added([@ EXCEPT !.state = "loaded"], P)]
  /\ UNCHANGED <<disk, refreshing, coord, watch, tracker>>

RouteFails(r) ==
  /\ route[r].state = "setup"
  /\ domain' = WithLimiter
  /\ \E s \in {"retry", "error"} : route' = [route EXCEPT ![r].state = s]
  /\ UNCHANGED <<disk, refreshing, coord, watch, tracker>>

PollRoute(r) ==
  /\ route[r].state = "loaded"
  /\ \E P \in Positions : route' = [route EXCEPT ![r] = Added(@, P)]
  /\ UNCHANGED <<disk, refreshing, domain, coord, watch, tracker>>

(* known_trip_ids is local to the platform's setup. *)
UnloadedRoute(e) == Cold.route

UnloadRoute(r) ==
  /\ route[r].state = "loaded"
  /\ route' = [route EXCEPT ![r] = UnloadedRoute(@)]
  /\ domain' = DomainAfterUnload
  /\ UNCHANGED <<disk, refreshing, coord, watch, tracker>>

------------------------------------------------------------------------------
(* async_trigger_gtfs_refresh in the background (GtfsRefresh has it). *)

RefreshWorks ==
  /\ refreshing /\ refreshing' = FALSE /\ ready' = TRUE
  /\ UNCHANGED <<listed, options, domain, coord, watch, tracker, route>>

RefreshFails ==
  /\ refreshing /\ refreshing' = FALSE
  /\ UNCHANGED <<disk, domain, coord, watch, tracker, route>>

(* The user adds an entry and removes one.  Home Assistant unloads a       *)
(* loaded entry first, and waits for what else runs on it.  The identity   *)
(* of a removed entry is not given again: the model gives it to the next   *)
(* entry once nothing in memory has it.                                    *)
StateOf(e) == IF e \in Watches THEN watch[e].state
              ELSE IF e \in Trackers THEN tracker[e].state ELSE route[e].state

RemoveEntry(e) ==
  /\ e \in listed
  /\ StateOf(e) \in {"not_loaded", "retry", "error", "failed_unload"}
  /\ listed' = listed \ {e}
  /\ IF e \in Watches
     THEN /\ options' = [options EXCEPT ![e] = DefaultCount]
          /\ watch' = [watch EXCEPT ![e].reload = FALSE, ![e].missed = FALSE,
                 ![e].state = IF @ = "failed_unload" THEN @ ELSE "not_loaded"]
          /\ UNCHANGED <<tracker, route>>
     ELSE IF e \in Trackers
     THEN /\ tracker' = [tracker EXCEPT ![e] = Cold.tracker]
          /\ UNCHANGED <<options, watch, route>>
     ELSE /\ route' = [route EXCEPT ![e] = Cold.route]
          /\ UNCHANGED <<options, watch, tracker>>
  /\ UNCHANGED <<ready, refreshing, domain>>
  /\ coord' = Kept(coord, watch', tracker')

AddEntry(e) ==
  /\ e \notin listed /\ StateOf(e) = "not_loaded"
  /\ e \in Watches => watch[e].timers = {}
  /\ listed' = listed \cup {e}
  /\ UNCHANGED <<options, ready, refreshing, domain, coord, watch, tracker,
                 route>>

------------------------------------------------------------------------------
WatchNext(w) ==
  \/ SetupWatch(w) \/ FirstRefreshFails(w) \/ FirstRefreshWorks(w)
  \/ ForwardWatch(w) \/ PollWatch(w) \/ ChangeOptions(w)
  \/ StartUnload(w) \/ Unload(w) \/ UnloadFails(w)

TrackerNext(v) ==
  \/ SetupTracker(v) \/ TrackerFails(v)
  \/ SeekVehicle(v) \/ FindVehicle(v) \/ FindFails(v)
  \/ UnloadTracker(v)

RouteNext(r) ==
  \/ SetupRoute(r) \/ RouteWorks(r) \/ RouteFails(r) \/ PollRoute(r)
  \/ UnloadRoute(r)

Next ==
  \/ Restart \/ RefreshWorks \/ RefreshFails
  \/ \E w \in Watches : WatchNext(w)
  \/ \E v \in Trackers : TrackerNext(v)
  \/ \E r \in RouteTrackers : RouteNext(r)
  \/ \E e \in Entries : AddEntry(e) \/ RemoveEntry(e)

(* Home Assistant sets up what is listed, repeats a setup that was not     *)
(* ready, and polls.  A download that is repeated again and again works at *)
(* some time, and so does a first refresh.                                 *)
Fairness ==
  /\ SF_vars(RefreshWorks)
  /\ \A w \in Watches :
       /\ WF_vars(SetupWatch(w) /\ watch[w].state # "error")
       /\ SF_vars(FirstRefreshWorks(w)) /\ WF_vars(FirstRefreshFails(w))
  /\ \A v \in Trackers : WF_vars(SeekVehicle(v)) /\ WF_vars(FindVehicle(v))

Spec == Init /\ [][Next]_vars
FairSpec == Spec /\ Fairness

------------------------------------------------------------------------------
(* The values of the variables have their types (the __init__ attributes   *)
(* of the coordinators, hass.data).                                        *)
TypeOK ==
  /\ listed \in SUBSET Entries
  /\ options \in [Watches -> Counts]
  /\ ready \in BOOLEAN /\ refreshing \in BOOLEAN
  /\ domain \in {"absent", "there", "limiter"}
  /\ coord \in [Coordinators -> Trips \cup {None}]
  /\ watch \in [Watches -> Watch]
  /\ tracker \in [Trackers -> Tracker]
  /\ route \in [RouteTrackers -> Route]

Live(w) == watch[w].state \in {"forward", "loaded", "unloading"}

(* A watch that is set up has exactly one weekly timer and one listener    *)
(* whose handles async_unload_entry can find, however often it was         *)
(* reloaded, retried, removed or changed; a watch that is not has none of  *)
(* them.  Timers without a handle, which failed first refreshes leave, are *)
(* not of these.                                                           *)
HandlesHeld ==
  \A w \in Watches :
    LET e == watch[w] IN
    /\ Live(w) => /\ "held" \in e.timers /\ e.listening
                  /\ e.stored # None /\ e.runtime # None
    /\ e.state = "setup" => "held" \in e.timers /\ ~ e.listening
    /\ e.state \in {"not_loaded", "retry", "error"} =>
         "held" \notin e.timers /\ ~ e.listening

(* What the user chose in the options flow reaches the sensors, the        *)
(* coordinator and the count a later change is compared with, by a reload  *)
(* or live, unless the change came when nobody listened                    *)
(* (_async_options_updated, sensor.py's slots).                            *)
OptionsApplied ==
  \A w \in Watches :
    LET e == watch[w] IN
    e.state = "loaded" /\ ~ e.reload /\ ~ e.missed =>
      /\ e.slots = options[w] /\ e.stored = options[w]
      /\ e.count = options[w]

(* An entry that polls finds the rate limiter in hass.data[DOMAIN],        *)
(* whatever other entries were unloaded or removed meanwhile.              *)
LimiterThere ==
  (\/ \E w \in Watches : Live(w)
   \/ \E v \in Trackers : tracker[v].state = "loaded" \/ tracker[v].seeking # None
   \/ \E r \in RouteTrackers : route[r].state = "loaded") => domain = "limiter"

(* Each trip a route tracker ever listed was given exactly one entity,     *)
(* however often it falls out of the list, which is cut to the maximum,    *)
(* and comes back, and anew after a reload (_async_add_new_vehicles).  So  *)
(* there may be more entities than vehicles are listed: device_tracker.py  *)
(* has no fixed slots, as its lines 11-12 say.                             *)
OneEntityPerTrip ==
  \A r \in RouteTrackers :
    route[r].state = "loaded" =>
      \A t \in Trips :
        route[r].entities[t] = IF t \in route[r].seen THEN 1 ELSE 0

(* A watch that waits for the timetable does not wait for ever: it is set  *)
(* up, unless the key is rejected or the user removes it.                  *)
RetryEnds ==
  \A w \in Watches :
    watch[w].state = "retry" ~>
      w \notin listed \/ Live(w) \/ watch[w].state = "error"

(* A tracker that polls the coordinator its watch has comes to follow the  *)
(* first trip of the board, shows none, or is not available; what it shows *)
(* as current is not a trip the board no longer starts with                *)
(* (VehicleTrackerCoordinator).                                            *)
Follows(v, t) ==
  /\ tracker[v].state = "loaded"
  /\ tracker[v].parent = watch[Parent[v]].runtime
  /\ coord[tracker[v].parent] = t
TrackerCatchesUp ==
  \A v \in Trackers : \A t \in Trips :
    <>[]Follows(v, t) =>
      <>[](tracker[v].success => tracker[v].shows \in {t, None})

==============================================================================
