----------------------------- MODULE ConfigFlow ------------------------------
(***************************************************************************)
(* PTVConfigFlow (config_flow.py): the dialog that creates config entries, *)
(* one flow after the other, while other refreshes replace the database    *)
(* it searches and the user removes entries.                               *)
(*                                                                         *)
(* A step of the model is one async_step_* handler with the handlers it    *)
(* calls, up to the form that comes next: `step` is the step_id of that    *)
(* form and `offer` what its selector offers, the only values the form     *)
(* accepts.  A handler that shows its own form again with an error changes *)
(* nothing and is no action.  Names, labels and forms are left out.        *)
(***************************************************************************)
EXTENDS Integers, FiniteSets

CONSTANTS
  Modes,       \* transport modes
  Types,       \* GTFS route types
  RouteTypes,  \* const.ROUTE_TYPE_MAP: the types a mode searches
  Stops,       \* platform-level stops
  Siblings,    \* the stops of a stop's station, itself included
  Code,        \* a stop's platform_code, or None
  Ahead,       \* of a stop, those of the same name with a lower stop_id
  Routes,      \* route_ids
  MaxRelease,  \* bound: how many releases of the schedule appear
  Legs,        \* per release: that some trip calls at two stops, in order
  Ids,         \* bound: entry_ids, and with them the entries at a time
  None

Releases == 1 .. MaxRelease

(* A leg comes with the bundles of a mode, which need not be the only mode *)
(* that finds it: route types belong to several modes.                     *)
Leg == [bundle : Modes, type : Types, route : Routes, from : Stops, to : Stops]

ASSUME FlowAssumption ==
  /\ RouteTypes \in [Modes -> SUBSET Types]
  /\ Siblings \in [Stops -> SUBSET Stops]
  /\ \A s \in Stops : s \in Siblings[s]
  /\ Ahead \in [Stops -> SUBSET Stops]
  /\ MaxRelease \in Nat \ {0}
  /\ Legs \in [Releases -> SUBSET Leg]
  /\ None \notin Modes \cup Stops \cup Routes \cup Ids

Steps == {"closed", "user", "entry_type", "mode", "downloading", "importing",
          "stop", "route", "platform", "dest", "journey", "journey_dest",
          "confirm", "vehicle_tracker", "vehicle_tracker_name",
          "route_tracker_mode", "route_tracker_route", "route_tracker_filter",
          "route_tracker_stop", "route_tracker_proximity",
          "route_tracker_confirm"}

VARIABLES
  step,     \* the form the user sees
  config,   \* _config
  offer,    \* the options of that form's selector
  post,     \* _post_import_step
  zipTask,  \* _zip_wait_task: the refresh this flow started
  dbTask,   \* _db_wait_task: the poll for is_mode_ready
  orphans,  \* modes whose refresh outlives the flow that started it
  db,       \* the release in gtfs.db and the modes whose bundles it has
  entries,  \* the config entries
  seen      \* history: modes whose bundles were ever imported

flow == <<step, config, offer, post, zipTask, dbTask>>
vars == <<step, config, offer, post, zipTask, dbTask,
          orphans, db, entries, seen>>

Blank == [key |-> FALSE, mode |-> None, stop |-> None, line |-> None,
          platform |-> None, kind |-> None, dest |-> None, transfer |-> None,
          parent |-> None, route |-> None, ref |-> None, coords |-> FALSE]

Gone == [type |-> "gone", conf |-> Blank]

Init ==
  /\ step = "closed"
  /\ config = Blank
  /\ offer = {}
  /\ post = "stop"
  /\ zipTask = "none"
  /\ dbTask = "none"
  /\ orphans = {}
  /\ db = [rel |-> 1, ready |-> {}]
  /\ entries = [i \in Ids |-> Gone]
  /\ seen = {}

------------------------------------------------------------------------------
(* What the queries of gtfs/repository.py and path_finder.py answer.       *)

Rows(types) ==
  {l \in Legs[db.rel] : l.bundle \in db.ready /\ l.type \in types}

CallsAt(l, stops) == l.from \in stops \/ l.to \in stops

Serves(m, s) == \E l \in Rows(RouteTypes[m]) : CallsAt(l, {s})

(* search_stops_by_distance: of the stops around, one for each name. *)
Near(m, around) ==
  {s \in around : Serves(m, s) /\ \A t \in Ahead[s] \cap around : ~Serves(m, t)}

(* search_stops_by_name: any of these may match. *)
Named(m) == Near(m, Stops)

(* get_routes_for_stop. *)
LinesAt(s, m) ==
  {l.route : l \in {k \in Rows(RouteTypes[m]) : CallsAt(k, Siblings[s])}}

(* The stops table, taken to have the stops that some trip calls at. *)
Known(s) == \E l \in Rows(Types) : CallsAt(l, {s})

NullPlatformsAt(s) ==
  {Code[p] : p \in {q \in Siblings[s] : Known(s) /\ Known(q)}}

CodesInUse(s) == {Code[p] : p \in {q \in Stops : Known(q)}} \ {None}

(* get_platforms_for_stop. *)
PlatformsAt(s) ==
  {Code[p] : p \in {q \in Siblings[s] : Known(s) /\ Known(q)}} \ {None}

(* validate_route. *)
Validate(from, to, m) ==
  \E l \in Rows(RouteTypes[m]) : l.from = from /\ l.to = to

AllRoutes(m) == {l.route : l \in Rows(RouteTypes[m])}

ModeReady(m) == m \in db.ready

OfType(types) == {i \in Ids : entries[i].type \in types}
Watches == OfType({"watch"})
Alive == OfType({"watch", "vehicle_tracker", "route_tracker"})

(* Ids are never given twice, but one nobody refers to is as good as new.  *)
Free(i) ==
  /\ i \notin Alive
  /\ \A j \in Alive : entries[j].conf.parent # i

------------------------------------------------------------------------------
(* Forms, and handlers that may show another one's form instead of theirs. *)

Show(s, options, conf) ==
  /\ step' = s
  /\ offer' = options
  /\ config' = conf

World == <<orphans, db, entries, seen>>
Waits == <<post, zipTask, dbTask>>

(* The flow is over and its object gone. *)
Over ==
  /\ Show("closed", {}, Blank)
  /\ post' = "stop"
  /\ zipTask' = "none"
  /\ dbTask' = "none"

GoPlatform(conf) ==
  LET codes == PlatformsAt(conf.stop)
  IN IF Cardinality(codes) <= 1
     THEN Show("dest", {}, [conf EXCEPT !.platform = None])
     ELSE Show("platform", codes, conf)

GoRoute(conf) ==
  LET lines == LinesAt(conf.stop, conf.mode)
  IN IF Cardinality(lines) <= 1
     THEN GoPlatform([conf EXCEPT !.line = None])
     ELSE Show("route", lines, conf)

(* async_step_route_tracker_route, called without input. *)
GoRouteTrackerRoute(conf) ==
  IF AllRoutes(conf.mode) = {}
  THEN Over
  ELSE /\ Show("route_tracker_route", AllRoutes(conf.mode), conf)
       /\ UNCHANGED Waits

(* getattr(self, f"async_step_{self._post_import_step}")(). *)
GoPost ==
  \/ /\ post = "stop"
     /\ Show("stop", {}, config)
     /\ UNCHANGED Waits
  \/ /\ post = "route_tracker_route"
     /\ GoRouteTrackerRoute(config)

------------------------------------------------------------------------------
(* Up to the choice of what to create.                                     *)

(* _get_existing_api_key finds one: vehicle trackers have none. *)
ExistingKey == \E i \in Alive : entries[i].conf.key

SkipsKeyIfEntry == Alive # {}
SkipsKey == ExistingKey

Open ==
  /\ step = "closed"
  /\ Alive # Ids
  /\ IF SkipsKey
     THEN Show("entry_type", {}, [Blank EXCEPT !.key = ExistingKey])
     ELSE Show("user", {}, Blank)
  /\ UNCHANGED <<Waits, World>>

(* The key is not blank and test_connection takes it. *)
SubmitKey ==
  /\ step = "user"
  /\ Show("entry_type", {}, [config EXCEPT !.key = TRUE])
  /\ UNCHANGED <<Waits, World>>

AnyParent == Alive
(* The watches a tracker can be linked to. *)
Parents == Watches

ChooseEntryType ==
  /\ step = "entry_type"
  /\ \/ Show("mode", {}, config) /\ UNCHANGED Waits
     \/ Show("route_tracker_mode", {}, config) /\ UNCHANGED Waits
     \/ /\ Parents # {}
        /\ Show("vehicle_tracker", Parents, config) /\ UNCHANGED Waits
     \/ Parents = {} /\ Over
  /\ UNCHANGED World

------------------------------------------------------------------------------
(* Waiting for the mode's bundles.                                         *)

(* async_step_downloading without a task: go on, or start a refresh. *)
GoDownloading(m, next) ==
  /\ post' = next
  /\ dbTask' = dbTask
  /\ IF ModeReady(m)
     THEN Show(next, {}, [config EXCEPT !.mode = m]) /\ zipTask' = zipTask
     ELSE /\ Show("downloading", {}, [config EXCEPT !.mode = m])
          /\ zipTask' = "running"

ChooseMode(m) ==
  /\ step = "mode"
  /\ GoDownloading(m, "stop")
  /\ UNCHANGED World

ChooseTrackerMode(m) ==
  /\ step = "route_tracker_mode"
  /\ IF ModeReady(m)
     THEN GoRouteTrackerRoute([config EXCEPT !.mode = m])
     ELSE GoDownloading(m, "route_tracker_route")
  /\ UNCHANGED World

DownloadingThenPost ==
  /\ step = "downloading"
  /\ zipTask = "done"
  /\ GoPost
  /\ UNCHANGED World

(* The refresh has ended, well or not: on to async_step_importing, which   *)
(* goes on at once or starts to poll.                                      *)
DownloadingDone ==
  /\ step = "downloading"
  /\ zipTask = "done"
  /\ IF ModeReady(config.mode)
     THEN GoPost
     ELSE /\ Show("importing", {}, config)
          /\ dbTask' = "polling"
          /\ UNCHANGED <<post, zipTask>>
  /\ UNCHANGED World

PollOnce ==
  /\ dbTask = "polling"
  /\ zipTask = "running"
  /\ ModeReady(config.mode)
  /\ dbTask' = "done"
  /\ UNCHANGED <<step, config, offer, post, zipTask, World>>

(* _poll_until_mode_ready returns. *)
PollSees ==
  /\ dbTask = "polling"
  /\ ModeReady(config.mode)
  /\ dbTask' = "done"
  /\ UNCHANGED <<step, config, offer, post, zipTask, World>>

ImportingDone ==
  /\ step = "importing"
  /\ dbTask = "done"
  /\ GoPost
  /\ UNCHANGED World

------------------------------------------------------------------------------
(* A departure watch: stop, line, platform, destination.                   *)

(* A search on a form, by name or, for the first stop, by distance.        *)
Search ==
  /\ step \in {"stop", "dest", "journey", "journey_dest"}
  /\ \E found \in SUBSET Named(config.mode) :
       found # {} /\ Show(step, found, config)
  /\ UNCHANGED <<Waits, World>>

SearchNearHome ==
  /\ step = "stop"
  /\ \E around \in SUBSET Stops :
       /\ Near(config.mode, around) # {}
       /\ Show(step, Near(config.mode, around), config)
  /\ UNCHANGED <<Waits, World>>

(* A search that finds nothing, and a change of the stop_method. *)
NoResults ==
  /\ step \in {"stop", "dest", "journey", "journey_dest"}
  /\ offer # {}
  /\ Show(step, {}, config)
  /\ UNCHANGED <<Waits, World>>

SelectStop(s) ==
  /\ step = "stop"
  /\ s \in offer
  /\ GoRoute([config EXCEPT !.stop = s])
  /\ UNCHANGED <<Waits, World>>

SelectLine(r) ==
  /\ step = "route"
  /\ r \in offer \cup {None}
  /\ GoPlatform([config EXCEPT !.line = r])
  /\ UNCHANGED <<Waits, World>>

SelectPlatform(p) ==
  /\ step = "platform"
  /\ p \in offer \cup {None}
  /\ Show("dest", {}, [config EXCEPT !.platform = p])
  /\ UNCHANGED <<Waits, World>>

AllDestinations ==
  /\ step = "dest"
  /\ Show("confirm", {}, [config EXCEPT !.kind = "all", !.dest = None])
  /\ UNCHANGED <<Waits, World>>

ChooseJourney ==
  /\ step = "dest"
  /\ Show("journey", {}, config)
  /\ UNCHANGED <<Waits, World>>

(* A stop without a direct service stays on its form, with an error.       *)
SelectDest(s) ==
  /\ step = "dest"
  /\ s \in offer
  /\ Validate(config.stop, s, config.mode)
  /\ Show("confirm", {}, [config EXCEPT !.kind = "specific", !.dest = s])
  /\ UNCHANGED <<Waits, World>>

SelectTransfer(s) ==
  /\ step = "journey"
  /\ s \in offer
  /\ Validate(config.stop, s, config.mode)
  /\ Show("journey_dest", {}, [config EXCEPT !.transfer = s])
  /\ UNCHANGED <<Waits, World>>

FinalFromOrigin(s) == Validate(config.stop, s, config.mode)
FinalService(s) == Validate(config.transfer, s, config.mode)

SelectFinal(s) ==
  /\ step = "journey_dest"
  /\ s \in offer
  /\ FinalService(s)
  /\ Show("confirm", {}, [config EXCEPT !.kind = "journey", !.dest = s])
  /\ UNCHANGED <<Waits, World>>

(* async_create_entry: a new entry, and the end of the flow. *)
Create(type, conf) ==
  /\ \E i \in Ids :
       /\ Free(i) /\ i # conf.parent
       /\ entries' = [entries EXCEPT ![i] = [type |-> type, conf |-> conf]]
  /\ Over
  /\ UNCHANGED <<orphans, db, seen>>

Confirm == step = "confirm" /\ Create("watch", config)

------------------------------------------------------------------------------
(* A vehicle tracker: its watch, its name.                                 *)

SelectParent(i) ==
  /\ step = "vehicle_tracker"
  /\ i \in offer
  /\ IF Parents = {}
     THEN Over
     ELSE /\ Show("vehicle_tracker_name", {}, [config EXCEPT !.parent = i])
          /\ UNCHANGED Waits
  /\ UNCHANGED World

(* The watch may be gone by now: the tracker is created all the same.      *)
VehicleTrackerName ==
  /\ step = "vehicle_tracker_name"
  /\ Create("vehicle_tracker",
            [Blank EXCEPT !.parent = config.parent,
                          !.mode = entries[config.parent].conf.mode])

------------------------------------------------------------------------------
(* A route tracker: its route, and perhaps a stop to be near to.           *)

SelectRoute(r) ==
  /\ step = "route_tracker_route"
  /\ r \in offer
  /\ Show("route_tracker_filter", {}, [config EXCEPT !.route = r])
  /\ UNCHANGED <<Waits, World>>

(* The stop form offers what is near the home zone: all or nothing here,   *)
(* and nothing can be submitted of an empty offer.                         *)
ChooseFilter ==
  /\ step = "route_tracker_filter"
  /\ \/ Show("route_tracker_confirm", {}, config)
     \/ \E around \in {{}, Stops} :
          Show("route_tracker_stop", Near(config.mode, around), config)
  /\ UNCHANGED <<Waits, World>>

(* Its coordinates are stored if get_stop_lat_lon still finds them. *)
SelectReference(s) ==
  /\ step = "route_tracker_stop"
  /\ s \in offer
  /\ Show("route_tracker_proximity", {},
          [config EXCEPT !.ref = s, !.coords = Known(s)])
  /\ UNCHANGED <<Waits, World>>

SetProximity ==
  /\ step = "route_tracker_proximity"
  /\ Show("route_tracker_confirm", {}, config)
  /\ UNCHANGED <<Waits, World>>

RouteTrackerConfirm ==
  step = "route_tracker_confirm" /\ Create("route_tracker", config)

------------------------------------------------------------------------------
(* What happens around a flow.                                             *)

(* The user closes the dialog.  Home Assistant cancels the task behind a   *)
(* progress step; an import that is in its thread goes on.                 *)
Close ==
  /\ step # "closed"
  /\ Over
  /\ \/ orphans' = orphans
     \/ zipTask = "running" /\ orphans' = orphans \cup {config.mode}
  /\ UNCHANGED <<db, entries, seen>>

RemoveEntry(i) ==
  /\ i \in Alive
  /\ entries' = [entries EXCEPT ![i] = Gone]
  /\ UNCHANGED <<flow, orphans, db, seen>>

(* A refresh for the modes ms: what is missing is added to the database,   *)
(* or a new release replaces it, with these modes alone.                   *)
Imports(ms) ==
  /\ \/ db' = [db EXCEPT !.ready = @ \cup ms]
     \/ db.rel < MaxRelease /\ db' = [rel |-> db.rel + 1, ready |-> ms]
  /\ seen' = seen \cup ms

RefreshWorks ==
  /\ zipTask = "running"
  /\ zipTask' = "done"
  /\ Imports({config.mode})
  /\ UNCHANGED <<step, config, offer, post, dbTask, orphans, entries>>

RefreshFails ==
  /\ zipTask = "running"
  /\ zipTask' = "done"
  /\ UNCHANGED <<step, config, offer, post, dbTask, orphans, db, entries, seen>>

OrphanWorks(m) ==
  /\ m \in orphans
  /\ orphans' = orphans \ {m}
  /\ Imports({m})
  /\ UNCHANGED <<flow, entries>>

OrphanFails(m) ==
  /\ m \in orphans
  /\ orphans' = orphans \ {m}
  /\ UNCHANGED <<flow, db, entries, seen>>

(* The first handler of a flow, for all modes that have a watch. *)
RefreshAll ==
  /\ Watches # {}
  /\ Imports({entries[i].conf.mode : i \in Watches})
  /\ UNCHANGED <<flow, orphans, entries>>

(* A watch is set up and its bundles are not there. *)
SetupWatch(i) ==
  /\ i \in Watches
  /\ ~ModeReady(entries[i].conf.mode)
  /\ Imports({entries[i].conf.mode})
  /\ UNCHANGED <<flow, orphans, entries>>

------------------------------------------------------------------------------

Starts == Open \/ SubmitKey \/ ChooseEntryType
Awaits == DownloadingDone \/ PollSees \/ ImportingDone

WatchSteps ==
  \/ Search \/ SearchNearHome \/ NoResults
  \/ AllDestinations \/ ChooseJourney \/ Confirm
  \/ \E s \in Stops : SelectStop(s) \/ SelectDest(s)
                      \/ SelectTransfer(s) \/ SelectFinal(s)
  \/ \E x \in offer \cup {None} : SelectLine(x) \/ SelectPlatform(x)

TrackerSteps ==
  \/ \E i \in Ids : SelectParent(i)
  \/ VehicleTrackerName
  \/ \E r \in Routes : SelectRoute(r)
  \/ ChooseFilter \/ SetProximity \/ RouteTrackerConfirm
  \/ \E s \in Stops : SelectReference(s)

Around ==
  \/ Close
  \/ \E i \in Ids : RemoveEntry(i) \/ SetupWatch(i)
  \/ RefreshWorks \/ RefreshFails \/ RefreshAll
  \/ \E m \in Modes : OrphanWorks(m) \/ OrphanFails(m)

Next ==
  \/ Starts \/ Awaits \/ WatchSteps \/ TrackerSteps \/ Around
  \/ \E m \in Modes : ChooseMode(m) \/ ChooseTrackerMode(m)

Spec == Init /\ [][Next]_vars

(* A refresh ends, and the event loop runs the poll and calls the flow     *)
(* again when the task behind its progress step is done.  Users are not    *)
(* obliged to anything.                                                    *)
FairSpec == Spec /\ WF_vars(RefreshWorks \/ RefreshFails) /\ WF_vars(Awaits)

------------------------------------------------------------------------------

Codes == {Code[s] : s \in Stops} \ {None}

Config == [key      : BOOLEAN,
           mode     : Modes \cup {None},
           stop     : Stops \cup {None},
           line     : Routes \cup {None},
           platform : Codes \cup {None},
           kind     : {"all", "specific", "journey", None},
           dest     : Stops \cup {None},
           transfer : Stops \cup {None},
           parent   : Ids \cup {None},
           route    : Routes \cup {None},
           ref      : Stops \cup {None},
           coords   : BOOLEAN]

EntryTypes == {"watch", "vehicle_tracker", "route_tracker", "gone"}

TypeOK ==
  /\ step \in Steps
  /\ config \in Config
  /\ offer \subseteq Stops \cup Routes \cup Codes \cup Ids
  /\ post \in {"stop", "route_tracker_route"}
  /\ zipTask \in {"none", "running", "done"}
  /\ dbTask \in {"none", "polling", "done"}
  /\ orphans \subseteq Modes
  /\ db \in [rel : Releases, ready : SUBSET Modes]
  /\ entries \in [Ids -> [type : EntryTypes, conf : Config]]
  /\ seen \subseteq Modes

(* No form that needs the schedule comes before the bundles of its mode    *)
(* were imported at least once, though the refresh the flow waited for may *)
(* have failed.  (They may have been dropped again: searches then find     *)
(* nothing.)                                                               *)
BeforeImport ==
  {"closed", "user", "entry_type", "mode", "downloading", "importing",
   "vehicle_tracker", "vehicle_tracker_name", "route_tracker_mode"}

ImportComesFirst == step \notin BeforeImport => config.mode \in seen

(* Every hop of a finished watch was a direct service in some release up   *)
(* to now, the second hop of a journey from where the first one ends.      *)
DirectBy(n, from, to, m) ==
  \E r \in 1 .. n : \E l \in Legs[r] :
    l.from = from /\ l.to = to /\ l.type \in RouteTypes[m]

Reachable(n, conf) ==
  \/ conf.kind = "all" /\ conf.dest = None /\ conf.transfer = None
  \/ /\ conf.kind = "specific" /\ conf.transfer = None
     /\ DirectBy(n, conf.stop, conf.dest, conf.mode)
  \/ /\ conf.kind = "journey"
     /\ DirectBy(n, conf.stop, conf.transfer, conf.mode)
     /\ DirectBy(n, conf.transfer, conf.dest, conf.mode)

WatchesReachable == \A i \in Watches : Reachable(db.rel, entries[i].conf)

(* A line or platform filter of a watch is one its station had, though the *)
(* stop found by the search stands for all platforms of the station.       *)
Served(conf) ==
  /\ conf.line # None =>
       \E r \in 1 .. db.rel : \E l \in Legs[r] :
         l.route = conf.line /\ CallsAt(l, Siblings[conf.stop])
  /\ conf.platform # None =>
       \E p \in Siblings[conf.stop] : Code[p] = conf.platform

FiltersServed == \A i \in Watches : Served(entries[i].conf)

(* Whoever is past the key form has a key, also when the only entries left *)
(* are vehicle trackers, which have none.                                  *)
KeyKnown ==
  /\ step \notin {"closed", "user"} => config.key
  /\ \A i \in OfType({"watch", "route_tracker"}) : entries[i].conf.key

(* A vehicle tracker is linked to a watch and has its mode, unless the     *)
(* watch was removed.                                                      *)
LinkedToWatch ==
  \A i \in OfType({"vehicle_tracker"}) :
    LET parent == entries[entries[i].conf.parent]
    IN \/ parent.type = "gone"
       \/ parent.type = "watch" /\ parent.conf.mode = entries[i].conf.mode

(* A flow that waits for ever does so for a mode that is not there, after  *)
(* its own refresh has ended: one that failed does not keep it from seeing *)
(* what another one brings, nor one that was dropped and came back.        *)
Waiting == step \in {"downloading", "importing"}

WaitEnds ==
  []<>(Waiting => zipTask # "running" /\ ~ModeReady(config.mode))
==============================================================================
