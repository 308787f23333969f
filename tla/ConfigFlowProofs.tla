-------------------------- MODULE ConfigFlowProofs ---------------------------
(***************************************************************************)
(* Proofs about ConfigFlow, for any schedule, any number of releases and   *)
(* of entries.  Six inductive invariants: what is where (Typed) and, on    *)
(* top of it, who has a key (KeyKnown, inductive as it stands), what was   *)
(* imported (Imported), which hops were found to be served (Hops), which   *)
(* filters the chosen station has (Filters), and which watch a tracker is  *)
(* for (Links).                                                            *)
(***************************************************************************)
EXTENDS ConfigFlow, TLAPS

(* The forms on which no mode is chosen yet, or none is needed.            *)
Early == {"closed", "user", "entry_type", "mode", "route_tracker_mode",
          "vehicle_tracker", "vehicle_tracker_name"}

OfferTyped ==
  /\ step = "route" => offer \subseteq Routes
  /\ step = "platform" => offer \subseteq Codes
  /\ step = "vehicle_tracker" => offer \subseteq Ids
  /\ step = "vehicle_tracker_name" => config.parent \in Ids

(* From the stop form on a watch has a mode, and a task works for one.     *)
ModeChosen ==
  /\ step \notin Early => config.mode \in Modes
  /\ step \in Early => zipTask = "none" /\ dbTask = "none"
  /\ zipTask = "running" => step = "downloading"
  /\ \A i \in Watches : entries[i].conf.mode \in Modes

(* From the route form on a watch has its stop. *)
StopChosen ==
  step \in {"route", "platform", "dest", "journey", "journey_dest", "confirm"}
    => config.stop \in Stops

Typed == TypeOK /\ OfferTyped /\ ModeChosen /\ StopChosen

Imported ==
  /\ db.ready \subseteq seen
  /\ dbTask = "done" => config.mode \in seen
  /\ ImportComesFirst

(* What is known of the hops before the entry is created. *)
Hops ==
  /\ step \notin {"journey_dest", "confirm"} => config.transfer = None
  /\ step = "journey_dest" =>
       DirectBy(db.rel, config.stop, config.transfer, config.mode)
  /\ step = "confirm" => Reachable(db.rel, config)
  /\ WatchesReachable

------------------------------------------------------------------------------
(* What the queries answer is of the type their callers expect.            *)

LEMMA QueriesTyped ==
  ASSUME db \in [rel : Releases, ready : SUBSET Modes]
  PROVE  /\ \A types : Rows(types) \subseteq Legs[db.rel] \cap Leg
         /\ \A s \in Stops : PlatformsAt(s) \subseteq Codes
         /\ \A s, m : LinesAt(s, m) \subseteq Routes
         /\ \A m : AllRoutes(m) \subseteq Routes
         /\ \A m : \A around \in SUBSET Stops : Near(m, around) \subseteq Stops
  <1>1. Legs[db.rel] \subseteq Leg
    BY FlowAssumption
  <1>2. \A types : Rows(types) \subseteq Legs[db.rel] \cap Leg
    BY <1>1 DEF Rows
  <1>3. \A s \in Stops : PlatformsAt(s) \subseteq Codes
    BY FlowAssumption DEF PlatformsAt, Codes
  <1>4. \A s, m : LinesAt(s, m) \subseteq Routes
    BY <1>2 DEF LinesAt, Leg
  <1>5. \A m : AllRoutes(m) \subseteq Routes
    BY <1>2 DEF AllRoutes, Leg
  <1>6. \A m : \A around \in SUBSET Stops : Near(m, around) \subseteq Stops
    BY DEF Near
  <1> QED
    BY <1>2, <1>3, <1>4, <1>5, <1>6

(* Answers given to a form fit into _config. *)
LEMMA ConfigTyped ==
  ASSUME NEW c \in Config
  PROVE  /\ \A b \in BOOLEAN : [c EXCEPT !.key = b] \in Config
         /\ \A m \in Modes \cup {None} : [c EXCEPT !.mode = m] \in Config
         /\ \A s \in Stops : [c EXCEPT !.stop = s] \in Config
         /\ \A r \in Routes \cup {None} : [c EXCEPT !.line = r] \in Config
         /\ \A p \in Codes \cup {None} : [c EXCEPT !.platform = p] \in Config
         /\ \A k \in {"all", "specific", "journey"} :
              \A s \in Stops \cup {None} :
                [c EXCEPT !.kind = k, !.dest = s] \in Config
         /\ \A s \in Stops : [c EXCEPT !.transfer = s] \in Config
         /\ \A i \in Ids : \A m \in Modes \cup {None} :
              /\ [c EXCEPT !.parent = i] \in Config
              /\ [c EXCEPT !.parent = i, !.mode = m] \in Config
         /\ \A r \in Routes : [c EXCEPT !.route = r] \in Config
         /\ \A s \in Stops : \A b \in BOOLEAN :
              [c EXCEPT !.ref = s, !.coords = b] \in Config
  <1>1. \A b \in BOOLEAN : [c EXCEPT !.key = b] \in Config
    BY DEF Config
  <1>2. \A m \in Modes \cup {None} : [c EXCEPT !.mode = m] \in Config
    BY DEF Config
  <1>3. \A s \in Stops : [c EXCEPT !.stop = s] \in Config
    BY DEF Config
  <1>4. \A r \in Routes \cup {None} : [c EXCEPT !.line = r] \in Config
    BY DEF Config
  <1>5. \A p \in Codes \cup {None} : [c EXCEPT !.platform = p] \in Config
    BY DEF Config
  <1>6. \A k \in {"all", "specific", "journey"} :
         \A s \in Stops \cup {None} : [c EXCEPT !.kind = k, !.dest = s] \in Config
    BY DEF Config
  <1>7. \A s \in Stops : [c EXCEPT !.transfer = s] \in Config
    BY DEF Config
  <1>8. \A i \in Ids : \A m \in Modes \cup {None} :
         /\ [c EXCEPT !.parent = i] \in Config
         /\ [c EXCEPT !.parent = i, !.mode = m] \in Config
    BY DEF Config
  <1>9. \A r \in Routes : [c EXCEPT !.route = r] \in Config
    BY DEF Config
  <1>10. \A s \in Stops : \A b \in BOOLEAN :
         [c EXCEPT !.ref = s, !.coords = b] \in Config
    BY DEF Config
  <1> QED
    BY <1>1, <1>2, <1>3, <1>4, <1>5, <1>6, <1>7, <1>8, <1>9, <1>10

LEMMA BlankTyped == Blank \in Config
  BY DEF Blank, Config

(* The flow ends, and the entries are as typed as they were. *)
LEMMA OverTyped ==
  ASSUME Typed, Over,
         orphans' \subseteq Modes,
         db' \in [rel : Releases, ready : SUBSET Modes],
         entries' \in [Ids -> [type : EntryTypes, conf : Config]],
         seen' \subseteq Modes,
         \A i \in Watches' : entries'[i].conf.mode \in Modes
  PROVE  Typed'
  <1>1. TypeOK'
    BY BlankTyped DEF Typed, TypeOK, Over, Show, Steps
  <1>2. OfferTyped' /\ ModeChosen' /\ StopChosen'
    BY DEF Over, Show, OfferTyped, ModeChosen, StopChosen, Early
  <1> QED
    BY <1>1, <1>2 DEF Typed

(* A form is shown, and nothing else happens but to the flow's own tasks.  *)
LEMMA ShowTyped ==
  ASSUME Typed, UNCHANGED World,
         NEW s \in Steps, NEW o, NEW c \in Config, Show(s, o, c),
         o \subseteq Stops \cup Routes \cup Codes \cup Ids,
         post' \in {"stop", "route_tracker_route"},
         zipTask' \in {"none", "running", "done"},
         dbTask' \in {"none", "polling", "done"},
         s = "route" => o \subseteq Routes,
         s = "platform" => o \subseteq Codes,
         s = "vehicle_tracker" => o \subseteq Ids,
         s = "vehicle_tracker_name" => c.parent \in Ids,
         s \notin Early => c.mode \in Modes,
         s \in Early => zipTask' = "none" /\ dbTask' = "none",
         zipTask' = "running" => s = "downloading",
         s \in {"route", "platform", "dest", "journey", "journey_dest",
                "confirm"} => c.stop \in Stops
  PROVE  Typed'
  <1>1. TypeOK'
    BY DEF Typed, TypeOK, Show, World
  <1>2. OfferTyped' /\ ModeChosen' /\ StopChosen'
    BY DEF Typed, Show, World, OfferTyped, ModeChosen, StopChosen, Early,
           Watches, OfType
  <1> QED
    BY <1>1, <1>2 DEF Typed

(* The handlers that may pass by their form. *)
LEMMA GoPlatformTyped ==
  ASSUME Typed, UNCHANGED <<Waits, World>>, zipTask # "running",
         NEW c \in Config, c.stop \in Stops, c.mode \in Modes, GoPlatform(c)
  PROVE  Typed'
  <1>1. PlatformsAt(c.stop) \subseteq Codes
    BY QueriesTyped DEF Typed, TypeOK
  <1> DEFINE d == [c EXCEPT !.platform = None]
  <1>2. d \in Config
    BY ConfigTyped
  <1>3. d.mode \in Modes /\ d.stop \in Stops
    BY DEF Config
  <1>4. CASE Show("dest", {}, d)
    <2> HIDE DEF d
    <2> QED
      BY <1>2, <1>3, <1>4, ShowTyped DEF Waits, Typed, TypeOK, Steps, Early
  <1>5. CASE Show("platform", PlatformsAt(c.stop), c)
    BY <1>1, <1>5, ShowTyped DEF Waits, Typed, TypeOK, Steps, Early
  <1> QED
    BY <1>4, <1>5 DEF GoPlatform

LEMMA GoRouteTyped ==
  ASSUME Typed, UNCHANGED <<Waits, World>>, zipTask # "running",
         NEW c \in Config, c.stop \in Stops, c.mode \in Modes, GoRoute(c)
  PROVE  Typed'
  <1>1. LinesAt(c.stop, c.mode) \subseteq Routes
    BY QueriesTyped DEF Typed, TypeOK
  <1>2. [c EXCEPT !.line = None] \in Config
    BY ConfigTyped
  <1>3. [c EXCEPT !.line = None].mode \in Modes
        /\ [c EXCEPT !.line = None].stop \in Stops
    BY DEF Config
  <1>4. CASE GoPlatform([c EXCEPT !.line = None])
    BY <1>2, <1>3, <1>4, GoPlatformTyped
  <1>5. CASE Show("route", LinesAt(c.stop, c.mode), c)
    BY <1>1, <1>5, ShowTyped DEF Waits, Typed, TypeOK, Steps, Early
  <1> QED
    BY <1>4, <1>5 DEF GoRoute

LEMMA OverKeeps ==
  ASSUME Typed, Over, UNCHANGED World
  PROVE  Typed'
  <1>1. /\ orphans' = orphans /\ db' = db /\ entries' = entries /\ seen' = seen
        /\ Watches' = Watches
    BY DEF World, Watches, OfType
  <1>2. /\ orphans \subseteq Modes
        /\ db \in [rel : Releases, ready : SUBSET Modes]
        /\ entries \in [Ids -> [type : EntryTypes, conf : Config]]
        /\ seen \subseteq Modes
        /\ \A i \in Watches : entries[i].conf.mode \in Modes
    BY DEF Typed, TypeOK, ModeChosen
  <1> QED
    BY <1>1, <1>2, OverTyped

LEMMA GoRouteTrackerRouteTyped ==
  ASSUME Typed, UNCHANGED World, zipTask # "running",
         NEW c \in Config, c.mode \in Modes, GoRouteTrackerRoute(c)
  PROVE  Typed'
  <1>1. AllRoutes(c.mode) \subseteq Routes
    BY QueriesTyped DEF Typed, TypeOK
  <1>2. CASE Over
    BY <1>2, OverKeeps
  <1>3. CASE Show("route_tracker_route", AllRoutes(c.mode), c)
             /\ UNCHANGED Waits
    BY <1>1, <1>3, ShowTyped DEF Waits, Typed, TypeOK, Steps, Early
  <1> QED
    BY <1>2, <1>3 DEF GoRouteTrackerRoute

LEMMA GoPostTyped ==
  ASSUME Typed, UNCHANGED World, zipTask # "running", step \notin Early, GoPost
  PROVE  Typed'
  <1>1. config \in Config /\ config.mode \in Modes
    BY DEF Typed, TypeOK, ModeChosen
  <1>2. CASE Show("stop", {}, config) /\ UNCHANGED Waits
    BY <1>1, <1>2, ShowTyped DEF Waits, Typed, TypeOK, Steps, Early
  <1>3. CASE GoRouteTrackerRoute(config)
    BY <1>1, <1>3, GoRouteTrackerRouteTyped
  <1> QED
    BY <1>2, <1>3 DEF GoPost

------------------------------------------------------------------------------
(* Typed is inductive, a part of Next at a time.                           *)

LEMMA StartsTyped == Typed /\ Starts => Typed'
  <1> SUFFICES ASSUME Typed, Starts PROVE Typed'
    OBVIOUS
  <1>1. config \in Config /\ Parents \subseteq Ids
    BY DEF Typed, TypeOK, Parents, Watches, OfType
  <1>2. CASE Open
    <2>1. Show("entry_type", {}, [Blank EXCEPT !.key = ExistingKey])
          \/ Show("user", {}, Blank)
      BY <1>2 DEF Open
    <2>2. [Blank EXCEPT !.key = ExistingKey] \in Config
      BY BlankTyped, ConfigTyped DEF ExistingKey
    <2>3. step = "closed" /\ UNCHANGED <<Waits, World>>
      BY <1>2 DEF Open
    <2> QED
      BY <2>1, <2>2, <2>3, BlankTyped, ShowTyped
      DEF Waits, Typed, TypeOK, ModeChosen, Steps, Early
  <1>3. CASE SubmitKey
    <2>1. [config EXCEPT !.key = TRUE] \in Config
      BY <1>1, ConfigTyped
    <2> QED
      BY <1>3, <2>1, ShowTyped
      DEF SubmitKey, Waits, Typed, TypeOK, ModeChosen, Steps, Early
  <1>4. CASE ChooseEntryType
    <2>1. step = "entry_type" /\ UNCHANGED World
      BY <1>4 DEF ChooseEntryType
    <2>2. CASE Show("mode", {}, config) /\ UNCHANGED Waits
      BY <1>1, <2>1, <2>2, ShowTyped
      DEF Waits, Typed, TypeOK, ModeChosen, Steps, Early
    <2>3. CASE Show("route_tracker_mode", {}, config) /\ UNCHANGED Waits
      BY <1>1, <2>1, <2>3, ShowTyped
      DEF Waits, Typed, TypeOK, ModeChosen, Steps, Early
    <2>4. CASE Show("vehicle_tracker", Parents, config) /\ UNCHANGED Waits
      BY <1>1, <2>1, <2>4, ShowTyped
      DEF Waits, Typed, TypeOK, ModeChosen, Steps, Early
    <2>5. CASE Over
      BY <2>1, <2>5, OverKeeps
    <2> QED
      BY <1>4, <2>2, <2>3, <2>4, <2>5 DEF ChooseEntryType
  <1> QED
    BY <1>2, <1>3, <1>4 DEF Starts

LEMMA ModesTyped ==
  Typed /\ (\E m \in Modes : ChooseMode(m) \/ ChooseTrackerMode(m)) => Typed'
  <1> SUFFICES ASSUME Typed, NEW m \in Modes,
                      ChooseMode(m) \/ ChooseTrackerMode(m)
               PROVE  Typed'
    OBVIOUS
  <1> DEFINE c == [config EXCEPT !.mode = m]
  <1>1. step \in Early /\ UNCHANGED World
    BY DEF ChooseMode, ChooseTrackerMode, Early
  <1>2. zipTask = "none" /\ dbTask = "none"
    BY <1>1 DEF Typed, ModeChosen
  <1>3. c \in Config /\ c.mode = m
    <2>1. config \in Config
      BY DEF Typed, TypeOK
    <2>2. c \in Config
      BY <2>1, ConfigTyped
    <2>3. c.mode = m
      BY <2>1 DEF Config
    <2> QED
      BY <2>2, <2>3
  <1> HIDE DEF c
  <1>4. ASSUME NEW next \in {"stop", "route_tracker_route"},
               GoDownloading(m, next)
        PROVE  Typed'
    <2>1. post' = next /\ dbTask' = "none"
      BY <1>2, <1>4 DEF GoDownloading
    <2>2. next \in Steps /\ "downloading" \in Steps
          /\ next \notin Early /\ "downloading" \notin Early
      BY DEF Steps, Early
    <2>3. CASE Show(next, {}, c) /\ zipTask' = zipTask
      BY <1>1, <1>2, <1>3, <2>1, <2>2, <2>3, ShowTyped
    <2>4. CASE Show("downloading", {}, c) /\ zipTask' = "running"
      BY <1>1, <1>2, <1>3, <2>1, <2>2, <2>4, ShowTyped
    <2> QED
      BY <1>4, <2>3, <2>4 DEF GoDownloading, c
  <1>5. CASE ChooseMode(m)
    BY <1>4, <1>5 DEF ChooseMode
  <1>6. CASE ChooseTrackerMode(m)
    BY <1>1, <1>2, <1>3, <1>4, <1>6, GoRouteTrackerRouteTyped
    DEF ChooseTrackerMode, c
  <1> QED
    BY <1>5, <1>6

LEMMA AwaitsTyped == Typed /\ Awaits => Typed'
  <1> SUFFICES ASSUME Typed, Awaits PROVE Typed'
    OBVIOUS
  <1>1. CASE DownloadingDone
    <2>1. step = "downloading" /\ step \notin Early /\ zipTask = "done"
          /\ UNCHANGED World
      BY <1>1 DEF DownloadingDone, Early
    <2>2. CASE GoPost
      BY <2>1, <2>2, GoPostTyped
    <2>3. CASE Show("importing", {}, config) /\ dbTask' = "polling"
               /\ UNCHANGED <<post, zipTask>>
      BY <2>1, <2>3, ShowTyped DEF Typed, TypeOK, ModeChosen, Steps, Early
    <2> QED
      BY <1>1, <2>2, <2>3 DEF DownloadingDone
  <1>2. CASE PollSees
    BY <1>2 DEF PollSees, World, Typed, TypeOK, OfferTyped, ModeChosen,
                StopChosen, Watches, OfType
  <1>3. CASE ImportingDone
    <2>1. step = "importing" /\ step \notin Early /\ UNCHANGED World
      BY <1>3 DEF ImportingDone, Early
    <2>2. zipTask # "running"
      BY <2>1 DEF Typed, ModeChosen
    <2> QED
      BY <1>3, <2>1, <2>2, GoPostTyped DEF ImportingDone
  <1> QED
    BY <1>1, <1>2, <1>3 DEF Awaits

LEMMA CreateTyped ==
  ASSUME Typed, NEW t \in {"watch", "vehicle_tracker", "route_tracker"},
         NEW c \in Config, t = "watch" => c.mode \in Modes, Create(t, c)
  PROVE  Typed'
  <1>1. PICK i \in Ids :
          entries' = [entries EXCEPT ![i] = [type |-> t, conf |-> c]]
    BY DEF Create
  <1>2. entries \in [Ids -> [type : EntryTypes, conf : Config]]
    BY DEF Typed, TypeOK
  <1>3. entries' \in [Ids -> [type : EntryTypes, conf : Config]]
    BY <1>1, <1>2 DEF EntryTypes
  <1>4. \A j \in Watches' : entries'[j].conf.mode \in Modes
    BY <1>1, <1>2 DEF Watches, OfType, Typed, ModeChosen
  <1>5. Over /\ orphans' = orphans /\ db' = db /\ seen' = seen
    BY DEF Create
  <1> QED
    BY <1>3, <1>4, <1>5, OverTyped DEF Typed, TypeOK

LEMMA WatchStepsTyped == Typed /\ WatchSteps => Typed'
  <1> SUFFICES ASSUME Typed, WatchSteps PROVE Typed'
    OBVIOUS
  <1>1. config \in Config /\ post \in {"stop", "route_tracker_route"}
        /\ zipTask \in {"none", "running", "done"}
        /\ dbTask \in {"none", "polling", "done"}
    BY DEF Typed, TypeOK
  <1>2. UNCHANGED <<Waits, World>> /\ step \notin Early /\ zipTask # "running"
        => post' = post /\ zipTask' = zipTask /\ dbTask' = dbTask
           /\ UNCHANGED World /\ config.mode \in Modes
    BY DEF Waits, Typed, ModeChosen
  <1>3. CASE Search \/ SearchNearHome \/ NoResults
    <2>1. PICK o : Show(step, o, config) /\ o \subseteq Stops
      <3>1. CASE Search
        <4>1. PICK o \in SUBSET Named(config.mode) : Show(step, o, config)
          BY <3>1 DEF Search
        <4>2. Named(config.mode) \subseteq Stops
          BY QueriesTyped DEF Named, Typed, TypeOK
        <4> QED
          BY <4>1, <4>2
      <3>2. CASE SearchNearHome
        <4>1. PICK around \in SUBSET Stops :
                Show(step, Near(config.mode, around), config)
          BY <3>2 DEF SearchNearHome
        <4>2. Near(config.mode, around) \subseteq Stops
          BY QueriesTyped DEF Typed, TypeOK
        <4> QED
          BY <4>1, <4>2
      <3>3. CASE NoResults
        BY <3>3 DEF NoResults
      <3> QED
        BY <1>3, <3>1, <3>2, <3>3
    <2>2. /\ step \in {"stop", "dest", "journey", "journey_dest"}
          /\ UNCHANGED <<Waits, World>>
      BY <1>3 DEF Search, SearchNearHome, NoResults
    <2>3. step \notin Early /\ zipTask # "running" /\ step \in Steps
      BY <2>2 DEF Early, Typed, ModeChosen, Steps
    <2>4. step \in {"dest", "journey", "journey_dest"} => config.stop \in Stops
      BY DEF Typed, StopChosen
    <2> QED
      BY <1>1, <1>2, <2>1, <2>2, <2>3, <2>4, ShowTyped DEF Early
  <1>4. ASSUME NEW s \in Stops, SelectStop(s) PROVE Typed'
    <2> DEFINE c == [config EXCEPT !.stop = s]
    <2>1. step = "stop" /\ GoRoute(c) /\ UNCHANGED <<Waits, World>>
      BY <1>4 DEF SelectStop
    <2>2. zipTask # "running" /\ config.mode \in Modes
      BY <2>1 DEF Early, Typed, ModeChosen
    <2>3. c \in Config /\ c.stop \in Stops /\ c.mode \in Modes
      <3>1. c \in Config
        BY <1>1, ConfigTyped
      <3>2. c.stop = s /\ c.mode = config.mode
        BY <1>1 DEF Config
      <3> QED
        BY <2>2, <3>1, <3>2
    <2> HIDE DEF c
    <2> QED
      BY <2>1, <2>2, <2>3, GoRouteTyped
  <1>5. ASSUME NEW r, SelectLine(r) PROVE Typed'
    <2> DEFINE c == [config EXCEPT !.line = r]
    <2>1. step = "route" /\ GoPlatform(c) /\ UNCHANGED <<Waits, World>>
          /\ r \in offer \cup {None}
      BY <1>5 DEF SelectLine
    <2>2. /\ zipTask # "running" /\ config.mode \in Modes
          /\ config.stop \in Stops /\ r \in Routes \cup {None}
      BY <2>1 DEF Early, Typed, ModeChosen, StopChosen, OfferTyped
    <2>3. c \in Config /\ c.stop \in Stops /\ c.mode \in Modes
      <3>1. c \in Config
        BY <1>1, <2>2, ConfigTyped
      <3>2. c.stop = config.stop /\ c.mode = config.mode
        BY <1>1 DEF Config
      <3> QED
        BY <2>2, <3>1, <3>2
    <2> HIDE DEF c
    <2> QED
      BY <2>1, <2>2, <2>3, GoPlatformTyped
  <1>6. ASSUME NEW s, NEW c, Show(s, {}, c), UNCHANGED <<Waits, World>>,
               step \in {"platform", "dest", "journey", "journey_dest"},
               s \in {"dest", "journey", "journey_dest", "confirm"},
               c \in Config, c.mode = config.mode, c.stop = config.stop
        PROVE  Typed'
    <2>1. config.stop \in Stops /\ step \notin Early /\ zipTask # "running"
      BY <1>6 DEF Typed, StopChosen, Early, ModeChosen
    <2>2. s \in Steps /\ s \notin Early
          /\ s \notin {"route", "platform", "vehicle_tracker",
                       "vehicle_tracker_name"}
      BY <1>6 DEF Steps, Early
    <2> QED
      BY <1>1, <1>2, <1>6, <2>1, <2>2, ShowTyped
  <1>7. ASSUME NEW p, SelectPlatform(p) PROVE Typed'
    <2> DEFINE c == [config EXCEPT !.platform = p]
    <2>1. p \in Codes \cup {None}
      BY <1>7 DEF SelectPlatform, Typed, OfferTyped
    <2>2. c \in Config
      BY <1>1, <2>1, ConfigTyped
    <2>3. c.mode = config.mode /\ c.stop = config.stop
      BY <1>1 DEF Config
    <2> QED
      BY <1>6, <1>7, <2>2, <2>3 DEF SelectPlatform
  <1>8. CASE AllDestinations
    <2> DEFINE c == [config EXCEPT !.kind = "all", !.dest = None]
    <2>1. c \in Config
      BY <1>1, ConfigTyped
    <2>2. c.mode = config.mode /\ c.stop = config.stop
      BY <1>1 DEF Config
    <2> QED
      BY <1>6, <1>8, <2>1, <2>2 DEF AllDestinations
  <1>9. CASE ChooseJourney
    BY <1>1, <1>6, <1>9 DEF ChooseJourney
  <1>10. ASSUME NEW s \in Stops, SelectDest(s) PROVE Typed'
    <2> DEFINE c == [config EXCEPT !.kind = "specific", !.dest = s]
    <2>1. c \in Config
      BY <1>1, ConfigTyped
    <2>2. c.mode = config.mode /\ c.stop = config.stop
      BY <1>1 DEF Config
    <2> QED
      BY <1>6, <1>10, <2>1, <2>2 DEF SelectDest
  <1>11. ASSUME NEW s \in Stops, SelectTransfer(s) PROVE Typed'
    <2> DEFINE c == [config EXCEPT !.transfer = s]
    <2>1. c \in Config
      BY <1>1, ConfigTyped
    <2>2. c.mode = config.mode /\ c.stop = config.stop
      BY <1>1 DEF Config
    <2> QED
      BY <1>6, <1>11, <2>1, <2>2 DEF SelectTransfer
  <1>12. ASSUME NEW s \in Stops, SelectFinal(s) PROVE Typed'
    <2> DEFINE c == [config EXCEPT !.kind = "journey", !.dest = s]
    <2>1. c \in Config
      BY <1>1, ConfigTyped
    <2>2. c.mode = config.mode /\ c.stop = config.stop
      BY <1>1 DEF Config
    <2> QED
      BY <1>6, <1>12, <2>1, <2>2 DEF SelectFinal
  <1>13. CASE Confirm
    <2>1. config.mode \in Modes
      BY <1>13 DEF Confirm, Typed, ModeChosen, Early
    <2> QED
      BY <1>1, <1>13, <2>1, CreateTyped DEF Confirm, EntryTypes
  <1> QED
    BY <1>3, <1>4, <1>5, <1>7, <1>8, <1>9, <1>10, <1>11, <1>12, <1>13
    DEF WatchSteps

LEMMA TrackerStepsTyped == Typed /\ TrackerSteps => Typed'
  <1> SUFFICES ASSUME Typed, TrackerSteps PROVE Typed'
    OBVIOUS
  <1>1. config \in Config /\ post \in {"stop", "route_tracker_route"}
        /\ zipTask \in {"none", "running", "done"}
        /\ dbTask \in {"none", "polling", "done"}
        /\ entries \in [Ids -> [type : EntryTypes, conf : Config]]
    BY DEF Typed, TypeOK
  <1>2. ASSUME NEW i \in Ids, SelectParent(i) PROVE Typed'
    <2> DEFINE c == [config EXCEPT !.parent = i]
    <2>1. c \in Config
      BY <1>1, ConfigTyped
    <2>2. c.parent = i
      BY <1>1 DEF Config
    <2>3. /\ step = "vehicle_tracker" /\ UNCHANGED World
          /\ Over \/ (Show("vehicle_tracker_name", {}, c) /\ UNCHANGED Waits)
      BY <1>2 DEF SelectParent
    <2>4. zipTask = "none" /\ dbTask = "none"
      BY <2>3 DEF Typed, ModeChosen, Early
    <2>5. CASE Over
      BY <2>3, <2>5, OverKeeps
    <2>6. CASE Show("vehicle_tracker_name", {}, c) /\ UNCHANGED Waits
      <3> HIDE DEF c
      <3> QED
        BY <1>1, <2>1, <2>2, <2>3, <2>4, <2>6, ShowTyped
        DEF Waits, Steps, Early
    <2> QED
      BY <2>3, <2>5, <2>6
  <1>3. CASE VehicleTrackerName
    <2> DEFINE m == entries[config.parent].conf.mode
               c == [Blank EXCEPT !.parent = config.parent, !.mode = m]
    <2>1. config.parent \in Ids
      BY <1>3 DEF VehicleTrackerName, Typed, OfferTyped
    <2>2. m \in Modes \cup {None}
      BY <1>1, <2>1 DEF Config
    <2>3. c \in Config
      BY <2>1, <2>2, BlankTyped, ConfigTyped
    <2>4. Create("vehicle_tracker", c)
      BY <1>3 DEF VehicleTrackerName
    <2> QED
      BY <2>3, <2>4, CreateTyped
  <1>4. ASSUME NEW s, NEW o, NEW c, Show(s, o, c), UNCHANGED <<Waits, World>>,
               step \in {"route_tracker_route", "route_tracker_filter",
                         "route_tracker_stop", "route_tracker_proximity"},
               s \in {"route_tracker_filter", "route_tracker_stop",
                      "route_tracker_proximity", "route_tracker_confirm"},
               o \subseteq Stops, c \in Config, c.mode = config.mode
        PROVE  Typed'
    <2>1. step \notin Early /\ config.mode \in Modes /\ zipTask # "running"
      BY <1>4 DEF Typed, Early, ModeChosen
    <2>2. s \in Steps /\ s \notin Early
          /\ s \notin {"route", "platform", "vehicle_tracker",
                       "vehicle_tracker_name", "dest", "journey",
                       "journey_dest", "confirm"}
      BY <1>4 DEF Steps, Early
    <2> QED
      BY <1>1, <1>4, <2>1, <2>2, ShowTyped DEF Waits
  <1>5. ASSUME NEW r \in Routes, SelectRoute(r) PROVE Typed'
    <2> DEFINE c == [config EXCEPT !.route = r]
    <2>1. c \in Config
      BY <1>1, ConfigTyped
    <2>2. c.mode = config.mode
      BY <1>1 DEF Config
    <2>3. /\ Show("route_tracker_filter", {}, c) /\ UNCHANGED <<Waits, World>>
          /\ step = "route_tracker_route"
      BY <1>5 DEF SelectRoute
    <2> HIDE DEF c
    <2> QED
      BY <1>4, <2>1, <2>2, <2>3
  <1>6. CASE ChooseFilter
    <2>1. \A around \in {{}, Stops} : Near(config.mode, around) \subseteq Stops
      BY QueriesTyped DEF Typed, TypeOK
    <2> QED
      BY <1>1, <1>4, <1>6, <2>1 DEF ChooseFilter
  <1>7. ASSUME NEW s \in Stops, SelectReference(s) PROVE Typed'
    <2> DEFINE c == [config EXCEPT !.ref = s, !.coords = Known(s)]
    <2>1. c \in Config
      BY <1>1, ConfigTyped DEF Known
    <2>2. c.mode = config.mode
      BY <1>1 DEF Config
    <2>3. /\ Show("route_tracker_proximity", {}, c)
          /\ step = "route_tracker_stop" /\ UNCHANGED <<Waits, World>>
      BY <1>7 DEF SelectReference
    <2> HIDE DEF c
    <2> QED
      BY <1>4, <2>1, <2>2, <2>3
  <1>8. CASE SetProximity
    BY <1>1, <1>4, <1>8 DEF SetProximity
  <1>9. CASE RouteTrackerConfirm
    BY <1>1, <1>9, CreateTyped DEF RouteTrackerConfirm
  <1> QED
    BY <1>2, <1>3, <1>5, <1>6, <1>7, <1>8, <1>9 DEF TrackerSteps

(* An import, whoever asked for it, changes no more than the database. *)
LEMMA ImportsTyped ==
  ASSUME Typed, NEW ms \in SUBSET Modes, Imports(ms)
  PROVE  /\ db' \in [rel : Releases, ready : SUBSET Modes]
         /\ seen' \subseteq Modes
  <1>1. db \in [rel : Releases, ready : SUBSET Modes] /\ seen \subseteq Modes
    BY DEF Typed, TypeOK
  <1>2. CASE db' = [db EXCEPT !.ready = @ \cup ms]
    BY <1>1, <1>2 DEF Imports
  <1>3. CASE db.rel < MaxRelease /\ db' = [rel |-> db.rel + 1, ready |-> ms]
    <2>1. db.rel + 1 \in Releases
      BY <1>1, <1>3, FlowAssumption DEF Releases
    <2> QED
      BY <1>1, <1>3, <2>1 DEF Imports
  <1> QED
    BY <1>2, <1>3 DEF Imports

LEMMA AroundTyped == Typed /\ Around => Typed'
  <1> SUFFICES ASSUME Typed, Around PROVE Typed'
    OBVIOUS
  <1>1. /\ entries \in [Ids -> [type : EntryTypes, conf : Config]]
        /\ db \in [rel : Releases, ready : SUBSET Modes]
        /\ orphans \subseteq Modes /\ seen \subseteq Modes
        /\ \A i \in Watches : entries[i].conf.mode \in Modes
        /\ zipTask = "running" => step = "downloading" /\ config.mode \in Modes
    BY DEF Typed, TypeOK, ModeChosen, Early
  <1>2. CASE Close
    <2>1. /\ Over /\ db' = db /\ entries' = entries /\ seen' = seen
          /\ orphans' \subseteq Modes /\ Watches' = Watches
      BY <1>1, <1>2 DEF Close, Watches, OfType
    <2> QED
      BY <1>1, <2>1, OverTyped
  <1>3. ASSUME NEW i \in Ids, RemoveEntry(i) PROVE Typed'
    <2>1. entries' = [entries EXCEPT ![i] = Gone]
          /\ UNCHANGED <<flow, orphans, db, seen>>
      BY <1>3 DEF RemoveEntry
    <2>2. entries' \in [Ids -> [type : EntryTypes, conf : Config]]
      BY <1>1, <2>1, BlankTyped DEF Gone, EntryTypes
    <2>3. \A j \in Watches' : entries'[j].conf.mode \in Modes
      BY <1>1, <2>1 DEF Gone, Watches, OfType
    <2> QED
      BY <2>1, <2>2, <2>3
      DEF flow, Typed, TypeOK, OfferTyped, ModeChosen, StopChosen
  <1>4. ASSUME UNCHANGED <<step, config, offer, post, dbTask, entries>>,
               zipTask' \in {"done", zipTask}, zipTask' = "done" => zipTask # "none",
               orphans' \subseteq Modes, seen' \subseteq Modes,
               db' \in [rel : Releases, ready : SUBSET Modes]
        PROVE  Typed'
    <2>1. Watches' = Watches
      BY <1>4 DEF Watches, OfType
    <2>2. TypeOK'
      BY <1>4 DEF Typed, TypeOK
    <2>3. OfferTyped' /\ StopChosen'
      BY <1>4 DEF Typed, OfferTyped, StopChosen
    <2>4. ModeChosen'
      BY <1>4, <2>1 DEF Typed, ModeChosen
    <2> QED
      BY <2>2, <2>3, <2>4 DEF Typed
  <1>5. CASE RefreshWorks
    <2>1. Imports({config.mode}) /\ {config.mode} \subseteq Modes
      BY <1>1, <1>5 DEF RefreshWorks
    <2> QED
      BY <1>1, <1>4, <1>5, <2>1, ImportsTyped DEF RefreshWorks
  <1>6. CASE RefreshFails
    BY <1>1, <1>4, <1>6 DEF RefreshFails
  <1>7. ASSUME NEW ms \in SUBSET Modes, Imports(ms), UNCHANGED <<flow, entries>>,
               orphans' \subseteq Modes
        PROVE  Typed'
    BY <1>4, <1>7, ImportsTyped DEF flow
  <1>8. CASE RefreshAll
    BY <1>1, <1>7, <1>8 DEF RefreshAll
  <1>9. ASSUME NEW i \in Ids, SetupWatch(i) PROVE Typed'
    BY <1>1, <1>7, <1>9 DEF SetupWatch
  <1>10. ASSUME NEW m \in Modes, OrphanWorks(m) PROVE Typed'
    BY <1>1, <1>7, <1>10 DEF OrphanWorks
  <1>11. ASSUME NEW m \in Modes, OrphanFails(m) PROVE Typed'
    BY <1>1, <1>4, <1>11 DEF OrphanFails, flow
  <1> QED
    BY <1>2, <1>3, <1>5, <1>6, <1>8, <1>9, <1>10, <1>11 DEF Around

LEMMA InitTyped == Init => Typed
  <1> SUFFICES ASSUME Init PROVE Typed
    OBVIOUS
  <1>1. 1 \in Releases
    BY FlowAssumption DEF Releases
  <1>2. TypeOK
    BY <1>1, BlankTyped DEF Init, TypeOK, Steps, Gone, EntryTypes
  <1>3. OfferTyped /\ ModeChosen /\ StopChosen
    BY DEF Init, OfferTyped, ModeChosen, StopChosen, Early, Watches, OfType,
           Gone
  <1> QED
    BY <1>2, <1>3 DEF Typed

LEMMA StepTyped == Typed /\ [Next]_vars => Typed'
  <1> SUFFICES ASSUME Typed, [Next]_vars PROVE Typed'
    OBVIOUS
  <1>1. CASE UNCHANGED vars
    BY <1>1 DEF vars, Typed, TypeOK, OfferTyped, ModeChosen, StopChosen,
                Watches, OfType
  <1>2. CASE Next
    BY <1>2, StartsTyped, AwaitsTyped, ModesTyped, WatchStepsTyped,
       TrackerStepsTyped, AroundTyped DEF Next
  <1> QED
    BY <1>1, <1>2

(* The type invariant, whatever the schedule holds and however refreshes,  *)
(* flows and removals interleave: every form's answers fit what the next   *)
(* handlers do with them.                                                  *)
THEOREM TypeCorrect == Spec => []TypeOK
  <1>1. Typed => TypeOK
    BY DEF Typed
  <1> QED
    BY <1>1, InitTyped, StepTyped, PTL DEF Spec

------------------------------------------------------------------------------
(* Keys.                                                                   *)

LEMMA StepKeepsKeys == Typed /\ KeyKnown /\ [Next]_vars => KeyKnown'
  <1> SUFFICES ASSUME Typed, KeyKnown, [Next]_vars PROVE KeyKnown'
    OBVIOUS
  <1>1. config \in Config
        /\ entries \in [Ids -> [type : EntryTypes, conf : Config]]
    BY DEF Typed, TypeOK
  <1>2. ASSUME entries' = entries,
               step' \in {"closed", "user"} \/ config'.key
        PROVE  KeyKnown'
    BY <1>2 DEF KeyKnown, OfType
  <1>3. ASSUME entries' = entries, step \notin {"closed", "user"},
               step' = "closed" \/ config'.key = config.key
        PROVE  KeyKnown'
    BY <1>2, <1>3 DEF KeyKnown
  <1>4. ASSUME NEW t, NEW c, Create(t, c), t # "vehicle_tracker" => c.key
        PROVE  KeyKnown'
    <2>1. PICK i \in Ids :
            entries' = [entries EXCEPT ![i] = [type |-> t, conf |-> c]]
      BY <1>4 DEF Create
    <2>2. step' = "closed"
      BY <1>4 DEF Create, Over, Show
    <2> QED
      BY <1>1, <1>4, <2>1, <2>2 DEF KeyKnown, OfType
  <1>5. CASE Starts
    <2>1. entries' = entries
      BY <1>5 DEF Starts, Open, SubmitKey, ChooseEntryType, World
    <2>2. CASE Open
      BY <1>2, <2>1, <2>2 DEF Open, Show, SkipsKey, Blank
    <2>3. CASE SubmitKey
      BY <1>1, <1>2, <2>1, <2>3 DEF SubmitKey, Show, Config
    <2>4. CASE ChooseEntryType
      BY <1>3, <2>1, <2>4 DEF ChooseEntryType, Show, Over
    <2> QED
      BY <1>5, <2>2, <2>3, <2>4 DEF Starts
  <1>6. CASE Awaits
    BY <1>1, <1>2, <1>3, <1>6
    DEF Awaits, DownloadingDone, PollSees, ImportingDone, GoPost,
        GoRouteTrackerRoute, Show, Over, World, KeyKnown
  <1>7. ASSUME NEW m \in Modes, ChooseMode(m) \/ ChooseTrackerMode(m)
        PROVE  KeyKnown'
    BY <1>1, <1>3, <1>7
    DEF ChooseMode, ChooseTrackerMode, GoDownloading, GoRouteTrackerRoute,
        Show, Over, World, Config
  <1>8. CASE WatchSteps
    <2>1. CASE Confirm
      BY <1>4, <2>1 DEF Confirm, KeyKnown
    <2>2. CASE WatchSteps /\ ~Confirm
      <3>1. step \notin {"closed", "user"} /\ entries' = entries
        BY <2>2 DEF WatchSteps, Search, SearchNearHome, NoResults, SelectStop, SelectLine,
                    SelectPlatform, AllDestinations, ChooseJourney, SelectDest,
                    SelectTransfer, SelectFinal, World
      <3>2. \A c \in Config : GoPlatform(c) \/ GoRoute(c)
                                => config'.key = c.key
        BY DEF GoPlatform, GoRoute, Show, Config
      <3>3. CASE Search \/ SearchNearHome \/ NoResults \/ AllDestinations \/ ChooseJourney
        BY <1>1, <1>3, <3>1, <3>3
        DEF Search, SearchNearHome, NoResults, AllDestinations, ChooseJourney, Show, Config
      <3>4. ASSUME NEW s \in Stops,
                   SelectDest(s) \/ SelectTransfer(s) \/ SelectFinal(s)
            PROVE  KeyKnown'
        BY <1>1, <1>3, <3>1, <3>4
        DEF SelectDest, SelectTransfer, SelectFinal, Show, Config
      <3>5. ASSUME NEW s \in Stops, SelectStop(s) PROVE KeyKnown'
        <4>1. [config EXCEPT !.stop = s] \in Config
          BY <1>1, ConfigTyped
        <4>2. [config EXCEPT !.stop = s].key = config.key
          BY <1>1 DEF Config
        <4> QED
          BY <1>3, <3>1, <3>2, <3>5, <4>1, <4>2 DEF SelectStop
      <3>6. ASSUME NEW r, SelectLine(r) PROVE KeyKnown'
        <4>1. [config EXCEPT !.line = r] \in Config
          BY <1>1, <3>6, ConfigTyped DEF SelectLine, Typed, OfferTyped
        <4>2. [config EXCEPT !.line = r].key = config.key
          BY <1>1 DEF Config
        <4> QED
          BY <1>3, <3>1, <3>2, <3>6, <4>1, <4>2 DEF SelectLine
      <3>7. ASSUME NEW p, SelectPlatform(p) PROVE KeyKnown'
        BY <1>1, <1>3, <3>1, <3>7 DEF SelectPlatform, Show, Config
      <3> QED
        BY <2>2, <3>3, <3>4, <3>5, <3>6, <3>7 DEF WatchSteps
    <2> QED
      BY <1>8, <2>1, <2>2
  <1>9. CASE TrackerSteps
    <2>1. CASE VehicleTrackerName
      BY <1>4, <2>1 DEF VehicleTrackerName
    <2>2. CASE RouteTrackerConfirm
      BY <1>4, <2>2 DEF RouteTrackerConfirm, KeyKnown
    <2>3. ASSUME NEW i \in Ids, SelectParent(i) PROVE KeyKnown'
      BY <1>1, <1>3, <2>3 DEF SelectParent, Show, Over, World, Config
    <2>4. ASSUME NEW r \in Routes, SelectRoute(r) PROVE KeyKnown'
      BY <1>1, <1>3, <2>4 DEF SelectRoute, Show, World, Config
    <2>5. CASE ChooseFilter \/ SetProximity
      BY <1>3, <2>5 DEF ChooseFilter, SetProximity, Show, World
    <2>6. ASSUME NEW s \in Stops, SelectReference(s) PROVE KeyKnown'
      BY <1>1, <1>3, <2>6 DEF SelectReference, Show, World, Config
    <2> QED
      BY <1>9, <2>1, <2>2, <2>3, <2>4, <2>5, <2>6 DEF TrackerSteps
  <1>10. CASE Around
    <2>1. CASE Close
      BY <1>2, <2>1 DEF Close, Over, Show
    <2>2. ASSUME NEW i \in Ids, RemoveEntry(i) PROVE KeyKnown'
      BY <1>1, <2>2 DEF RemoveEntry, Gone, flow, KeyKnown, OfType
    <2>3. ASSUME UNCHANGED <<step, config, entries>> PROVE KeyKnown'
      BY <2>3 DEF KeyKnown, OfType
    <2> QED
      BY <1>10, <2>1, <2>2, <2>3
      DEF Around, RefreshWorks, RefreshFails, RefreshAll, SetupWatch,
          OrphanWorks, OrphanFails, flow
  <1>11. CASE UNCHANGED vars
    BY <1>11 DEF vars, KeyKnown, OfType
  <1> QED
    BY <1>5, <1>6, <1>7, <1>8, <1>9, <1>10, <1>11 DEF Next

(* Nobody gets past the key form without a key, though the entries it was  *)
(* taken from come and go, and no entry that polls is created without one. *)
THEOREM KeysKnown == Spec => []KeyKnown
  <1>1. Init => KeyKnown
    BY DEF Init, KeyKnown, OfType, Gone
  <1> QED
    BY <1>1, InitTyped, StepTyped, StepKeepsKeys, PTL DEF Spec

------------------------------------------------------------------------------
(* Imports before searches.                                                *)

LEMMA StepKeepsImported == Typed /\ Imported /\ [Next]_vars => Imported'
  <1> SUFFICES ASSUME Typed, Imported, [Next]_vars PROVE Imported'
    OBVIOUS
  <1>1. /\ config \in Config
        /\ db \in [rel : Releases, ready : SUBSET Modes]
        /\ step \in Early => dbTask = "none"
    BY DEF Typed, TypeOK, ModeChosen
  <1>2. ASSUME db' = db, seen' = seen,
               step' \in BeforeImport \/ config'.mode \in seen,
               dbTask' = "done" => config'.mode \in seen
        PROVE  Imported'
    BY <1>2 DEF Imported, ImportComesFirst
  <1>3. ASSUME UNCHANGED <<db, seen>>, step \notin BeforeImport,
               step' = "closed" \/ config'.mode = config.mode,
               dbTask' = "none" \/ (dbTask' = dbTask /\ config'.mode = config.mode)
        PROVE  Imported'
    BY <1>2, <1>3 DEF Imported, ImportComesFirst, BeforeImport
  <1>4. ASSUME NEW t, NEW c, Create(t, c) PROVE Imported'
    BY <1>2, <1>4 DEF Create, Over, Show, BeforeImport
  <1>5. CASE Starts
    BY <1>1, <1>2, <1>5
    DEF Starts, Open, SubmitKey, ChooseEntryType, Show, Over, Waits, World,
        Early, BeforeImport
  <1>6. CASE Awaits
    <2>1. db' = db /\ seen' = seen
      BY <1>6 DEF Awaits, DownloadingDone, PollSees, ImportingDone, World
    <2>2. CASE PollSees
      BY <2>1, <2>2
      DEF PollSees, ModeReady, Imported, ImportComesFirst, World
    <2>3. ASSUME GoPost, config.mode \in seen PROVE Imported'
      BY <1>2, <2>1, <2>3
      DEF GoPost, GoRouteTrackerRoute, Show, Over, Waits, BeforeImport
    <2>4. CASE DownloadingDone
      <3>1. ModeReady(config.mode) => config.mode \in seen
        BY DEF ModeReady, Imported
      <3>2. CASE ~ModeReady(config.mode)
        BY <1>2, <2>1, <2>4, <3>2 DEF DownloadingDone, Show, BeforeImport
      <3> QED
        BY <2>3, <2>4, <3>1, <3>2 DEF DownloadingDone
    <2>5. CASE ImportingDone
      BY <2>3, <2>5 DEF ImportingDone, Imported
    <2> QED
      BY <1>6, <2>2, <2>4, <2>5 DEF Awaits
  <1>7. ASSUME NEW m \in Modes, ChooseMode(m) \/ ChooseTrackerMode(m)
        PROVE  Imported'
    <2>1. db' = db /\ seen' = seen /\ dbTask = "none"
      BY <1>1, <1>7 DEF ChooseMode, ChooseTrackerMode, World, Early
    <2>2. [config EXCEPT !.mode = m].mode = m
      BY <1>1 DEF Config
    <2>3. ModeReady(m) => m \in seen
      BY DEF ModeReady, Imported
    <2>4. \/ step' = "closed" /\ dbTask' = "none"
          \/ dbTask' = "none" /\ config' = [config EXCEPT !.mode = m]
             /\ (step' = "downloading" \/ ModeReady(m))
      BY <1>7, <2>1
      DEF ChooseMode, ChooseTrackerMode, GoDownloading, GoRouteTrackerRoute,
          Show, Over, Waits
    <2> QED
      BY <1>2, <2>1, <2>2, <2>3, <2>4 DEF BeforeImport
  <1>8. CASE WatchSteps
    <2>1. CASE Confirm
      BY <1>4, <2>1 DEF Confirm
    <2>2. CASE WatchSteps /\ ~Confirm
      <3>1. step \notin BeforeImport /\ UNCHANGED <<db, seen, dbTask>>
        BY <2>2 DEF WatchSteps, Search, SearchNearHome, NoResults, SelectStop, SelectLine,
                    SelectPlatform, AllDestinations, ChooseJourney, SelectDest,
                    SelectTransfer, SelectFinal, World, Waits, BeforeImport
      <3>2. \A c \in Config : GoPlatform(c) \/ GoRoute(c)
                                => config'.mode = c.mode
        BY DEF GoPlatform, GoRoute, Show, Config
      <3>3. CASE Search \/ SearchNearHome \/ NoResults \/ AllDestinations \/ ChooseJourney
        BY <1>1, <1>3, <3>1, <3>3
        DEF Search, SearchNearHome, NoResults, AllDestinations, ChooseJourney, Show, Config
      <3>4. ASSUME NEW s \in Stops,
                   SelectDest(s) \/ SelectTransfer(s) \/ SelectFinal(s)
            PROVE  Imported'
        BY <1>1, <1>3, <3>1, <3>4
        DEF SelectDest, SelectTransfer, SelectFinal, Show, Config
      <3>5. ASSUME NEW s \in Stops, SelectStop(s) PROVE Imported'
        <4>1. [config EXCEPT !.stop = s] \in Config
          BY <1>1, ConfigTyped
        <4>2. [config EXCEPT !.stop = s].mode = config.mode
          BY <1>1 DEF Config
        <4> QED
          BY <1>3, <3>1, <3>2, <3>5, <4>1, <4>2 DEF SelectStop
      <3>6. ASSUME NEW r, SelectLine(r) PROVE Imported'
        <4>1. [config EXCEPT !.line = r] \in Config
          BY <1>1, <3>6, ConfigTyped DEF SelectLine, Typed, OfferTyped
        <4>2. [config EXCEPT !.line = r].mode = config.mode
          BY <1>1 DEF Config
        <4> QED
          BY <1>3, <3>1, <3>2, <3>6, <4>1, <4>2 DEF SelectLine
      <3>7. ASSUME NEW p, SelectPlatform(p) PROVE Imported'
        BY <1>1, <1>3, <3>1, <3>7 DEF SelectPlatform, Show, Config
      <3> QED
        BY <2>2, <3>3, <3>4, <3>5, <3>6, <3>7 DEF WatchSteps
    <2> QED
      BY <1>8, <2>1, <2>2
  <1>9. CASE TrackerSteps
    <2>1. CASE VehicleTrackerName \/ RouteTrackerConfirm
      BY <1>4, <2>1 DEF VehicleTrackerName, RouteTrackerConfirm
    <2>2. ASSUME NEW i \in Ids, SelectParent(i) PROVE Imported'
      BY <1>1, <1>2, <2>2
      DEF SelectParent, Show, Over, World, Waits, BeforeImport, Early
    <2>3. ASSUME NEW r \in Routes, SelectRoute(r) PROVE Imported'
      BY <1>1, <1>3, <2>3
      DEF SelectRoute, Show, World, Waits, Config, BeforeImport
    <2>4. CASE ChooseFilter \/ SetProximity
      BY <1>3, <2>4
      DEF ChooseFilter, SetProximity, Show, World, Waits, BeforeImport
    <2>5. ASSUME NEW s \in Stops, SelectReference(s) PROVE Imported'
      BY <1>1, <1>3, <2>5
      DEF SelectReference, Show, World, Waits, Config, BeforeImport
    <2> QED
      BY <1>9, <2>1, <2>2, <2>3, <2>4, <2>5 DEF TrackerSteps
  <1>10. CASE Around
    <2>1. CASE Close
      BY <1>2, <2>1 DEF Close, Over, Show, BeforeImport
    <2>2. ASSUME UNCHANGED <<db, seen, step, config, dbTask>> PROVE Imported'
      BY <2>2 DEF Imported, ImportComesFirst
    <2>3. ASSUME NEW ms, Imports(ms), UNCHANGED <<step, config, dbTask>>
          PROVE  Imported'
      <3>1. seen' = seen \cup ms /\ db'.ready \subseteq db.ready \cup ms
        BY <1>1, <2>3 DEF Imports
      <3> QED
        BY <2>3, <3>1 DEF Imported, ImportComesFirst
    <2> QED
      BY <1>10, <2>1, <2>2, <2>3
      DEF Around, RemoveEntry, RefreshWorks, RefreshFails, RefreshAll,
          SetupWatch, OrphanWorks, OrphanFails, flow
  <1>11. CASE UNCHANGED vars
    BY <1>11 DEF vars, Imported, ImportComesFirst
  <1> QED
    BY <1>5, <1>6, <1>7, <1>8, <1>9, <1>10, <1>11 DEF Next

(* No search comes before the bundles of the flow's mode were imported,    *)
(* though the refresh it waited for may fail, another one bring them, and  *)
(* the dialog be closed and opened again.                                  *)
THEOREM ImportsComeFirst == Spec => []ImportComesFirst
  <1>1. Init => Imported
    BY DEF Init, Imported, ImportComesFirst, BeforeImport
  <1>2. Imported => ImportComesFirst
    BY DEF Imported
  <1> QED
    BY <1>1, <1>2, InitTyped, StepTyped, StepKeepsImported, PTL DEF Spec

------------------------------------------------------------------------------
(* Hops.                                                                   *)

(* What validate_route says was so in some release up to now.              *)
LEMMA Validated ==
  ASSUME Typed, NEW f, NEW t, NEW m, Validate(f, t, m)
  PROVE  DirectBy(db.rel, f, t, m)
  <1>1. db.rel \in Releases
    BY DEF Typed, TypeOK
  <1>2. db.rel \in 1 .. db.rel
    BY <1>1, FlowAssumption DEF Releases
  <1>3. PICK l \in Rows(RouteTypes[m]) : l.from = f /\ l.to = t
    BY DEF Validate
  <1>4. l \in Legs[db.rel] /\ l.type \in RouteTypes[m]
    BY <1>3 DEF Rows
  <1> QED
    BY <1>2, <1>3, <1>4 DEF DirectBy

LEMMA LaterToo ==
  ASSUME NEW n \in Nat, NEW k \in Nat, n <= k
  PROVE  /\ \A f, t, m : DirectBy(n, f, t, m) => DirectBy(k, f, t, m)
         /\ \A c : Reachable(n, c) => Reachable(k, c)
  <1>1. 1 .. n \subseteq 1 .. k
    OBVIOUS
  <1>2. \A f, t, m : DirectBy(n, f, t, m) => DirectBy(k, f, t, m)
    BY <1>1 DEF DirectBy
  <1> QED
    BY <1>2 DEF Reachable

LEMMA StepKeepsHops == Typed /\ Hops /\ [Next]_vars => Hops'
  <1> SUFFICES ASSUME Typed, Hops, [Next]_vars PROVE Hops'
    OBVIOUS
  <1>1. /\ config \in Config
        /\ entries \in [Ids -> [type : EntryTypes, conf : Config]]
        /\ db \in [rel : Releases, ready : SUBSET Modes]
    BY DEF Typed, TypeOK
  <1>2. ASSUME UNCHANGED <<db, entries>>,
               step' \notin {"journey_dest", "confirm"},
               config'.transfer = None
        PROVE  Hops'
    BY <1>2 DEF Hops, WatchesReachable, Watches, OfType
  <1>3. ASSUME UNCHANGED <<db, entries>>, step' = "confirm",
               Reachable(db.rel, config')
        PROVE  Hops'
    BY <1>3 DEF Hops, WatchesReachable, Watches, OfType
  <1>4. ASSUME NEW t, NEW c, Create(t, c),
               t = "watch" => Reachable(db.rel, c)
        PROVE  Hops'
    <2>1. PICK i \in Ids :
            entries' = [entries EXCEPT ![i] = [type |-> t, conf |-> c]]
      BY <1>4 DEF Create
    <2>2. step' = "closed" /\ config'.transfer = None /\ db' = db
      BY <1>4 DEF Create, Over, Show, Blank
    <2> QED
      BY <1>1, <1>4, <2>1, <2>2 DEF Hops, WatchesReachable, Watches, OfType
  <1>5. CASE Starts
    BY <1>1, <1>2, <1>5
    DEF Starts, Open, SubmitKey, ChooseEntryType, Show, Over, World, Blank,
        Hops, Config
  <1>6. CASE Awaits
    <2>1. step \in {"downloading", "importing"} => config.transfer = None
      BY DEF Hops
    <2>2. CASE PollSees
      BY <2>2 DEF PollSees, World, Hops, WatchesReachable, Watches, OfType
    <2> QED
      BY <1>2, <1>6, <2>1, <2>2
      DEF Awaits, DownloadingDone, ImportingDone, GoPost, GoRouteTrackerRoute,
          Show, Over, World, Blank
  <1>7. ASSUME NEW m \in Modes, ChooseMode(m) \/ ChooseTrackerMode(m)
        PROVE  Hops'
    BY <1>1, <1>2, <1>7
    DEF ChooseMode, ChooseTrackerMode, GoDownloading, GoRouteTrackerRoute,
        Show, Over, World, Blank, Hops, Config
  <1>8. CASE WatchSteps
    <2> USE DEF World
    <2>1. CASE Confirm
      BY <1>4, <2>1 DEF Confirm, Hops
    <2>2. \A c \in Config : GoPlatform(c) \/ GoRoute(c)
            => step' \in {"dest", "platform", "route"}
               /\ config'.transfer = c.transfer
      BY DEF GoPlatform, GoRoute, Show, Config
    <2>3. CASE Search \/ SearchNearHome \/ NoResults
      <3>1. config' = config /\ step' = step /\ UNCHANGED <<db, entries>>
        BY <2>3 DEF Search, SearchNearHome, NoResults, Show
      <3> QED
        BY <3>1 DEF Hops, WatchesReachable, Watches, OfType
    <2>4. CASE AllDestinations
      <3>1. config.transfer = None
        BY <2>4 DEF AllDestinations, Hops
      <3>2. config' = [config EXCEPT !.kind = "all", !.dest = None]
            /\ step' = "confirm" /\ UNCHANGED <<db, entries>>
        BY <2>4 DEF AllDestinations, Show
      <3>3. Reachable(db.rel, config')
        BY <1>1, <3>1, <3>2 DEF Reachable, Config
      <3> QED
        BY <1>3, <3>2, <3>3
    <2>5. CASE ChooseJourney
      BY <1>2, <2>5 DEF ChooseJourney, Show, Hops
    <2>6. ASSUME NEW s \in Stops, SelectDest(s) PROVE Hops'
      <3>1. config.transfer = None
        BY <2>6 DEF SelectDest, Hops
      <3>2. config' = [config EXCEPT !.kind = "specific", !.dest = s]
            /\ step' = "confirm" /\ UNCHANGED <<db, entries>>
        BY <2>6 DEF SelectDest, Show
      <3>3. DirectBy(db.rel, config.stop, s, config.mode)
        BY <2>6, Validated DEF SelectDest
      <3>4. Reachable(db.rel, config')
        BY <1>1, <3>1, <3>2, <3>3 DEF Reachable, Config
      <3> QED
        BY <1>3, <3>2, <3>4
    <2>7. ASSUME NEW s \in Stops, SelectTransfer(s) PROVE Hops'
      <3>1. config' = [config EXCEPT !.transfer = s]
            /\ step' = "journey_dest" /\ UNCHANGED <<db, entries>>
        BY <2>7 DEF SelectTransfer, Show
      <3>2. DirectBy(db.rel, config.stop, s, config.mode)
        BY <2>7, Validated DEF SelectTransfer
      <3>3. DirectBy(db.rel, config'.stop, config'.transfer, config'.mode)
        BY <1>1, <3>1, <3>2 DEF Config
      <3> QED
        BY <3>1, <3>3 DEF Hops, WatchesReachable, Watches, OfType
    <2>8. ASSUME NEW s \in Stops, SelectFinal(s) PROVE Hops'
      <3>1. config' = [config EXCEPT !.kind = "journey", !.dest = s]
            /\ step' = "confirm" /\ UNCHANGED <<db, entries>>
        BY <2>8 DEF SelectFinal, Show
      <3>2. DirectBy(db.rel, config.transfer, s, config.mode)
        BY <2>8, Validated DEF SelectFinal, FinalService
      <3>3. DirectBy(db.rel, config.stop, config.transfer, config.mode)
        BY <2>8 DEF SelectFinal, Hops
      <3>4. Reachable(db.rel, config')
        BY <1>1, <3>1, <3>2, <3>3 DEF Reachable, Config
      <3> QED
        BY <1>3, <3>1, <3>4
    <2>9. ASSUME NEW s \in Stops, SelectStop(s) PROVE Hops'
      <3>1. [config EXCEPT !.stop = s] \in Config
        BY <1>1, ConfigTyped
      <3>2. [config EXCEPT !.stop = s].transfer = None
        BY <1>1, <2>9 DEF SelectStop, Hops, Config
      <3> QED
        BY <1>2, <2>2, <2>9, <3>1, <3>2 DEF SelectStop
    <2>10. ASSUME NEW r, SelectLine(r) PROVE Hops'
      <3>1. [config EXCEPT !.line = r] \in Config
        BY <1>1, <2>10, ConfigTyped DEF SelectLine, Typed, OfferTyped
      <3>2. [config EXCEPT !.line = r].transfer = None
        BY <1>1, <2>10 DEF SelectLine, Hops, Config
      <3> QED
        BY <1>2, <2>2, <2>10, <3>1, <3>2 DEF SelectLine
    <2>11. ASSUME NEW p, SelectPlatform(p) PROVE Hops'
      BY <1>1, <1>2, <2>11 DEF SelectPlatform, Show, Hops, Config
    <2> QED
      BY <1>8, <2>1, <2>3, <2>4, <2>5, <2>6, <2>7, <2>8, <2>9, <2>10, <2>11
      DEF WatchSteps
  <1>9. CASE TrackerSteps
    <2>1. CASE VehicleTrackerName \/ RouteTrackerConfirm
      BY <1>4, <2>1 DEF VehicleTrackerName, RouteTrackerConfirm
    <2>2. ASSUME NEW i \in Ids, SelectParent(i) PROVE Hops'
      BY <1>1, <1>2, <2>2
      DEF SelectParent, Show, Over, World, Blank, Hops, Config
    <2>3. ASSUME NEW r \in Routes, SelectRoute(r) PROVE Hops'
      BY <1>1, <1>2, <2>3 DEF SelectRoute, Show, World, Hops, Config
    <2>4. CASE ChooseFilter \/ SetProximity
      BY <1>2, <2>4 DEF ChooseFilter, SetProximity, Show, World, Hops
    <2>5. ASSUME NEW s \in Stops, SelectReference(s) PROVE Hops'
      BY <1>1, <1>2, <2>5 DEF SelectReference, Show, World, Hops, Config
    <2> QED
      BY <1>9, <2>1, <2>2, <2>3, <2>4, <2>5 DEF TrackerSteps
  <1>10. CASE Around
    <2>1. CASE Close
      BY <1>2, <2>1 DEF Close, Over, Show, Blank
    <2>2. ASSUME NEW i \in Ids, RemoveEntry(i) PROVE Hops'
      BY <1>1, <2>2
      DEF RemoveEntry, Gone, flow, Hops, WatchesReachable, Watches, OfType
    <2>3. ASSUME UNCHANGED <<step, config, entries>>,
                 db'.rel \in Nat, db.rel <= db'.rel
          PROVE  Hops'
      <3>1. db.rel \in Nat
        BY <1>1, FlowAssumption DEF Releases
      <3>2. /\ \A f, t, m :
                 DirectBy(db.rel, f, t, m) => DirectBy(db'.rel, f, t, m)
            /\ \A c : Reachable(db.rel, c) => Reachable(db'.rel, c)
        BY <2>3, <3>1, LaterToo
      <3>3. Watches' = Watches
        BY <2>3 DEF Watches, OfType
      <3> QED
        BY <2>3, <3>2, <3>3 DEF Hops, WatchesReachable
    <2>4. ASSUME NEW ms, Imports(ms), UNCHANGED <<step, config, entries>>
          PROVE  Hops'
      <3>1. db.rel \in Nat
        BY <1>1, FlowAssumption DEF Releases
      <3>2. db'.rel \in Nat /\ db.rel <= db'.rel
        BY <1>1, <2>4, <3>1 DEF Imports
      <3> QED
        BY <2>3, <2>4, <3>2
    <2>5. ASSUME UNCHANGED <<step, config, entries, db>> PROVE Hops'
      BY <2>5 DEF Hops, WatchesReachable, Watches, OfType
    <2> QED
      BY <1>10, <2>1, <2>2, <2>4, <2>5
      DEF Around, RefreshWorks, RefreshFails, RefreshAll, SetupWatch,
          OrphanWorks, OrphanFails, flow
  <1>11. CASE UNCHANGED vars
    BY <1>11 DEF vars, Hops, WatchesReachable, Watches, OfType
  <1> QED
    BY <1>5, <1>6, <1>7, <1>8, <1>9, <1>10, <1>11 DEF Next

(* Every hop of a watch was found to be a direct service, in this order of *)
(* stops, by some release up to now, however the schedule was replaced     *)
(* between the forms.                                                      *)
THEOREM WatchesAreReachable == Spec => []WatchesReachable
  <1>1. Init => Hops
    BY DEF Init, Hops, WatchesReachable, Watches, OfType, Gone, Blank
  <1>2. Hops => WatchesReachable
    BY DEF Hops
  <1> QED
    BY <1>1, <1>2, InitTyped, StepTyped, StepKeepsHops, PTL DEF Spec

------------------------------------------------------------------------------
(* Filters.                                                                *)

LineAt(n, s, r) ==
  \E k \in 1 .. n : \E l \in Legs[k] : l.route = r /\ CallsAt(l, Siblings[s])
PlatformAt(s, p) == \E q \in Siblings[s] : Code[q] = p

(* The forms after which a filter is set. *)
Filtered == {"platform", "dest", "journey", "journey_dest", "confirm"}

(* What is known of the filters before the entry is created: none is set   *)
(* when the stop changes, and what is offered is of the chosen station.    *)
Filters ==
  /\ step \notin Filtered => config.line = None /\ config.platform = None
  /\ step = "route" => \A r \in offer : LineAt(db.rel, config.stop, r)
  /\ step = "platform" => \A p \in offer : PlatformAt(config.stop, p)
  /\ Served(config)
  /\ FiltersServed

LEMMA ServedMeans ==
  ASSUME NEW c
  PROVE  Served(c) <=> /\ c.line # None => LineAt(db.rel, c.stop, c.line)
                       /\ c.platform # None => PlatformAt(c.stop, c.platform)
  BY DEF Served, LineAt, PlatformAt

(* The queries of the filter forms answer with what the station has. *)
LEMMA OffersServed ==
  ASSUME Typed, NEW s \in Stops, NEW m
  PROVE  /\ \A r \in LinesAt(s, m) : LineAt(db.rel, s, r)
         /\ \A p \in PlatformsAt(s) : PlatformAt(s, p)
  <1>1. db.rel \in 1 .. db.rel
    BY FlowAssumption DEF Typed, TypeOK, Releases
  <1>2. ASSUME NEW r \in LinesAt(s, m)
        PROVE  LineAt(db.rel, s, r)
    <2>1. PICK l \in Legs[db.rel] : r = l.route /\ CallsAt(l, Siblings[s])
      BY <1>2 DEF LinesAt, Rows
    <2> QED
      BY <1>1, <2>1 DEF LineAt
  <1>3. \A p \in PlatformsAt(s) : PlatformAt(s, p)
    BY DEF PlatformsAt, PlatformAt
  <1> QED
    BY <1>2, <1>3

LEMMA ServedLaterToo ==
  ASSUME NEW n \in Nat, NEW k \in Nat, n <= k
  PROVE  \A s, r : LineAt(n, s, r) => LineAt(k, s, r)
  <1>1. 1 .. n \subseteq 1 .. k
    OBVIOUS
  <1> QED
    BY <1>1 DEF LineAt

LEMMA GoPlatformFilters ==
  ASSUME Typed, Filters, UNCHANGED <<db, entries>>,
         NEW c \in Config, c.stop \in Stops, Served(c), GoPlatform(c)
  PROVE  Filters'
  <1> DEFINE d == [c EXCEPT !.platform = None]
  <1>1. FiltersServed' /\ Served(c)'
    BY DEF Filters, FiltersServed, Served, Watches, OfType
  <1>2. CASE Show("dest", {}, d)
    <2>1. d.line = c.line /\ d.stop = c.stop /\ d.platform = None
      BY DEF Config
    <2>2. Served(d)'
      BY <1>1, <2>1 DEF Served
    <2> HIDE DEF d
    <2>3. step' = "dest" /\ config' = d
      BY <1>2 DEF Show
    <2>4. Served(config)'
      BY <2>2, <2>3 DEF Served
    <2> QED
      BY <1>1, <2>3, <2>4 DEF Filters, Filtered
  <1>3. CASE Show("platform", PlatformsAt(c.stop), c)
    <2>1. step' = "platform" /\ config' = c /\ offer' = PlatformsAt(c.stop)
      BY <1>3 DEF Show
    <2>2. \A p \in offer' : PlatformAt(config'.stop, p)
      BY <2>1, OffersServed
    <2>3. Served(config)'
      BY <1>1, <2>1 DEF Served
    <2> QED
      BY <1>1, <2>1, <2>2, <2>3 DEF Filters, Filtered
  <1> QED
    BY <1>2, <1>3 DEF GoPlatform

LEMMA StepKeepsFilters == Typed /\ Filters /\ [Next]_vars => Filters'
  <1> SUFFICES ASSUME Typed, Filters, [Next]_vars PROVE Filters'
    OBVIOUS
  <1>1. /\ config \in Config
        /\ entries \in [Ids -> [type : EntryTypes, conf : Config]]
        /\ db \in [rel : Releases, ready : SUBSET Modes]
    BY DEF Typed, TypeOK
  <1>2. ASSUME UNCHANGED <<db, entries>>,
               step' \notin {"route", "platform"},
               config'.line = None /\ config'.platform = None
        PROVE  Filters'
    BY <1>2 DEF Filters, FiltersServed, Served, Watches, OfType
  <1>3. ASSUME UNCHANGED <<db, entries>>,
               step' \in Filtered \ {"platform"},
               config'.stop = config.stop /\ config'.line = config.line,
               \/ config'.platform = config.platform
               \/ config'.platform = None
               \/ PlatformAt(config.stop, config'.platform)
        PROVE  Filters'
    <2>1. Served(config')
      BY <1>3, ServedMeans DEF Filters
    <2>2. Served(config)'
      BY <1>3, <2>1 DEF Served
    <2> QED
      BY <1>3, <2>2 DEF Filters, FiltersServed, Served, Watches, OfType, Filtered
  <1>4. ASSUME NEW t, NEW c, Create(t, c), t = "watch" => Served(c)
        PROVE  Filters'
    <2>1. PICK i \in Ids :
            entries' = [entries EXCEPT ![i] = [type |-> t, conf |-> c]]
      BY <1>4 DEF Create
    <2>2. /\ step' = "closed" /\ db' = db
          /\ config'.line = None /\ config'.platform = None
      BY <1>4 DEF Create, Over, Show, Blank
    <2>3. FiltersServed'
      BY <1>1, <1>4, <2>1, <2>2
      DEF Filters, FiltersServed, Served, Watches, OfType
    <2> QED
      BY <2>2, <2>3 DEF Filters, Served
  <1>5. CASE Starts
    BY <1>1, <1>2, <1>5
    DEF Starts, Open, SubmitKey, ChooseEntryType, Show, Over, World, Blank,
        Filters, Filtered, Config
  <1>6. CASE Awaits
    <2>1. step \in {"downloading", "importing"} =>
            config.line = None /\ config.platform = None
      BY DEF Filters, Filtered
    <2>2. CASE PollSees
      BY <2>2 DEF PollSees, World, Filters, FiltersServed, Served, Watches, OfType
    <2> QED
      BY <1>2, <1>6, <2>1, <2>2
      DEF Awaits, DownloadingDone, ImportingDone, GoPost, GoRouteTrackerRoute,
          Show, Over, World, Blank
  <1>7. ASSUME NEW m \in Modes, ChooseMode(m) \/ ChooseTrackerMode(m)
        PROVE  Filters'
    <2>1. config.line = None /\ config.platform = None
      BY <1>7 DEF ChooseMode, ChooseTrackerMode, Filters, Filtered
    <2>2. /\ UNCHANGED <<db, entries>>
          /\ step' \in {"closed", "stop", "route_tracker_route", "downloading"}
          /\ config' \in {Blank, [config EXCEPT !.mode = m]}
      BY <1>7 DEF ChooseMode, ChooseTrackerMode, GoDownloading,
                  GoRouteTrackerRoute, Show, Over, World
    <2>3. config'.line = None /\ config'.platform = None
      BY <1>1, <2>1, <2>2 DEF Blank, Config
    <2> QED
      BY <1>2, <2>2, <2>3
  <1>8. CASE WatchSteps
    <2> USE DEF World
    <2>1. CASE Confirm
      BY <1>4, <2>1 DEF Confirm, Filters
    <2>2. CASE Search \/ SearchNearHome \/ NoResults
      <3>1. /\ config' = config /\ step' = step /\ UNCHANGED <<db, entries>>
            /\ step \in {"stop", "dest", "journey", "journey_dest"}
        BY <2>2 DEF Search, SearchNearHome, NoResults, Show
      <3> QED
        BY <3>1 DEF Filters, FiltersServed, Served, Watches, OfType
    <2>3. CASE AllDestinations \/ ChooseJourney
      BY <1>1, <1>3, <2>3
      DEF AllDestinations, ChooseJourney, Show, Filtered, Config
    <2>4. ASSUME NEW s \in Stops,
                 SelectDest(s) \/ SelectTransfer(s) \/ SelectFinal(s)
          PROVE  Filters'
      BY <1>1, <1>3, <2>4
      DEF SelectDest, SelectTransfer, SelectFinal, Show, Filtered, Config
    <2>5. ASSUME NEW s \in Stops, SelectStop(s) PROVE Filters'
      <3> DEFINE c == [config EXCEPT !.stop = s]
                 d == [c EXCEPT !.line = None]
      <3>1. c \in Config /\ d \in Config
        BY <1>1, ConfigTyped
      <3>2. /\ c.stop = s /\ c.line = None /\ c.platform = None
            /\ d.stop = s /\ d.line = None /\ d.platform = None
        BY <1>1, <2>5 DEF SelectStop, Filters, Filtered, Config
      <3>3. GoRoute(c) /\ UNCHANGED <<db, entries>>
        BY <2>5 DEF SelectStop
      <3>4. GoPlatform(d) \/ Show("route", LinesAt(c.stop, c.mode), c)
        BY <3>3 DEF GoRoute
      <3> HIDE DEF c, d
      <3>5. Served(d)
        BY <3>2 DEF Served
      <3>6. CASE GoPlatform(d)
        BY <3>1, <3>2, <3>3, <3>5, <3>6, GoPlatformFilters
      <3>7. CASE Show("route", LinesAt(c.stop, c.mode), c)
        <4>1. step' = "route" /\ config' = c /\ offer' = LinesAt(s, c.mode)
          BY <3>2, <3>7 DEF Show
        <4>2. \A r \in offer' : LineAt(db'.rel, config'.stop, r)
          BY <3>2, <3>3, <4>1, OffersServed
        <4>3. FiltersServed'
          BY <3>3 DEF Filters, FiltersServed, Served, Watches, OfType
        <4> QED
          BY <3>2, <4>1, <4>2, <4>3 DEF Filters, Served
      <3> QED
        BY <3>4, <3>6, <3>7
    <2>6. ASSUME NEW r, SelectLine(r) PROVE Filters'
      <3> DEFINE c == [config EXCEPT !.line = r]
      <3>1. /\ step = "route" /\ r \in offer \cup {None} /\ GoPlatform(c)
            /\ UNCHANGED <<db, entries>>
        BY <2>6 DEF SelectLine
      <3>2. c \in Config /\ config.stop \in Stops
        BY <1>1, <3>1, ConfigTyped DEF Typed, OfferTyped, StopChosen
      <3>3. c.stop = config.stop /\ c.line = r /\ c.platform = None
        BY <1>1, <3>1 DEF Config, Filters, Filtered
      <3> HIDE DEF c
      <3>4. Served(c)
        BY <3>1, <3>3, ServedMeans DEF Filters
      <3> QED
        BY <3>1, <3>2, <3>3, <3>4, GoPlatformFilters
    <2>7. ASSUME NEW p, SelectPlatform(p) PROVE Filters'
      <3>1. /\ step = "platform" /\ p \in offer \cup {None} /\ step' = "dest"
            /\ config' = [config EXCEPT !.platform = p]
            /\ UNCHANGED <<db, entries>>
        BY <2>7 DEF SelectPlatform, Show
      <3>2. /\ config'.stop = config.stop /\ config'.line = config.line
            /\ config'.platform = p
        BY <1>1, <3>1 DEF Config
      <3>3. p = None \/ PlatformAt(config.stop, p)
        BY <3>1 DEF Filters
      <3> QED
        BY <1>3, <3>1, <3>2, <3>3 DEF Filtered
    <2> QED
      BY <1>8, <2>1, <2>2, <2>3, <2>4, <2>5, <2>6, <2>7 DEF WatchSteps
  <1>9. CASE TrackerSteps
    <2>1. CASE VehicleTrackerName \/ RouteTrackerConfirm
      BY <1>4, <2>1 DEF VehicleTrackerName, RouteTrackerConfirm
    <2>2. ASSUME NEW i \in Ids, SelectParent(i) PROVE Filters'
      BY <1>1, <1>2, <2>2
      DEF SelectParent, Show, Over, World, Blank, Filters, Filtered, Config
    <2>3. ASSUME NEW r \in Routes, SelectRoute(r) PROVE Filters'
      BY <1>1, <1>2, <2>3 DEF SelectRoute, Show, World, Filters, Filtered, Config
    <2>4. CASE ChooseFilter \/ SetProximity
      BY <1>2, <2>4 DEF ChooseFilter, SetProximity, Show, World, Filters, Filtered
    <2>5. ASSUME NEW s \in Stops, SelectReference(s) PROVE Filters'
      BY <1>1, <1>2, <2>5
      DEF SelectReference, Show, World, Filters, Filtered, Config
    <2> QED
      BY <1>9, <2>1, <2>2, <2>3, <2>4, <2>5 DEF TrackerSteps
  <1>10. CASE Around
    <2>1. CASE Close
      BY <1>2, <2>1 DEF Close, Over, Show, Blank
    <2>2. ASSUME NEW i \in Ids, RemoveEntry(i) PROVE Filters'
      BY <1>1, <2>2
      DEF RemoveEntry, Gone, flow, Filters, FiltersServed, Served, Watches, OfType
    <2>3. ASSUME UNCHANGED <<step, config, offer, entries>>,
                 db'.rel \in Nat, db.rel <= db'.rel
          PROVE  Filters'
      <3>1. db.rel \in Nat
        BY <1>1, FlowAssumption DEF Releases
      <3>2. \A s, r : LineAt(db.rel, s, r) => LineAt(db'.rel, s, r)
        BY <2>3, <3>1, ServedLaterToo
      <3>3. ASSUME NEW c, Served(c) PROVE Served(c)'
        BY <3>2, <3>3 DEF Served, LineAt
      <3>4. Watches' = Watches
        BY <2>3 DEF Watches, OfType
      <3>5. FiltersServed'
        <4>1. ASSUME NEW i \in Watches PROVE Served(entries[i].conf)'
          <5>1. PICK c : c = entries[i].conf
            OBVIOUS
          <5>2. Served(c)'
            BY <3>3, <5>1 DEF Filters, FiltersServed
          <5> QED
            BY <2>3, <5>1, <5>2 DEF Served
        <4> QED
          BY <3>4, <4>1 DEF FiltersServed
      <3>6. Served(config)'
        <4>1. PICK c : c = config
          OBVIOUS
        <4>2. Served(c)'
          BY <3>3, <4>1 DEF Filters
        <4> QED
          BY <2>3, <4>1, <4>2 DEF Served
      <3> QED
        BY <2>3, <3>2, <3>5, <3>6 DEF Filters
    <2>4. ASSUME NEW ms, Imports(ms), UNCHANGED <<step, config, offer, entries>>
          PROVE  Filters'
      <3>1. db.rel \in Nat
        BY <1>1, FlowAssumption DEF Releases
      <3>2. db'.rel \in Nat /\ db.rel <= db'.rel
        BY <1>1, <2>4, <3>1 DEF Imports
      <3> QED
        BY <2>3, <2>4, <3>2
    <2>5. ASSUME UNCHANGED <<step, config, offer, entries, db>> PROVE Filters'
      BY <2>5 DEF Filters, FiltersServed, Served, Watches, OfType
    <2> QED
      BY <1>10, <2>1, <2>2, <2>4, <2>5
      DEF Around, RefreshWorks, RefreshFails, RefreshAll, SetupWatch,
          OrphanWorks, OrphanFails, flow
  <1>11. CASE UNCHANGED vars
    BY <1>11 DEF vars, Filters, FiltersServed, Served, Watches, OfType
  <1> QED
    BY <1>5, <1>6, <1>7, <1>8, <1>9, <1>10, <1>11 DEF Next

(* The line and the platform a watch is filtered by are those of its       *)
(* station in some release up to now, whichever of its platforms the       *)
(* search found and whatever was imported between the forms.               *)
THEOREM FiltersAreServed == Spec => []FiltersServed
  <1>1. Init => Filters
    BY DEF Init, Filters, FiltersServed, Served, Watches, OfType, Gone, Blank
  <1>2. Filters => FiltersServed
    BY DEF Filters
  <1> QED
    BY <1>1, <1>2, InitTyped, StepTyped, StepKeepsFilters, PTL DEF Spec

------------------------------------------------------------------------------
(* Links.                                                                  *)

Trackers == OfType({"vehicle_tracker"})

(* An entry a tracker may be linked to: a watch, or what is left of one,   *)
(* for nobody else gets the id as long as somebody refers to it.           *)
Linkable(i) == entries[i].type \in {"watch", "gone"}

Links ==
  /\ step = "vehicle_tracker" => \A i \in offer : Linkable(i)
  /\ step = "vehicle_tracker_name" => Linkable(config.parent)
  /\ \A i \in Trackers : entries[i].conf.parent \in Ids
  /\ LinkedToWatch

LEMMA StepKeepsLinks == Typed /\ Links /\ [Next]_vars => Links'
  <1> SUFFICES ASSUME Typed, Links, [Next]_vars PROVE Links'
    OBVIOUS
  <1>1. /\ config \in Config
        /\ entries \in [Ids -> [type : EntryTypes, conf : Config]]
    BY DEF Typed, TypeOK
  <1>2. ASSUME entries' = entries,
               step' \notin {"vehicle_tracker", "vehicle_tracker_name"}
        PROVE  Links'
    BY <1>2 DEF Links, LinkedToWatch, Trackers, OfType
  <1>3. ASSUME NEW t \in EntryTypes, NEW c \in Config, Create(t, c),
               t = "vehicle_tracker" =>
                 /\ c.parent \in Ids /\ Linkable(c.parent)
                 /\ c.mode = entries[c.parent].conf.mode
        PROVE  Links'
    <2>1. PICK i \in Ids :
            /\ Free(i) /\ i # c.parent
            /\ entries' = [entries EXCEPT ![i] = [type |-> t, conf |-> c]]
      BY <1>3 DEF Create
    <2>2. step' = "closed"
      BY <1>3 DEF Create, Over, Show
    <2>3. ASSUME NEW j \in Trackers'
          PROVE  /\ entries'[j].conf.parent \in Ids
                 /\ LET parent == entries'[entries'[j].conf.parent]
                    IN \/ parent.type = "gone"
                       \/ /\ parent.type = "watch"
                          /\ parent.conf.mode = entries'[j].conf.mode
      <3>1. CASE j = i
        <4>1. entries'[j] = [type |-> t, conf |-> c] /\ t = "vehicle_tracker"
          BY <1>1, <2>1, <2>3, <3>1 DEF Trackers, OfType
        <4>2. c.parent \in Ids /\ entries'[c.parent] = entries[c.parent]
          BY <1>1, <1>3, <2>1, <4>1
        <4> QED
          BY <1>3, <4>1, <4>2 DEF Linkable
      <3>2. CASE j # i
        <4>1. j \in Ids /\ entries'[j] = entries[j] /\ j \in Trackers
          BY <1>1, <2>1, <2>3, <3>2 DEF Trackers, OfType
        <4>2. entries[j].conf.parent # i /\ entries[j].conf.parent \in Ids
          BY <2>1, <4>1 DEF Free, Alive, Trackers, OfType, Links
        <4>3. entries'[entries[j].conf.parent] = entries[entries[j].conf.parent]
          BY <1>1, <2>1, <4>2
        <4> QED
          BY <4>1, <4>2, <4>3 DEF Links, LinkedToWatch, Trackers
      <3> QED
        BY <3>1, <3>2
    <2> QED
      BY <2>2, <2>3 DEF Links, LinkedToWatch, Trackers
  <1>4. CASE Starts
    <2>1. entries' = entries
      BY <1>4 DEF Starts, Open, SubmitKey, ChooseEntryType, World
    <2>2. CASE step' # "vehicle_tracker"
      BY <1>2, <1>4, <2>1, <2>2
      DEF Starts, Open, SubmitKey, ChooseEntryType, Show, Over
    <2>3. CASE step' = "vehicle_tracker"
      <3>1. offer' = Watches
        BY <1>4, <2>3
        DEF Starts, Open, SubmitKey, ChooseEntryType, Show, Over, Parents
      <3> QED
        BY <2>1, <2>3, <3>1
        DEF Links, Linkable, LinkedToWatch, Trackers, Watches, OfType
    <2> QED
      BY <2>2, <2>3
  <1>5. CASE Awaits
    <2>1. CASE PollSees
      BY <2>1
      DEF PollSees, World, Links, Linkable, LinkedToWatch, Trackers, OfType
    <2> QED
      BY <1>2, <1>5, <2>1
      DEF Awaits, DownloadingDone, ImportingDone, GoPost, GoRouteTrackerRoute,
          Show, Over, World
  <1>6. ASSUME NEW m \in Modes, ChooseMode(m) \/ ChooseTrackerMode(m)
        PROVE  Links'
    BY <1>2, <1>6
    DEF ChooseMode, ChooseTrackerMode, GoDownloading, GoRouteTrackerRoute,
        Show, Over, World
  <1>7. CASE WatchSteps
    <2>1. CASE Confirm
      BY <1>1, <1>3, <2>1 DEF Confirm, EntryTypes
    <2>2. CASE ~Confirm
      <3>1. entries' = entries
        BY <1>7, <2>2
        DEF WatchSteps, Search, SearchNearHome, NoResults, SelectStop,
            SelectLine, SelectPlatform, AllDestinations, ChooseJourney,
            SelectDest, SelectTransfer, SelectFinal, World
      <3>2. \A c : GoPlatform(c) \/ GoRoute(c)
                     => step' \in {"dest", "platform", "route"}
        BY DEF GoPlatform, GoRoute, Show
      <3>3. step' \notin {"vehicle_tracker", "vehicle_tracker_name"}
        BY <1>7, <2>2, <3>2
        DEF WatchSteps, Search, SearchNearHome, NoResults, SelectStop,
            SelectLine, SelectPlatform, AllDestinations, ChooseJourney,
            SelectDest, SelectTransfer, SelectFinal, Show
      <3> QED
        BY <1>2, <3>1, <3>3
    <2> QED
      BY <2>1, <2>2
  <1>8. CASE TrackerSteps
    <2>1. CASE RouteTrackerConfirm
      BY <1>1, <1>3, <2>1 DEF RouteTrackerConfirm, EntryTypes
    <2>2. CASE VehicleTrackerName
      <3> DEFINE m == entries[config.parent].conf.mode
                 c == [Blank EXCEPT !.parent = config.parent, !.mode = m]
      <3>1. /\ config.parent \in Ids /\ Linkable(config.parent)
            /\ Create("vehicle_tracker", c)
        BY <2>2 DEF VehicleTrackerName, Typed, OfferTyped, Links
      <3>2. m \in Modes \cup {None}
        BY <1>1, <3>1 DEF Config
      <3>3. c \in Config /\ c.parent = config.parent /\ c.mode = m
        <4>1. c \in Config
          BY <3>1, <3>2, BlankTyped, ConfigTyped
        <4> QED
          BY <4>1 DEF Blank
      <3>4. "vehicle_tracker" \in EntryTypes
        BY DEF EntryTypes
      <3>5. m = entries[config.parent].conf.mode
        OBVIOUS
      <3> HIDE DEF c, m
      <3> QED
        BY <1>3, <3>1, <3>3, <3>4, <3>5
    <2>3. ASSUME NEW i \in Ids, SelectParent(i) PROVE Links'
      <3>1. /\ step = "vehicle_tracker" /\ i \in offer /\ entries' = entries
            /\ \/ step' = "closed"
               \/ /\ step' = "vehicle_tracker_name"
                  /\ config' = [config EXCEPT !.parent = i]
        BY <2>3 DEF SelectParent, World, Over, Show
      <3>2. CASE step' = "closed"
        BY <1>2, <3>1, <3>2
      <3>3. CASE step' = "vehicle_tracker_name"
                 /\ config' = [config EXCEPT !.parent = i]
        <4>1. config'.parent = i
          BY <1>1, <3>3 DEF Config
        <4> QED
          BY <3>1, <3>3, <4>1 DEF Links, Linkable, LinkedToWatch, Trackers, OfType
      <3> QED
        BY <3>1, <3>2, <3>3
    <2>4. CASE ChooseFilter \/ SetProximity
               \/ (\E r \in Routes : SelectRoute(r))
               \/ (\E s \in Stops : SelectReference(s))
      BY <1>2, <2>4
      DEF SelectRoute, ChooseFilter, SetProximity, SelectReference, Show, World
    <2> QED
      BY <1>8, <2>1, <2>2, <2>3, <2>4 DEF TrackerSteps
  <1>9. CASE Around
    <2>1. CASE Close
      BY <1>2, <2>1 DEF Close, Over, Show
    <2>2. ASSUME NEW i \in Ids, RemoveEntry(i) PROVE Links'
      <3>1. /\ entries' = [entries EXCEPT ![i] = Gone]
            /\ UNCHANGED <<step, config, offer>>
        BY <2>2 DEF RemoveEntry, flow
      <3>2. \A j \in Ids : entries'[j] \in {entries[j], Gone}
        BY <1>1, <3>1
      <3>3. /\ \A j \in Ids : Linkable(j) => Linkable(j)'
            /\ Trackers' \subseteq Trackers
            /\ \A j \in Trackers' : entries'[j] = entries[j]
        BY <3>2 DEF Linkable, Gone, Trackers, OfType
      <3>4. (step = "vehicle_tracker" => offer \subseteq Ids)
            /\ (step = "vehicle_tracker_name" => config.parent \in Ids)
        BY DEF Typed, OfferTyped
      <3>5. ASSUME NEW j \in Trackers'
            PROVE  /\ entries'[j].conf.parent \in Ids
                   /\ LET parent == entries'[entries'[j].conf.parent]
                      IN \/ parent.type = "gone"
                         \/ /\ parent.type = "watch"
                            /\ parent.conf.mode = entries'[j].conf.mode
        <4>1. entries'[j] = entries[j] /\ entries[j].conf.parent \in Ids
          BY <3>3, <3>5 DEF Links
        <4>2. entries'[entries[j].conf.parent]
                \in {entries[entries[j].conf.parent], Gone}
          BY <3>2, <4>1
        <4> QED
          BY <3>3, <3>5, <4>1, <4>2 DEF Links, LinkedToWatch, Trackers, Gone
      <3>6. step' = "vehicle_tracker" => \A j \in offer' : Linkable(j)'
        BY <3>1, <3>3, <3>4 DEF Links
      <3>7. step' = "vehicle_tracker_name" => Linkable(config.parent)'
        <4>1. PICK p : p = config.parent
          OBVIOUS
        <4>2. step = "vehicle_tracker_name" => Linkable(p)'
          BY <3>3, <3>4, <4>1 DEF Links
        <4> QED
          BY <3>1, <4>1, <4>2 DEF Linkable
      <3> QED
        BY <3>5, <3>6, <3>7 DEF Links, LinkedToWatch, Trackers
    <2>3. ASSUME UNCHANGED <<step, config, offer, entries>> PROVE Links'
      BY <2>3 DEF Links, Linkable, LinkedToWatch, Trackers, OfType
    <2> QED
      BY <1>9, <2>1, <2>2, <2>3
      DEF Around, RefreshWorks, RefreshFails, RefreshAll, SetupWatch,
          OrphanWorks, OrphanFails, flow
  <1>10. CASE UNCHANGED vars
    BY <1>10 DEF vars, Links, Linkable, LinkedToWatch, Trackers, OfType
  <1> QED
    BY <1>4, <1>5, <1>6, <1>7, <1>8, <1>9, <1>10 DEF Next

(* A vehicle tracker follows a watch, in that watch's mode, or one that    *)
(* was removed: before its form was answered, before it was named, or      *)
(* since.                                                                  *)
THEOREM TrackersAreLinked == Spec => []LinkedToWatch
  <1>1. Init => Links
    BY DEF Init, Links, LinkedToWatch, Trackers, OfType, Gone
  <1>2. Links => LinkedToWatch
    BY DEF Links
  <1> QED
    BY <1>1, <1>2, InitTyped, StepTyped, StepKeepsLinks, PTL DEF Spec
==============================================================================
