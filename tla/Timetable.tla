------------------------------ MODULE Timetable ------------------------------
(***************************************************************************)
(* What gtfs.db holds of a schedule, and the queries for departures over   *)
(* it: the trip filter of gtfs/importer.py, the service days of            *)
(* gtfs/time_utils.py and the statements of gtfs/repository.py.            *)
(*                                                                         *)
(* Time is counted in ticks instead of seconds, from the midnight of day   *)
(* 0 on; a date is the number of its day.  The time of a call counts from  *)
(* the midnight of its service day and may exceed a day, as GTFS does.     *)
(***************************************************************************)
EXTENDS Integers, FiniteSets

CONSTANTS
  Day,       \* ticks in a day, 86400 seconds
  Cutover,   \* CUTOVER_SECONDS: the service day begins at 03:00
  Window,    \* _TRIP_WINDOW_DAYS
  Week,      \* days in a week
  Stops,     \* platform-level stop_ids
  Trips,     \* trip_ids
  Station,   \* a stop's parent_station, or None
  Platform,  \* a stop's platform_code, or None
  Schedule,  \* the releases of the schedule, in order
  None

(* A service runs on some days of the week between two dates, on the dates *)
(* added to it and not on those removed (calendar, calendar_dates).        *)
Service == [first : Int, last : Int, days : SUBSET (0 .. Week - 1),
            added : SUBSET Int, removed : SUBSET Int]
(* A row of stop_times.  A missing or bad arrival_time is stored as NULL;  *)
(* so is a departure_time, but such a row is never selected.               *)
Call == [seq : Nat, stop : Stops, arr : Nat \cup {None}, dep : Nat]

ASSUME TimetableAssumption ==
  /\ Day \in Nat \ {0} /\ Cutover \in 0 .. Day - 1
  /\ Window \in Nat /\ Week \in Nat \ {0}
  /\ None \notin Stops
  /\ DOMAIN Station = Stops /\ DOMAIN Platform = Stops
  /\ DOMAIN Schedule = 1 .. Cardinality(DOMAIN Schedule) /\ 1 \in DOMAIN Schedule
  /\ \A r \in DOMAIN Schedule :
       /\ DOMAIN Schedule[r].trips \subseteq Trips
       /\ IsFiniteSet(DOMAIN Schedule[r].trips)
       /\ \A s \in DOMAIN Schedule[r].calendar :
            Schedule[r].calendar[s] \in Service
       /\ \A t \in DOMAIN Schedule[r].trips :
            LET trip == Schedule[r].trips[t] IN
            /\ trip.service \in DOMAIN Schedule[r].calendar
            /\ trip.calls \subseteq Call /\ IsFiniteSet(trip.calls)

Releases == DOMAIN Schedule
TripsOf(release) == DOMAIN Schedule[release].trips
ServiceOf(release, trip) ==
  Schedule[release].calendar[Schedule[release].trips[trip].service]

------------------------------------------------------------------------------
(* The import.  A database is a release, the trips whose stop_times were   *)
(* kept, `today`, the day of the import, and, for the properties, whether  *)
(* the import could read the calendar (`sound`).                           *)

Database == [release : Releases, kept : SUBSET Trips, today : Int,
             sound : BOOLEAN]

KeptByRange(c, today) ==
  c.first <= today + Window /\ c.last >= today /\ c.days # {}
KeptByDate(c, today) == \E d \in c.added : today <= d /\ d <= today + Window

_compute_valid_trip_ids(release, today) ==
  {t \in TripsOf(release) :
     LET c == ServiceOf(release, t) IN
     KeptByRange(c, today) \/ KeptByDate(c, today)}

(* What an import may yield.  An sqlite3.Error in _compute_valid_trip_ids  *)
(* is answered with no trips, and none is kept.                            *)
Imports(release, today) ==
  {[release |-> release, today |-> today, sound |-> s,
    kept |-> IF s THEN _compute_valid_trip_ids(release, today) ELSE {}] :
   s \in BOOLEAN}

Calls(db, trip) ==
  IF trip \in db.kept THEN Schedule[db.release].trips[trip].calls ELSE {}

------------------------------------------------------------------------------
(* Service days and calendars. *)

(* Variant: a service day from midnight to midnight. *)
ServiceDayByMidnight(time) == [date |-> time \div Day, secs |-> time % Day]
ServiceDay(time) ==
  IF time % Day < Cutover
  THEN [date |-> time \div Day - 1, secs |-> (time % Day) + Day]
  ELSE [date |-> time \div Day, secs |-> time % Day]

ToTime(date, secs) == date * Day + secs

RunsOn(c, date) ==
  /\ \/ c.first <= date /\ date <= c.last /\ date % Week \in c.days
     \/ date \in c.added
  /\ date \notin c.removed

------------------------------------------------------------------------------
(* Departure queries.  A query asks for at most `limit` departures from    *)
(* `stop` at `at` or later, of trips that go on to `dest` if there is one, *)
(* on one route or from one platform if these are given.                   *)

Filter(S) == S \cup {None}

Siblings(stop) ==
  {stop} \cup {s \in Stops : Station[stop] # None /\ Station[s] = Station[stop]}

Passes(value, filter) == filter = None \/ value = filter

(* Variant: departures that are due right now are gone. *)
BranchStrict(db, q, date, secs) ==
  UNION {{[trip |-> t, seq |-> c.seq, stop |-> c.stop, date |-> date,
           secs |-> c.dep, time |-> ToTime(date, c.dep)] :
            c \in {c \in Calls(db, t) : /\ c.stop \in Siblings(q.stop)
                                        /\ c.dep > secs
                                        /\ Passes(Platform[c.stop], q.platform)}} :
           t \in {t \in db.kept :
                    /\ RunsOn(ServiceOf(db.release, t), date)
                    /\ Passes(Schedule[db.release].trips[t].route, q.route)}}
(* The rows one branch selects from, without its limit.  `time` is         *)
(* scheduled_departure.                                                    *)
Branch(db, q, date, secs) ==
  UNION {{[trip |-> t, seq |-> c.seq, stop |-> c.stop, date |-> date,
           secs |-> c.dep, time |-> ToTime(date, c.dep)] :
            c \in {c \in Calls(db, t) : /\ c.stop \in Siblings(q.stop)
                                        /\ c.dep >= secs
                                        /\ Passes(Platform[c.stop], q.platform)}} :
           t \in {t \in db.kept :
                    /\ RunsOn(ServiceOf(db.release, t), date)
                    /\ Passes(Schedule[db.release].trips[t].route, q.route)}}

(* The order of a result: ties are in the order of the branches, and       *)
(* within a branch SQLite's affair.                                        *)
Before(r, s) == r.secs < s.secs \/ (r.secs = s.secs /\ r.date > s.date)

(* The results ORDER BY ... LIMIT n, or [:n] of a sorted list, may have. *)
Firsts(rows, n) ==
  {F \in SUBSET rows :
     /\ Cardinality(F) = IF Cardinality(rows) < n THEN Cardinality(rows) ELSE n
     /\ \A r \in F, s \in rows \ F : ~ Before(s, r)}

(* A dict comprehension over the sorted rows: a trip's last row stays. *)
origin_seq_by_trip(rows, trip) ==
  (CHOOSE r \in rows : /\ r.trip = trip
                       /\ \A s \in rows : s.trip = trip => ~ Before(r, s)).seq

(* Variant: a trip that has come from the destination passes. *)
_filter_by_destinationAnyOrder(db, rows, dest) ==
  {r \in rows : \E c \in Calls(db, r.trip) : c.stop = dest}
_filter_by_destination(db, rows, dest) ==
  {r \in rows : \E c \in Calls(db, r.trip) :
                  /\ c.stop = dest
                  /\ c.seq > origin_seq_by_trip(rows, r.trip)}

(* get_arrival_at_stop: LIMIT 1 of the trip's calls there, in no order.    *)
(* None stands for the TypeError of a NULL.                                *)
Arrivals(db, trip, stop, date) ==
  {IF c.arr = None THEN None ELSE ToTime(date, c.arr) :
     c \in {c \in Calls(db, trip) : c.stop = stop}}
==============================================================================
