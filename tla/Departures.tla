----------------------------- MODULE Departures ------------------------------
(***************************************************************************)
(* How a watch's board comes about: _async_update_data of coordinator.py   *)
(* from its reading of the clock on, with next_departures and the pairing  *)
(* of legs, over the database of module Timetable, while time passes and   *)
(* imports replace the database.                                           *)
(*                                                                         *)
(* A step is one statement on the database, each of which opens gtfs.db    *)
(* anew; the code between two of them belongs to the step before.  `leg1`  *)
(* tells which call of next_departures is running: None for the direct     *)
(* query or the first leg, else the first leg that a second one is sought  *)
(* for.  The fetches before are module Watches' matter: they yield `feed`, *)
(* the delays by trip and stop.                                            *)
(***************************************************************************)
EXTENDS Timetable

CONSTANTS
  Watches,  \* watch configurations
  Feeds,    \* what trip-updates feeds may say
  Lags,     \* how far date.today() may be behind Home Assistant's time zone
  Horizon   \* bound on the clock

Routes == UNION {{Schedule[r].trips[t].route : t \in TripsOf(r)} : r \in Releases}
Platforms == {Platform[s] : s \in Stops} \ {None}

(* `dest` is None for all destinations; `transfer` is None for a direct    *)
(* watch, else `final` is the journey's destination and `gap` its minimum  *)
(* time to transfer.                                                       *)
Watch == [stop : Stops, dest : Filter(Stops), route : Filter(Routes),
          platform : Filter(Platforms), count : Nat \ {0},
          transfer : Filter(Stops), final : Filter(Stops), gap : Nat]

ASSUME DeparturesAssumption ==
  /\ Watches \subseteq Watch
  /\ \A w \in Watches : w.transfer # None => w.final # None
  /\ \A f \in Feeds : DOMAIN f \subseteq Trips \X Stops /\ \A k \in DOMAIN f : f[k] \in Int
  /\ Lags \subseteq Nat /\ Horizon \in Nat

Row == [trip : Trips, seq : Nat, stop : Stops, date : Int, secs : Nat, time : Int]
Entry == [leg1 : Row, leg2 : Filter(Row)]
Query == [stop : Stops, at : Int, limit : Nat, dest : Filter(Stops),
          route : Filter(Routes), platform : Filter(Platforms)]
(* `offered` (the first legs), `seen` (the databases that were in place)   *)
(* and `faulty` (an sqlite3.Error was logged) are history.                 *)
Cycle == [at : Nat, feed : Feeds, offered : SUBSET Row, seen : SUBSET Database,
          faulty : BOOLEAN]

ASSUME NoneAssumption == None \notin Row \cup Query \cup Cycle

VARIABLES
  now,    \* the time in Home Assistant's time zone
  db,     \* gtfs.db
  watch,  \* _watch_config
  pc,     \* the statement that comes next
  cycle,  \* local_now and trip_delays of the running cycle, and its history
  q,      \* the arguments of the next_departures that is running
  found,  \* its rows_a + rows_b
  leg1,   \* the first leg that is being paired
  legs,   \* the first legs that are still to be paired
  made,   \* journeys
  board   \* the departures last published, and how they came about

local == <<q, found, leg1, legs, made>>
vars == <<now, db, watch, pc, cycle, local, board>>

Init ==
  /\ now = 0
  /\ \E l \in Lags : db \in Imports(1, (now - l) \div Day)
  /\ watch \in Watches
  /\ pc = "idle" /\ cycle = None /\ board = None
  /\ q = None /\ found = {} /\ leg1 = None /\ legs = {} /\ made = {}

------------------------------------------------------------------------------
(* Around the cycle. *)

(* Bound: a cycle takes no more than a tick. *)
Tick ==
  /\ now < Horizon
  /\ cycle # None => now = cycle.at
  /\ now' = now + 1
  /\ UNCHANGED <<db, watch, pc, cycle, local, board>>

(* A refresh found another release and swapped its import into place. *)
Import ==
  /\ db.release + 1 \in Releases
  /\ \E l \in Lags : db' \in Imports(db.release + 1, (now - l) \div Day)
  /\ cycle' = IF cycle = None THEN None
              ELSE [cycle EXCEPT !.seen = @ \cup {db'}]
  /\ UNCHANGED <<now, watch, pc, local, board>>

------------------------------------------------------------------------------
(* The cycle. *)

Delay(feed, row) ==
  IF <<row.trip, row.stop>> \in DOMAIN feed THEN feed[<<row.trip, row.stop>>] ELSE 0

(* The arguments of the direct query or that for the first legs, and of    *)
(* that for a second one.                                                  *)
FirstDest(w) == IF w.transfer = None THEN w.dest ELSE w.transfer
FirstQuery(w, at) ==
  [stop |-> w.stop, at |-> at, limit |-> w.count, dest |-> FirstDest(w),
   route |-> w.route, platform |-> w.platform]
SecondQuery(w, at) ==
  [stop |-> w.transfer, at |-> at, limit |-> 1, dest |-> w.final,
   route |-> None, platform |-> None]

Begin ==
  /\ pc = "idle"
  /\ \E f \in Feeds :
       cycle' = [at |-> now, feed |-> f, offered |-> {}, seen |-> {db},
                 faulty |-> FALSE]
  /\ q' = FirstQuery(watch, now)
  /\ pc' = "today"
  /\ UNCHANGED <<now, db, watch, found, leg1, legs, made, board>>

Faulty(c) == [c EXCEPT !.faulty = TRUE]

(* _query_branch, which answers an sqlite3.Error with no rows. *)
RunBranch(date, secs) ==
  \/ /\ \E F \in Firsts(Branch(db, q, date, secs), q.limit) : found' = found \cup F
     /\ UNCHANGED cycle
  \/ cycle' = Faulty(cycle) /\ UNCHANGED found

QueryToday ==
  /\ pc = "today"
  /\ LET day == ServiceDay(q.at) IN RunBranch(day.date, day.secs)
  /\ pc' = "yesterday"
  /\ UNCHANGED <<now, db, watch, q, leg1, legs, made, board>>

(* Variant: yesterday's rows are compared with today's seconds. *)
QueryYesterdayUnshifted ==
  /\ pc = "yesterday"
  /\ LET day == ServiceDay(q.at) IN RunBranch(day.date - 1, day.secs)
  /\ pc' = "select"
  /\ UNCHANGED <<now, db, watch, q, leg1, legs, made, board>>
QueryYesterday ==
  /\ pc = "yesterday"
  /\ LET day == ServiceDay(q.at) IN RunBranch(day.date - 1, day.secs + Day)
  /\ pc' = "select"
  /\ UNCHANGED <<now, db, watch, q, leg1, legs, made, board>>

(* What next_departures may return, and the cycle afterwards: the filter   *)
(* answers an sqlite3.Error with the rows it was given.                    *)
ResultUnsliced(F, c) ==  \* variant: the merged rows are not cut
  /\ c = cycle
  /\ F = IF q.dest = None THEN found
         ELSE _filter_by_destination(db, found, q.dest)
Result(F, c) ==
  \/ /\ c = cycle
     /\ F \in Firsts(IF q.dest = None THEN found
                     ELSE _filter_by_destination(db, found, q.dest), q.limit)
  \/ /\ q.dest # None /\ found # {}
     /\ c = Faulty(cycle)
     /\ F \in Firsts(found, q.limit)

EndCycle ==
  /\ pc' = "idle" /\ cycle' = None
  /\ q' = None /\ found' = {} /\ leg1' = None /\ legs' = {} /\ made' = {}

Publish(c, entries) ==
  /\ board' = [at |-> c.at, feed |-> c.feed, offered |-> c.offered,
               seen |-> c.seen, faulty |-> c.faulty, shown |-> entries]
  /\ EndCycle

(* Variant: the loop is left after its first leg. *)
PairOnce(c, rest, entries) ==
  IF rest = {} THEN Publish(c, entries)
  ELSE /\ \E F \in Firsts(rest, 1), r \in rest : r \in F /\ leg1' = r
       /\ legs' = {}
       /\ pc' = "arrival" /\ cycle' = c /\ made' = entries
       /\ q' = None /\ found' = {}
       /\ UNCHANGED board
(* The head of the loop over the first legs. *)
Pair(c, rest, entries) ==
  IF rest = {} THEN Publish(c, entries)
  ELSE /\ \E F \in Firsts(rest, 1), r \in rest :
            r \in F /\ leg1' = r /\ legs' = rest \ {r}
       /\ pc' = "arrival" /\ cycle' = c /\ made' = entries
       /\ q' = None /\ found' = {}
       /\ UNCHANGED board

Results == SUBSET found
Outcomes == {cycle, Faulty(cycle)}

SelectDirect ==
  /\ pc = "select" /\ watch.transfer = None
  /\ \E F \in Results, c \in Outcomes :
       Result(F, c) /\ Publish(c, {[leg1 |-> r, leg2 |-> None] : r \in F})
  /\ UNCHANGED <<now, db, watch>>

SelectFirstLegs ==
  /\ pc = "select" /\ watch.transfer # None /\ leg1 = None
  /\ \E F \in Results, c \in Outcomes :
       Result(F, c) /\ Pair([c EXCEPT !.offered = F], F, {})
  /\ UNCHANGED <<now, db, watch>>

(* No second leg: the first one is dropped. *)
SelectSecondLeg ==
  /\ pc = "select" /\ leg1 # None
  /\ \E F \in Results, c \in Outcomes :
       /\ Result(F, c)
       /\ Pair(c, legs, made \cup {[leg1 |-> leg1, leg2 |-> r] : r \in F})
  /\ UNCHANGED <<now, db, watch>>

(* Variant: a late first leg is expected on time. *)
FindArrivalOnTime ==
  /\ pc = "arrival"
  /\ \E a \in Arrivals(db, leg1.trip, watch.transfer, ServiceDay(cycle.at).date)
              \ {None} :
       q' = SecondQuery(watch, a + watch.gap)
  /\ pc' = "today"
  /\ UNCHANGED <<now, db, watch, cycle, found, leg1, legs, made, board>>
(* get_arrival_at_stop is given the service day of now, whichever branch   *)
(* found the leg.                                                          *)
FindArrival ==
  /\ pc = "arrival"
  /\ \E a \in Arrivals(db, leg1.trip, watch.transfer, ServiceDay(cycle.at).date)
              \ {None} :
       q' = SecondQuery(watch, a + Delay(cycle.feed, leg1) + watch.gap)
  /\ pc' = "today"
  /\ UNCHANGED <<now, db, watch, cycle, found, leg1, legs, made, board>>

NoArrival ==
  /\ pc = "arrival"
  /\ \E c \in Outcomes :
       /\ c # cycle \/ Arrivals(db, leg1.trip, watch.transfer, 0) = {}
       /\ Pair(c, legs, made)
  /\ UNCHANGED <<now, db, watch>>

(* A NULL arrival raises a TypeError, which nothing in the cycle catches:  *)
(* the coordinator keeps its data, whatever has been paired before.        *)
ArrivalUnknown ==
  /\ pc = "arrival"
  /\ None \in Arrivals(db, leg1.trip, watch.transfer, ServiceDay(cycle.at).date)
  /\ EndCycle
  /\ UNCHANGED <<now, db, watch, board>>

Next ==
  \/ Tick \/ Import
  \/ Begin \/ QueryToday \/ QueryYesterday
  \/ SelectDirect \/ SelectFirstLegs \/ SelectSecondLeg
  \/ FindArrival \/ NoArrival \/ ArrivalUnknown

Spec == Init /\ [][Next]_vars

------------------------------------------------------------------------------
(* What a passenger may expect, said without service days, branches or the *)
(* import's filter.                                                        *)

(* The service day that runs at a time. *)
ServedDay(time) == (time - Cutover) \div Day

CallsOf(release, trip) == Schedule[release].trips[trip].calls

(* The departures still due at a time, of the service day that runs and    *)
(* the one before, in the whole release.  As time_utils.py has it, a call  *)
(* before 03:00 of its own date belongs to no service day: it is never due *)
(* and never shown.                                                        *)
Due(release, stop, route, platform, time) ==
  {r \in UNION {{[trip |-> t, seq |-> c.seq, stop |-> c.stop, date |-> d,
                  secs |-> c.dep, time |-> ToTime(d, c.dep)] :
                   c \in CallsOf(release, t)} :
                 t \in TripsOf(release), d \in ServedDay(time) - 1 .. ServedDay(time)} :
     /\ r.time >= time
     /\ r.stop \in Siblings(stop) /\ Passes(Platform[r.stop], platform)
     /\ Passes(Schedule[release].trips[r.trip].route, route)
     /\ RunsOn(ServiceOf(release, r.trip), r.date)}

OnDay(rows, date) == {r \in rows : r.date = date}

(* The first n of some rows. *)
Earliest(rows, n) ==
  {F \in SUBSET rows :
     /\ Cardinality(F) = IF Cardinality(rows) < n THEN Cardinality(rows) ELSE n
     /\ \A r \in F, s \in rows \ F : r.time <= s.time}

(* How n places may be dealt out to rows: none is left free that a row     *)
(* could have, of each service day the earliest ones get them, and one of  *)
(* the day before only gets what the running day's leave, unless these are *)
(* past 27:00 as well.                                                     *)
Dealt(rows, n) ==
  {F \in SUBSET rows :
     /\ Cardinality(F) = IF Cardinality(rows) < n THEN Cardinality(rows) ELSE n
     /\ \A r \in F, s \in rows \ F :
          /\ r.date = s.date => r.time <= s.time
          /\ r.date < s.date => s.secs >= Day + Cutover}

(* A row departs by one of the databases: its trip runs on its date, and   *)
(* calls there at its time.                                                *)
Departs(row, seen) ==
  /\ row.time = ToTime(row.date, row.secs)
  /\ \E b \in seen :
       /\ row.trip \in TripsOf(b.release)
       /\ RunsOn(ServiceOf(b.release, row.trip), row.date)
       /\ \E c \in CallsOf(b.release, row.trip) :
            c.seq = row.seq /\ c.stop = row.stop /\ c.dep = row.secs

(* The row's trip goes on to a stop. *)
GoesOn(release, row, stop) ==
  /\ row.trip \in TripsOf(release)
  /\ \E c \in CallsOf(release, row.trip) : c.stop = stop /\ c.seq > row.seq

(* No two departures are at the same time. *)
NoTies(rows) == \A r, s \in rows : r.time = s.time => r = s
(* No trip calls at a place twice. *)
Once(release, places) ==
  \A t \in TripsOf(release) :
    \A c, d \in CallsOf(release, t) : c.stop \in places /\ d.stop \in places => c = d
(* A trip's calls at some places are numbered in the order of departure,   *)
(* and that order is the same in all the databases that have the trip.     *)
Ascending(seen, trip, places) ==
  \A a, b \in seen :
    trip \in TripsOf(a.release) /\ trip \in TripsOf(b.release) =>
      \A c \in CallsOf(a.release, trip), d \in CallsOf(b.release, trip) :
        c.stop \in places /\ d.stop \in places /\ c.dep <= d.dep => c.seq <= d.seq

(* The import vouches for the dates of some rows. *)
Covers(base, rows) ==
  /\ base.sound
  /\ \A r \in rows : base.today <= r.date /\ r.date <= base.today + Window

(* How a board, or the running cycle, came about: by one database only. *)
Undisturbed(how, base) == how.seen = {base} /\ ~ how.faulty

Rows == {e.leg1 : e \in board.shown}
SecondLegs == {e.leg2 : e \in {e \in board.shown : e.leg2 # None}}

(* Every variable has its type. *)
TypeOK ==
  /\ now \in 0 .. Horizon /\ db \in Database /\ watch \in Watches
  /\ pc \in {"idle", "today", "yesterday", "select", "arrival"}
  /\ cycle \in Cycle \cup {None} /\ (pc = "idle") = (cycle = None)
  /\ cycle # None => cycle.at \in now - 1 .. now
  /\ q \in Query \cup {None}
  /\ pc \in {"today", "yesterday", "select"} => q # None
  /\ found \subseteq Row /\ legs \subseteq Row /\ made \subseteq Entry
  /\ leg1 \in Row \cup {None}
  /\ pc = "arrival" => leg1 # None
  /\ board # None =>
       /\ board.shown \subseteq Entry
       /\ Cardinality(board.shown) <= watch.count

(* Whatever is on the board departs: of a database that was in place while *)
(* the board was made, a trip that runs on the row's date calls there at   *)
(* the row's time, which is not before the clock was read; and the second  *)
(* leg does so on its own.  This holds across imports and failed queries.  *)
ShownDeparts ==
  board # None =>
    /\ \A r \in Rows : r.time >= board.at
    /\ \A r \in Rows \cup SecondLegs : Departs(r, board.seen)

(* A board made from one database without errors is made of the next       *)
(* departures of the running service day and of those past 27:00 of the    *)
(* day before: neither the cutover, nor midnight, nor the trips the import *)
(* left out make it miss any or leave a place free.  As the code has it,   *)
(* each service day gives its first `count` departures, the destination is *)
(* looked at after that, and what then is too much goes by the service     *)
(* day's clock: yesterday's late trips give way to all of today's, though  *)
(* they leave before them.                                                 *)
NextShown ==
  board # None /\ watch.transfer = None =>
    \A b \in board.seen :
      LET due == Due(b.release, watch.stop, watch.route, watch.platform, board.at)
          day == ServedDay(board.at)
      IN /\ Undisturbed(board, b) /\ Covers(b, due)
         /\ watch.dest # None => Once(b.release, Siblings(watch.stop))
         => \E A \in Earliest(OnDay(due, day), watch.count),
              B \in Earliest(OnDay(due, day - 1), watch.count) :
              Rows \in Dealt({r \in A \cup B : \/ watch.dest = None
                                             \/ GoesOn(b.release, r, watch.dest)},
                            watch.count)

(* A row leads to a destination, if its trip's calls are in order. *)
Served(seen, row, stop, dest) ==
  dest # None /\ Ascending(seen, row.trip, Siblings(stop)) =>
    \E b \in seen : GoesOn(b.release, row, dest)

(* Unless the filter's query failed, every trip shown goes on to the       *)
(* destination, or to the transfer, by a database that was in place, and   *)
(* so does the second leg's to the journey's end; that holds for loops and *)
(* for trips of either branch, too.  Trips must call at the station in the *)
(* order of their numbers, which no import in between may change.          *)
DestinationServed ==
  board # None /\ ~ board.faulty =>
    /\ \A r \in Rows : Served(board.seen, r, watch.stop, FirstDest(watch))
    /\ \A r \in SecondLegs : Served(board.seen, r, watch.transfer, watch.final)

(* A journey can be made: by the timetable of the one database it was made *)
(* from, its second leg leaves no earlier than its first, as late as it is *)
(* reported, arrives at the transfer, and the minimum time to transfer     *)
(* after that.                                                             *)
Caught(w, how, e) ==
  \A b \in how.seen :
    Undisturbed(how, b) /\ Once(b.release, {w.transfer}) =>
      \A c \in CallsOf(b.release, e.leg1.trip) :
        c.stop = w.transfer =>
          e.leg2.time >= ToTime(e.leg1.date, c.arr)
                         + Delay(how.feed, e.leg1) + w.gap

Catchable ==
  board # None => \A e \in board.shown : e.leg2 # None => Caught(watch, board, e)

(* No connection of a first leg of the running service day is missed, also *)
(* past 27:00 and over 03:00: if all that leaves from the transfer goes on *)
(* to the journey's destination, the leg is paired with the next departure *)
(* after its arrival, where there is one.  (If some of it goes elsewhere,  *)
(* the limit of one hides the rest.)  A leg of the day before is left out, *)
(* as the code dates its arrival a day late and so passes over a day.      *)
Paired(w, how, r, entries) ==
  \A b \in how.seen :
    /\ Undisturbed(how, b) /\ Once(b.release, Siblings(w.transfer))
    /\ r.date = ServedDay(how.at)
    => \A c \in CallsOf(b.release, r.trip) :
         LET ready == ToTime(r.date, c.arr) + Delay(how.feed, r) + w.gap
             due == Due(b.release, w.transfer, None, None, ready)
         IN /\ c.stop = w.transfer /\ Covers(b, due)
            /\ due # {} /\ \A s \in due : GoesOn(b.release, s, w.final)
            => \E e \in entries : e.leg1 = r /\ {e.leg2} \in Dealt(due, 1)

LegsPaired ==
  board # None /\ watch.transfer # None =>
    \A r \in board.offered : Paired(watch, board, r, board.shown)

(* From one board to the next, made from the same database without errors, *)
(* a departure stays until its scheduled time.  Over 03:00, when the       *)
(* branches change and it becomes one of the day before, only a trip past  *)
(* 27:00 can lose its place, and only to a board that is full.  (One that  *)
(* leaves at the same time may take a place, too, and with a destination,  *)
(* a later call of the trip at the station may hide it.)                   *)
StaysOnBoard ==
  [][board # None /\ board' # board /\ watch.transfer = None =>
       \A b \in board.seen :
         LET due == Due(b.release, watch.stop, watch.route, watch.platform, board'.at)
         IN /\ Undisturbed(board, b) /\ Undisturbed(board', b) /\ NoTies(due)
            /\ watch.dest # None => Once(b.release, Siblings(watch.stop))
            => \A r \in Rows \cap due :
                 \/ r \in Rows'
                 \/ r.secs >= Day + Cutover /\ Cardinality(Rows') = watch.count]_vars

==============================================================================
