---------------------------- MODULE MCDepartures -----------------------------
EXTENDS Departures, TLC

CONSTANTS a1, a2, b1, b2, c1,   \* stops; a1, a2 and b1, b2 share a station
          t1, t2, t3, t4, t5,  \* trips
          x, y                 \* routes

MCStation == [s \in Stops |-> IF s \in {a1, a2} THEN "A"
                              ELSE IF s \in {b1, b2} THEN "B" ELSE None]
MCPlatform == [s \in Stops |-> IF s \in {a1, b1} THEN "1"
                               ELSE IF s \in {a2, b2} THEN "2" ELSE None]

(* A trip's calls, from <<stop, arrival, departure>> in order. *)
TripOn(service, route, stops) ==
  [service |-> service, route |-> route,
   calls |-> {[seq |-> i, stop |-> stops[i][1], arr |-> stops[i][2],
               dep |-> stops[i][3]] : i \in DOMAIN stops}]

(* A day has eight ticks of three hours, a week two days.  "daily" starts  *)
(* a day late and is suspended on day 2; "even" runs on even days only;    *)
(* "extra" has no days but an added one.                                   *)
MCCalendar ==
  [s \in {"daily", "even", "extra", "old"} |->
     CASE s = "daily" -> [first |-> 1, last |-> 9, days |-> {0, 1},
                          added |-> {}, removed |-> {2}]
       [] s = "even"  -> [first |-> 0, last |-> 2, days |-> {0},
                          added |-> {}, removed |-> {}]
       [] s = "extra" -> [first |-> 0, last |-> 9, days |-> {},
                          added |-> {1, 2}, removed |-> {}]
       [] OTHER       -> [first |-> 0, last |-> 1, days |-> {0, 1},
                          added |-> {}, removed |-> {}]]

(* Release 1 keeps to its service days, and all that leaves from B goes to *)
(* c1; t4 leaves at midnight, as 24:00.  In release 2, t1 is earlier, t3   *)
(* leaves past 27:00, t5 makes a round trip and nobody knows when t2 is to *)
(* arrive at b1.                                                           *)
MCSchedule ==
  <<[calendar |-> MCCalendar,
     trips |-> [t \in Trips |->
       CASE t = t1 -> TripOn("daily", x, <<<<a1, 2, 2>>, <<b1, 3, 3>>, <<c1, 4, 4>>>>)
         [] t = t2 -> TripOn("old", y, <<<<a2, 3, 4>>, <<b1, 5, 5>>, <<c1, 6, 6>>>>)
         [] t = t3 -> TripOn("even", x, <<<<b2, 6, 6>>, <<c1, 7, 7>>>>)
         [] t = t4 -> TripOn("extra", x, <<<<a1, 8, 8>>, <<c1, 9, 9>>>>)
         [] t = t5 -> TripOn("daily", x, <<<<b2, 7, 7>>, <<c1, 8, 8>>>>)]],
    [calendar |-> MCCalendar,
     trips |-> [t \in Trips |->
       CASE t = t1 -> TripOn("daily", x, <<<<a1, 1, 1>>, <<b1, 2, 2>>, <<c1, 3, 3>>>>)
         [] t = t2 -> TripOn("old", y, <<<<a2, 3, 4>>, <<c1, 5, 5>>, <<b1, None, 6>>>>)
         [] t = t3 -> TripOn("even", x, <<<<a1, 9, 10>>, <<b1, 11, 11>>, <<c1, 12, 12>>>>)
         [] t = t4 -> TripOn("even", x, <<<<b1, 5, 5>>, <<c1, 7, 7>>>>)
         [] t = t5 -> TripOn("daily", y, <<<<b2, 3, 3>>, <<a1, 5, 5>>, <<b2, 7, 7>>>>)]]>>

Direct(stop, dest, route, platform, count) ==
  [stop |-> stop, dest |-> dest, route |-> route, platform |-> platform,
   count |-> count, transfer |-> None, final |-> None, gap |-> 0]

MCWatches ==
  {Direct(a1, None, None, None, 1), Direct(a1, None, None, None, 2),
   Direct(a1, c1, None, None, 2), Direct(a1, None, x, "1", 2),
   Direct(b1, a1, None, None, 2),
   [Direct(a1, None, None, None, 2) EXCEPT !.transfer = b1, !.final = c1, !.gap = 1]}

MCFeeds == {(<<t1, a1>> :> 2) @@ (<<t2, a2>> :> -1)}
==============================================================================
