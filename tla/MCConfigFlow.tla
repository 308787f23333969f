---------------------------- MODULE MCConfigFlow -----------------------------
EXTENDS ConfigFlow

CONSTANTS train, bus,        \* modes
          a1, a2, a3, b,     \* stops; a1, a2, a3 are platforms of one station
          x, y               \* routes

(* As buses find regional buses, trains find what comes with the buses. *)
MCRouteTypes == [m \in Modes |-> IF m = train THEN {1, 2} ELSE {2}]
MCSiblings ==
  [s \in Stops |-> IF s \in {a1, a2, a3} THEN {a1, a2, a3} ELSE {s}]
MCCode ==
  [s \in Stops |-> IF s = a1 THEN "1" ELSE IF s = a2 THEN "2" ELSE None]
MCAhead ==
  [s \in Stops |-> IF s = a2 THEN {a1} ELSE IF s = a3 THEN {a1, a2} ELSE {}]

Hop(m, r, from, to) ==
  [bundle |-> m, type |-> IF m = train THEN 1 ELSE 2, route |-> r,
   from |-> from, to |-> to]

(* The second release has no train back to the first station any more,    *)
(* and no bus, and leaves from a platform without a code.                  *)
MCLegs ==
  <<{Hop(train, x, a1, b), Hop(train, y, b, a1), Hop(train, y, a2, b),
     Hop(bus, x, b, a1)},
    {Hop(train, x, a1, b), Hop(train, y, a3, b)}>>
==============================================================================
