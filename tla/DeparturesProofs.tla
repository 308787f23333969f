-------------------------- MODULE DeparturesProofs --------------------------
(***************************************************************************)
(* What is on a board departs, goes to the destination, can be caught and  *)
(* is what comes next: for any timetable, any number of releases that are  *)
(* swapped in between any two statements, any watches and delays.          *)
(***************************************************************************)
EXTENDS Departures, FiniteSetTheorems, WellFoundedInduction, TLAPS

------------------------------------------------------------------------------
(* Service days. *)

LEMMA DayParts ==
  ASSUME NEW t \in Int
  PROVE  /\ t \div Day \in Int /\ t % Day \in 0 .. Day - 1
         /\ t = (t \div Day) * Day + (t % Day)
BY TimetableAssumption

(* A day later by one day less is the same time. *)
LEMMA DayBefore ==
  ASSUME NEW d \in Int, NEW s \in Int
  PROVE  ToTime(d - 1, s + Day) = ToTime(d, s)
BY TimetableAssumption DEF ToTime

LEMMA ToTimeType ==
  ASSUME NEW d \in Int, NEW s \in Int
  PROVE  ToTime(d, s) \in Int
BY TimetableAssumption DEF ToTime

(* The service day of a time, on which it is between 03:00 and 27:00. *)
LEMMA ServiceDayOf ==
  ASSUME NEW t \in Int
  PROVE  /\ ServiceDay(t).date \in Int /\ ServiceDay(t).secs \in Nat
         /\ ToTime(ServiceDay(t).date, ServiceDay(t).secs) = t
         /\ Cutover <= ServiceDay(t).secs /\ ServiceDay(t).secs < Day + Cutover
<1> DEFINE d == t \div Day
           s == t % Day
<1>1. /\ d \in Int /\ s \in 0 .. Day - 1
      /\ t = d * Day + s
  BY DayParts
<1>2. ToTime(d - 1, s + Day) = ToTime(d, s)
  BY <1>1, DayBefore
<1>3. ToTime(d, s) = t
  BY <1>1 DEF ToTime
<1> HIDE DEF d, s
<1>4. CASE s < Cutover
  <2>1. ServiceDay(t) = [date |-> d - 1, secs |-> s + Day]
    BY <1>4 DEF ServiceDay, d, s
  <2> QED  BY <1>1, <1>2, <1>3, <1>4, <2>1, TimetableAssumption
<1>5. CASE ~ (s < Cutover)
  <2>1. ServiceDay(t) = [date |-> d, secs |-> s]
    BY <1>5 DEF ServiceDay, d, s
  <2> QED  BY <1>1, <1>3, <1>5, <2>1, TimetableAssumption
<1> QED  BY <1>4, <1>5

(* A later day's 03:00 is after the end of an earlier service day. *)
LEMMA DaysInOrder ==
  ASSUME NEW d \in Int, NEW e \in Int, d < e
  PROVE  d * Day + Day <= e * Day
<1>1. d + 1 <= e
  OBVIOUS
<1>2. (d + 1) * Day <= e * Day
  BY <1>1, TimetableAssumption
<1> QED  BY <1>2, TimetableAssumption

(* The service day of a time is the only one whose 03:00 to 27:00 has it. *)
LEMMA OneServiceDay ==
  ASSUME NEW d \in Int, NEW s \in Int, Cutover <= s, s < Day + Cutover,
         NEW e \in Int, NEW u \in Int, Cutover <= u, u < Day + Cutover,
         ToTime(d, s) = ToTime(e, u)
  PROVE  d = e /\ s = u
<1>0. /\ Cutover \in Int /\ Day \in Int
      /\ d * Day \in Int /\ e * Day \in Int
      /\ d * Day + s = e * Day + u
  BY TimetableAssumption DEF ToTime
<1>1. ~ (d < e)
  <2> SUFFICES ASSUME d < e  PROVE FALSE
    OBVIOUS
  <2> d * Day + Day <= e * Day
    BY DaysInOrder
  <2> QED  BY <1>0
<1>2. ~ (e < d)
  <2> SUFFICES ASSUME e < d  PROVE FALSE
    OBVIOUS
  <2> e * Day + Day <= d * Day
    BY DaysInOrder
  <2> QED  BY <1>0
<1>3. d = e
  BY <1>1, <1>2
<1> QED  BY <1>0, <1>3

(* The passenger's service day is the one the code computes. *)
LEMMA ServedDayIs ==
  ASSUME NEW t \in Int
  PROVE  ServedDay(t) = ServiceDay(t).date
<1> DEFINE u == t - Cutover
<1>1. /\ u \in Int /\ Cutover \in Int /\ Day \in Int
  BY TimetableAssumption
<1>2. /\ u \div Day \in Int /\ u % Day \in 0 .. Day - 1
      /\ u = (u \div Day) * Day + (u % Day)
  BY <1>1, DayParts
<1>3. PICK d, s : d = u \div Day /\ s = (u % Day) + Cutover
  OBVIOUS
<1> HIDE DEF u
<1>4. /\ d \in Int /\ s \in Int /\ Cutover <= s /\ s < Day + Cutover
      /\ d * Day \in Int
  BY <1>1, <1>2, <1>3
<1>5. ToTime(d, s) = t
  BY <1>1, <1>2, <1>3, <1>4 DEF ToTime, u
<1>6. d = ServiceDay(t).date
  BY <1>4, <1>5, ServiceDayOf, OneServiceDay
<1> QED  BY <1>3, <1>6 DEF ServedDay, u

------------------------------------------------------------------------------
(* The order of rows, the first ones and the last one. *)

LEMMA Order ==
  ASSUME NEW r \in Row, NEW s \in Row, NEW x \in Row
  PROVE  /\ ~ Before(r, r)
         /\ Before(r, s) /\ Before(s, x) => Before(r, x)
         /\ Before(s, r) /\ ~ Before(s, x) => Before(x, r)
BY DEF Before, Row

LEMMA FirstsAre ==
  ASSUME NEW rows, IsFiniteSet(rows), NEW n \in Nat, NEW F \in Firsts(rows, n)
  PROVE  /\ F \subseteq rows /\ IsFiniteSet(F)
         /\ Cardinality(F) \in Nat /\ Cardinality(F) <= n
         /\ Cardinality(F) <= Cardinality(rows)
         /\ \A r \in F, s \in rows \ F : ~ Before(s, r)
         /\ F # rows => Cardinality(F) = n
<1>1. /\ F \in SUBSET rows
      /\ Cardinality(F) = IF Cardinality(rows) < n THEN Cardinality(rows) ELSE n
      /\ \A r \in F, s \in rows \ F : ~ Before(s, r)
  BY DEF Firsts
<1>2. /\ IsFiniteSet(F) /\ Cardinality(F) <= Cardinality(rows)
      /\ Cardinality(rows) = Cardinality(F) => rows = F
  BY <1>1, FS_Subset
<1>3. Cardinality(F) \in Nat /\ Cardinality(rows) \in Nat
  BY <1>2, FS_CardinalityType
<1> QED  BY <1>1, <1>2, <1>3

(* More rows than there are do not fit in. *)
LEMMA Crowded ==
  ASSUME NEW F, IsFiniteSet(F), NEW G, G \subseteq F, NEW r \in F, r \notin G
  PROVE  Cardinality(G) < Cardinality(F)
<1>1. G \in SUBSET (F \ {r})
  OBVIOUS
<1>2. IsFiniteSet(F \ {r}) /\ Cardinality(F \ {r}) = Cardinality(F) - 1
  BY FS_RemoveElement
<1>3. IsFiniteSet(G) /\ Cardinality(G) <= Cardinality(F \ {r})
  BY <1>1, <1>2, FS_Subset
<1>4. Cardinality(F) \in Nat /\ Cardinality(G) \in Nat
  BY <1>3, FS_CardinalityType
<1> QED  BY <1>2, <1>3, <1>4

(* A finite set of rows has a last one. *)
LEMMA LastExists ==
  ASSUME NEW rows, rows \subseteq Row, IsFiniteSet(rows), rows # {}
  PROVE  \E o \in rows : \A s \in rows : ~ Before(o, s)
<1> SUFFICES ASSUME \A o \in rows : \E s \in rows : Before(o, s)
             PROVE  FALSE
  OBVIOUS
<1> DEFINE Endless == {T \in SUBSET rows :
                         T # {} /\ \A o \in T : \E s \in T : Before(o, s)}
<1>1. Endless \subseteq FiniteSubsetsOf(rows)
  BY FS_Subset DEF FiniteSubsetsOf
<1>2. rows \in Endless
  OBVIOUS
<1>3. PICK T \in Endless :
        \A U \in Endless : ~ (<<U, T>> \in StrictSubsetOrdering(rows))
  BY <1>1, <1>2, FS_StrictSubsetOrderingWellFounded, WFMin
<1>4. PICK o \in T : TRUE
  OBVIOUS
<1> DEFINE U == {s \in T : Before(o, s)}
<1>5. U \in SUBSET rows /\ U # {}
  OBVIOUS
<1>6. \A s \in U : \E x \in U : Before(s, x)
  BY Order
<1>7. U \in Endless
  BY <1>5, <1>6
<1>8. o \notin U
  BY Order
<1>9. <<U, T>> \in StrictSubsetOrdering(rows)
  BY <1>5, <1>8 DEF StrictSubsetOrdering
<1> QED  BY <1>3, <1>7, <1>9

(* The sequence number the destination is compared with is that of one of  *)
(* the trip's rows, after which there is none.                             *)
LEMMA OriginIsLast ==
  ASSUME NEW rows, rows \subseteq Row, IsFiniteSet(rows), NEW r \in rows
  PROVE  \E o \in rows : /\ o.trip = r.trip
                         /\ origin_seq_by_trip(rows, r.trip) = o.seq
                         /\ ~ Before(o, r)
<1> DEFINE own == {s \in rows : s.trip = r.trip}
<1>1. own \subseteq Row /\ IsFiniteSet(own) /\ r \in own
  BY FS_Subset
<1>2. \E o \in own : \A s \in own : ~ Before(o, s)
  BY <1>1, LastExists
<1>3. \E o \in rows : /\ o.trip = r.trip
                      /\ \A s \in rows : s.trip = r.trip => ~ Before(o, s)
  BY <1>2
<1>4. PICK o : o = CHOOSE x \in rows :
                     /\ x.trip = r.trip
                     /\ \A s \in rows : s.trip = r.trip => ~ Before(x, s)
  OBVIOUS
<1>5. /\ o \in rows /\ o.trip = r.trip
      /\ \A s \in rows : s.trip = r.trip => ~ Before(o, s)
  BY <1>3, <1>4
<1>6. origin_seq_by_trip(rows, r.trip) = o.seq
  BY <1>4 DEF origin_seq_by_trip
<1> QED  BY <1>5, <1>6

------------------------------------------------------------------------------
(* The rows of a branch. *)

(* What an import may have left behind. *)
Kept(base) == base \in Database /\ base \in Imports(base.release, base.today)

LEMMA KeptAre ==
  ASSUME NEW base, Kept(base)
  PROVE  /\ base.release \in Releases /\ base.today \in Int
         /\ base.kept \subseteq TripsOf(base.release)
         /\ base.sound => base.kept = _compute_valid_trip_ids(base.release, base.today)
BY DEF Kept, Imports, Database, _compute_valid_trip_ids

LEMMA Imported ==
  ASSUME NEW release \in Releases, NEW today \in Int,
         NEW base \in Imports(release, today)
  PROVE  Kept(base) /\ base.release = release
<1>1. PICK s \in BOOLEAN :
        base = [release |-> release, today |-> today, sound |-> s,
                kept |-> IF s THEN _compute_valid_trip_ids(release, today) ELSE {}]
  BY DEF Imports
<1>2. _compute_valid_trip_ids(release, today) \subseteq Trips
  BY TimetableAssumption DEF _compute_valid_trip_ids, TripsOf, Releases
<1>3. base \in Database
  BY <1>1, <1>2 DEF Database
<1>4. base.release = release /\ base.today = today
  BY <1>1
<1> QED  BY <1>3, <1>4 DEF Kept

(* A row of a database: a call of a trip it keeps, on a day the trip runs. *)
From(row, base) ==
  /\ row.trip \in base.kept
  /\ RunsOn(ServiceOf(base.release, row.trip), row.date)
  /\ \E c \in CallsOf(base.release, row.trip) :
       c.seq = row.seq /\ c.stop = row.stop /\ c.dep = row.secs

LEMMA CallTypes ==
  ASSUME NEW release \in Releases, NEW trip \in TripsOf(release)
  PROVE  /\ CallsOf(release, trip) \subseteq Call
         /\ IsFiniteSet(CallsOf(release, trip)) /\ trip \in Trips
         /\ IsFiniteSet(TripsOf(release))
         /\ ServiceOf(release, trip) \in Service
BY TimetableAssumption DEF Releases, TripsOf, CallsOf, ServiceOf

LEMMA CallsAre ==
  ASSUME NEW base, Kept(base), NEW trip \in base.kept
  PROVE  Calls(base, trip) = CallsOf(base.release, trip)
BY DEF Calls, CallsOf

LEMMA BranchRow ==
  ASSUME NEW base, Kept(base), NEW query \in Query, NEW date \in Int,
         NEW secs \in Int, NEW row
  PROVE  row \in Branch(base, query, date, secs) <=>
           /\ row \in Row /\ From(row, base)
           /\ row.date = date /\ row.time = ToTime(date, row.secs)
           /\ row.secs >= secs
           /\ row.stop \in Siblings(query.stop)
           /\ Passes(Platform[row.stop], query.platform)
           /\ Passes(Schedule[base.release].trips[row.trip].route, query.route)
<1>0. base.release \in Releases /\ base.kept \subseteq TripsOf(base.release)
  BY KeptAre
<1>1. ASSUME row \in Branch(base, query, date, secs)
      PROVE  /\ row \in Row /\ From(row, base)
             /\ row.date = date /\ row.time = ToTime(date, row.secs)
             /\ row.secs >= secs
             /\ row.stop \in Siblings(query.stop)
             /\ Passes(Platform[row.stop], query.platform)
             /\ Passes(Schedule[base.release].trips[row.trip].route, query.route)
  <2>1. PICK t \in base.kept :
          /\ RunsOn(ServiceOf(base.release, t), date)
          /\ Passes(Schedule[base.release].trips[t].route, query.route)
          /\ \E c \in Calls(base, t) :
               /\ c.stop \in Siblings(query.stop) /\ c.dep >= secs
               /\ Passes(Platform[c.stop], query.platform)
               /\ row = [trip |-> t, seq |-> c.seq, stop |-> c.stop, date |-> date,
                         secs |-> c.dep, time |-> ToTime(date, c.dep)]
    BY <1>1 DEF Branch
  <2>2. PICK c \in CallsOf(base.release, t) :
               /\ c.stop \in Siblings(query.stop) /\ c.dep >= secs
               /\ Passes(Platform[c.stop], query.platform)
               /\ row = [trip |-> t, seq |-> c.seq, stop |-> c.stop, date |-> date,
                         secs |-> c.dep, time |-> ToTime(date, c.dep)]
    BY <2>1, CallsAre
  <2>3. c \in Call /\ t \in Trips
    BY <1>0, CallTypes
  <2>4. c.seq \in Nat /\ c.stop \in Stops /\ c.dep \in Nat /\ c.dep \in Int
    BY <2>3 DEF Call
  <2>5. ToTime(date, c.dep) \in Int
    BY <2>4, ToTimeType
  <2>6. row \in Row
    BY <2>2, <2>3, <2>4, <2>5 DEF Row
  <2> QED  BY <2>1, <2>2, <2>6 DEF From
<1>2. ASSUME row \in Row, From(row, base),
             row.date = date, row.time = ToTime(date, row.secs), row.secs >= secs,
             row.stop \in Siblings(query.stop),
             Passes(Platform[row.stop], query.platform),
             Passes(Schedule[base.release].trips[row.trip].route, query.route)
      PROVE  row \in Branch(base, query, date, secs)
  <2>1. PICK c \in CallsOf(base.release, row.trip) :
          c.seq = row.seq /\ c.stop = row.stop /\ c.dep = row.secs
    BY <1>2 DEF From
  <2>2. c \in Calls(base, row.trip)
    BY <1>2, <2>1, CallsAre DEF From
  <2>3. row = [trip |-> row.trip, seq |-> c.seq, stop |-> c.stop, date |-> date,
               secs |-> c.dep, time |-> ToTime(date, c.dep)]
    BY <1>2, <2>1 DEF Row
  <2> QED  BY <1>2, <2>1, <2>2, <2>3 DEF Branch, From
<1> QED  BY <1>1, <1>2

LEMMA BranchFinite ==
  ASSUME NEW base, Kept(base), NEW query \in Query, NEW date \in Int,
         NEW secs \in Int
  PROVE  IsFiniteSet(Branch(base, query, date, secs))
<1> DEFINE Fits(t) == /\ RunsOn(ServiceOf(base.release, t), date)
                      /\ Passes(Schedule[base.release].trips[t].route, query.route)
           Trip == {t \in base.kept : Fits(t)}
           Wanted(t) == {c \in Calls(base, t) :
                           /\ c.stop \in Siblings(query.stop) /\ c.dep >= secs
                           /\ Passes(Platform[c.stop], query.platform)}
           AsRow(t, c) == [trip |-> t, seq |-> c.seq, stop |-> c.stop, date |-> date,
                           secs |-> c.dep, time |-> ToTime(date, c.dep)]
           Of(t) == {AsRow(t, c) : c \in Wanted(t)}
<1>0. base.release \in Releases /\ base.kept \subseteq TripsOf(base.release)
  BY KeptAre
<1>1. IsFiniteSet(TripsOf(base.release))
  BY <1>0, TimetableAssumption DEF TripsOf, Releases
<1>2. IsFiniteSet(Trip)
  <2>1. Trip \in SUBSET TripsOf(base.release)
    BY <1>0
  <2> QED  BY <1>1, <2>1, FS_Subset
<1>3. \A t \in Trip : IsFiniteSet(Of(t))
  <2> SUFFICES ASSUME NEW t \in Trip  PROVE IsFiniteSet(Of(t))
    OBVIOUS
  <2>1. IsFiniteSet(CallsOf(base.release, t))
    BY <1>0, CallTypes
  <2>2. Wanted(t) \in SUBSET CallsOf(base.release, t)
    BY CallsAre
  <2>3. IsFiniteSet(Wanted(t))
    BY <2>1, <2>2, FS_Subset
  <2> DEFINE f == [c \in Wanted(t) |-> AsRow(t, c)]
  <2>4. f \in Surjection(Wanted(t), Of(t))
    BY DEF Surjection
  <2> QED  BY <2>3, <2>4, FS_Surjection
<1>4. IsFiniteSet({Of(t) : t \in Trip})
  <2> DEFINE f == [t \in Trip |-> Of(t)]
  <2>1. f \in Surjection(Trip, {Of(t) : t \in Trip})
    <3> HIDE DEF Of, Trip
    <3> QED  BY DEF Surjection
  <2> QED  BY <1>2, <2>1, FS_Surjection
<1>5. IsFiniteSet(UNION {Of(t) : t \in Trip})
  BY <1>3, <1>4, FS_UNION
<1>6. Branch(base, query, date, secs) = UNION {Of(t) : t \in Trip}
  BY DEF Branch
<1> QED  BY <1>5, <1>6

------------------------------------------------------------------------------
(* One query: what its two branches select from, what it may gather, and   *)
(* what it may answer if the database stays and no statement fails.        *)

TodayRows(base, query) ==
  Branch(base, query, ServiceDay(query.at).date, ServiceDay(query.at).secs)
YesterdayRows(base, query) ==
  Branch(base, query, ServiceDay(query.at).date - 1, ServiceDay(query.at).secs + Day)

Selection(base, rows, dest) ==
  IF dest = None THEN rows ELSE _filter_by_destination(base, rows, dest)

Gathered(base, query, rows) ==
  \E A \in Firsts(TodayRows(base, query), query.limit),
     B \in Firsts(YesterdayRows(base, query), query.limit) : rows = A \cup B

IsAnswer(base, query, F) ==
  \E A \in Firsts(TodayRows(base, query), query.limit),
     B \in Firsts(YesterdayRows(base, query), query.limit) :
    F \in Firsts(Selection(base, A \cup B, query.dest), query.limit)

(* A row a query may find: it departs in time, at the station. *)
Fit(row, base, query) ==
  /\ row \in Row /\ From(row, base)
  /\ row.time = ToTime(row.date, row.secs) /\ row.time >= query.at
  /\ row.date <= ServiceDay(query.at).date
  /\ row.stop \in Siblings(query.stop)

LEMMA Later ==
  ASSUME NEW d \in Int, NEW s \in Int, NEW u \in Int
  PROVE  s <= u <=> ToTime(d, s) <= ToTime(d, u)
BY TimetableAssumption DEF ToTime

LEMMA RowsFit ==
  ASSUME NEW base, Kept(base), NEW query \in Query
  PROVE  /\ \A row \in TodayRows(base, query) \cup YesterdayRows(base, query) :
              Fit(row, base, query)
         /\ IsFiniteSet(TodayRows(base, query))
         /\ IsFiniteSet(YesterdayRows(base, query))
<1> DEFINE d == ServiceDay(query.at).date
           s == ServiceDay(query.at).secs
<1>1. query.at \in Int
  BY DEF Query
<1>2. /\ d \in Int /\ s \in Int /\ ToTime(d, s) = query.at
      /\ Day \in Int /\ d - 1 \in Int /\ s + Day \in Int
  BY <1>1, ServiceDayOf, TimetableAssumption
<1>3. ToTime(d - 1, s + Day) = query.at
  BY <1>2, DayBefore
<1> HIDE DEF d, s
<1>4. TodayRows(base, query) = Branch(base, query, d, s)
  BY DEF TodayRows, d, s
<1>5. YesterdayRows(base, query) = Branch(base, query, d - 1, s + Day)
  BY DEF YesterdayRows, d, s
<1>6. ASSUME NEW row \in Branch(base, query, d, s)  PROVE Fit(row, base, query)
  <2>1. /\ row \in Row /\ From(row, base) /\ row.date = d
        /\ row.time = ToTime(d, row.secs) /\ row.secs >= s
        /\ row.stop \in Siblings(query.stop)
    BY <1>2, BranchRow
  <2>2. row.secs \in Int
    BY <2>1 DEF Row
  <2>3. ToTime(d, s) <= ToTime(d, row.secs)
    BY <1>2, <2>1, <2>2, Later
  <2> QED  BY <1>2, <2>1, <2>3 DEF Fit, d
<1>7. PICK e, u : e = d - 1 /\ u = s + Day
  OBVIOUS
<1>8. /\ e \in Int /\ u \in Int /\ ToTime(e, u) = query.at /\ e <= d
      /\ YesterdayRows(base, query) = Branch(base, query, e, u)
  BY <1>2, <1>3, <1>5, <1>7
<1>9. ASSUME NEW row \in Branch(base, query, e, u)  PROVE Fit(row, base, query)
  <2>1. /\ row \in Row /\ From(row, base) /\ row.date = e
        /\ row.time = ToTime(e, row.secs) /\ row.secs >= u
        /\ row.stop \in Siblings(query.stop)
    BY <1>8, BranchRow
  <2>2. row.secs \in Int
    BY <2>1 DEF Row
  <2>3. ToTime(e, u) <= ToTime(e, row.secs)
    BY <1>8, <2>1, <2>2, Later
  <2> QED  BY <1>8, <2>1, <2>3 DEF Fit, d
<1> QED  BY <1>2, <1>4, <1>6, <1>8, <1>9, BranchFinite

LEMMA SelectionIs ==
  ASSUME NEW rows, IsFiniteSet(rows), NEW base, NEW dest
  PROVE  /\ Selection(base, rows, dest) \subseteq rows
         /\ IsFiniteSet(Selection(base, rows, dest))
         /\ Cardinality(Selection(base, rows, dest)) <= Cardinality(rows)
<1>1. Selection(base, rows, dest) \in SUBSET rows
  BY DEF Selection, _filter_by_destination
<1> QED  BY <1>1, FS_Subset

LEMMA GatheredFit ==
  ASSUME NEW base, Kept(base), NEW query \in Query, NEW rows,
         Gathered(base, query, rows)
  PROVE  /\ IsFiniteSet(rows) /\ rows \subseteq Row
         /\ \A row \in rows : Fit(row, base, query)
<1>0. query.limit \in Nat
  BY DEF Query
<1>1. PICK A \in Firsts(TodayRows(base, query), query.limit),
           B \in Firsts(YesterdayRows(base, query), query.limit) : rows = A \cup B
  BY DEF Gathered
<1>2. IsFiniteSet(TodayRows(base, query)) /\ IsFiniteSet(YesterdayRows(base, query))
  BY RowsFit
<1>3. A \subseteq TodayRows(base, query) /\ IsFiniteSet(A)
  BY <1>0, <1>2, FirstsAre
<1>4. B \subseteq YesterdayRows(base, query) /\ IsFiniteSet(B)
  BY <1>0, <1>2, FirstsAre
<1>5. IsFiniteSet(A \cup B)
  BY <1>3, <1>4, FS_Union
<1>6. \A row \in rows : Fit(row, base, query)
  BY <1>1, <1>3, <1>4, RowsFit
<1> QED  BY <1>1, <1>5, <1>6 DEF Fit

------------------------------------------------------------------------------
(* The destination filter. *)

(* Where a row was found, its trip's calls are in order and so are the     *)
(* numbers: what passes the filter goes on to the destination.             *)
LEMMA SelectionServes ==
  ASSUME NEW seen, \A b \in seen : Kept(b), NEW base \in seen,
         NEW rows, rows \subseteq Row, IsFiniteSet(rows), NEW stop,
         \A row \in rows : row.stop \in Siblings(stop) /\ \E b \in seen : From(row, b),
         NEW dest, NEW r \in Selection(base, rows, dest)
  PROVE  Served(seen, r, stop, dest)
<1> SUFFICES ASSUME dest # None, Ascending(seen, r.trip, Siblings(stop))
             PROVE  \E b \in seen : GoesOn(b.release, r, dest)
  BY DEF Served
<1>1. r \in rows
  BY SelectionIs
<1>2. PICK c \in Calls(base, r.trip) :
        c.stop = dest /\ c.seq > origin_seq_by_trip(rows, r.trip)
  BY DEF Selection, _filter_by_destination
<1>3. PICK o \in rows : /\ o.trip = r.trip
                        /\ origin_seq_by_trip(rows, r.trip) = o.seq
                        /\ ~ Before(o, r)
  BY <1>1, OriginIsLast
<1>4. r \in Row /\ o \in Row
  BY <1>1
<1>5. r.secs <= o.secs
  BY <1>3, <1>4 DEF Before, Row
<1>6. PICK a \in seen : From(r, a)
  BY <1>1
<1>7. PICK b \in seen : From(o, b)
  OBVIOUS
<1>8. PICK d \in CallsOf(a.release, r.trip) :
        d.seq = r.seq /\ d.stop = r.stop /\ d.dep = r.secs
  BY <1>6 DEF From
<1>9. PICK e \in CallsOf(b.release, r.trip) :
        e.seq = o.seq /\ e.stop = o.stop /\ e.dep = o.secs
  BY <1>3, <1>7 DEF From
<1>10. r.trip \in TripsOf(a.release) /\ r.trip \in TripsOf(b.release)
  BY <1>3, <1>6, <1>7, KeptAre DEF From
<1>11. d.stop \in Siblings(stop) /\ e.stop \in Siblings(stop)
  BY <1>1, <1>8, <1>9
<1>12. r.seq <= o.seq
  BY <1>5, <1>8, <1>9, <1>10, <1>11 DEF Ascending
<1>13. r.trip \in base.kept /\ c \in CallsOf(base.release, r.trip)
  BY <1>2 DEF Calls, CallsOf
<1>14. r.trip \in TripsOf(base.release) /\ base.release \in Releases
  BY <1>13, KeptAre
<1>15. c \in Call
  BY <1>13, <1>14, CallTypes
<1>16. c.seq > r.seq
  BY <1>2, <1>3, <1>4, <1>12, <1>15 DEF Call, Row
<1> QED  BY <1>2, <1>13, <1>14, <1>16 DEF GoesOn

(* If trips call at the station once, the filter keeps just those rows.    *)
LEMMA SelectionIfOnce ==
  ASSUME NEW base, Kept(base), NEW stop, Once(base.release, Siblings(stop)),
         NEW rows, rows \subseteq Row, IsFiniteSet(rows),
         \A row \in rows : From(row, base) /\ row.stop \in Siblings(stop),
         NEW dest
  PROVE  Selection(base, rows, dest) =
           {r \in rows : dest = None \/ GoesOn(base.release, r, dest)}
<1>1. CASE dest = None
  BY <1>1 DEF Selection
<1>2. CASE dest # None
  <2> SUFFICES ASSUME NEW r \in rows
               PROVE  (\E c \in Calls(base, r.trip) :
                         c.stop = dest /\ c.seq > origin_seq_by_trip(rows, r.trip))
                      <=> GoesOn(base.release, r, dest)
    BY <1>2 DEF Selection, _filter_by_destination
  <2>1. PICK o \in rows : /\ o.trip = r.trip
                          /\ origin_seq_by_trip(rows, r.trip) = o.seq
    BY OriginIsLast
  <2>2. From(r, base) /\ From(o, base)
    OBVIOUS
  <2>3. r.trip \in base.kept /\ r.trip \in TripsOf(base.release)
    BY <2>2, KeptAre DEF From
  <2>4. PICK d \in CallsOf(base.release, r.trip) : d.seq = r.seq /\ d.stop = r.stop
    BY <2>2 DEF From
  <2>5. PICK e \in CallsOf(base.release, r.trip) : e.seq = o.seq /\ e.stop = o.stop
    BY <2>1, <2>2 DEF From
  <2>6. d = e
    BY <2>3, <2>4, <2>5 DEF Once
  <2>7. origin_seq_by_trip(rows, r.trip) = r.seq
    BY <2>1, <2>4, <2>5, <2>6
  <2>8. Calls(base, r.trip) = CallsOf(base.release, r.trip)
    BY <2>3, CallsAre
  <2> QED  BY <2>3, <2>7, <2>8 DEF GoesOn
<1> QED  BY <1>1, <1>2

------------------------------------------------------------------------------
(* What is due. *)

LEMMA DueIs ==
  ASSUME NEW release \in Releases, NEW stop, NEW route, NEW platform,
         NEW time \in Int, NEW row
  PROVE  row \in Due(release, stop, route, platform, time) <=>
           /\ row \in Row /\ row.trip \in TripsOf(release)
           /\ RunsOn(ServiceOf(release, row.trip), row.date)
           /\ \E c \in CallsOf(release, row.trip) :
                c.seq = row.seq /\ c.stop = row.stop /\ c.dep = row.secs
           /\ row.time = ToTime(row.date, row.secs) /\ row.time >= time
           /\ row.date \in ServedDay(time) - 1 .. ServedDay(time)
           /\ row.stop \in Siblings(stop)
           /\ Passes(Platform[row.stop], platform)
           /\ Passes(Schedule[release].trips[row.trip].route, route)
<1> DEFINE AsRow(t, d, c) == [trip |-> t, seq |-> c.seq, stop |-> c.stop, date |-> d,
                              secs |-> c.dep, time |-> ToTime(d, c.dep)]
           Days == ServedDay(time) - 1 .. ServedDay(time)
           Right == /\ row.time >= time
                    /\ row.stop \in Siblings(stop)
                    /\ Passes(Platform[row.stop], platform)
                    /\ Passes(Schedule[release].trips[row.trip].route, route)
                    /\ RunsOn(ServiceOf(release, row.trip), row.date)
<1>1. row \in Due(release, stop, route, platform, time) <=>
        /\ \E t \in TripsOf(release), d \in Days : \E c \in CallsOf(release, t) :
             row = AsRow(t, d, c)
        /\ Right
  <2> DEFINE Of(t, d) == {AsRow(t, d, c) : c \in CallsOf(release, t)}
             All == UNION {Of(t, d) : t \in TripsOf(release), d \in Days}
  <2>1. row \in Due(release, stop, route, platform, time) <=> row \in All /\ Right
    BY DEF Due
  <2> HIDE DEF Days, AsRow
  <2>2. row \in All <=>
          \E t \in TripsOf(release), d \in Days : \E c \in CallsOf(release, t) :
            row = AsRow(t, d, c)
    <3>1. ASSUME NEW t \in TripsOf(release), NEW d \in Days
          PROVE  row \in Of(t, d) <=>
                   \E c \in CallsOf(release, t) : row = AsRow(t, d, c)
      OBVIOUS
    <3> HIDE DEF Of
    <3>2. row \in All <=> \E t \in TripsOf(release), d \in Days : row \in Of(t, d)
      OBVIOUS
    <3> QED  BY <3>1, <3>2
  <2> QED  BY <2>1, <2>2
<1>2. Days \subseteq Int
  <2>1. ServedDay(time) \in Int
    BY ServedDayIs, ServiceDayOf
  <2> QED  BY <2>1
<1>3. ASSUME NEW t \in TripsOf(release), NEW d \in Days, NEW c \in CallsOf(release, t),
             row = AsRow(t, d, c)
      PROVE  /\ row \in Row /\ row.trip \in TripsOf(release) /\ row.date \in Days
             /\ row.time = ToTime(row.date, row.secs)
             /\ \E e \in CallsOf(release, row.trip) :
                  e.seq = row.seq /\ e.stop = row.stop /\ e.dep = row.secs
  <2>1. c \in Call /\ t \in Trips
    BY CallTypes
  <2>2. c.seq \in Nat /\ c.stop \in Stops /\ c.dep \in Nat /\ c.dep \in Int /\ d \in Int
    BY <1>2, <2>1 DEF Call
  <2>3. ToTime(d, c.dep) \in Int
    BY <2>2, ToTimeType
  <2>4. row \in Row
    BY <1>3, <2>1, <2>2, <2>3 DEF Row
  <2>5. row.trip = t /\ row.date = d /\ row.seq = c.seq /\ row.stop = c.stop
        /\ row.secs = c.dep /\ row.time = ToTime(d, c.dep)
    BY <1>3
  <2> QED  BY <2>4, <2>5
<1>4. ASSUME row \in Row, row.trip \in TripsOf(release), row.date \in Days,
             row.time = ToTime(row.date, row.secs),
             NEW c \in CallsOf(release, row.trip),
             c.seq = row.seq, c.stop = row.stop, c.dep = row.secs
      PROVE  row = AsRow(row.trip, row.date, c)
  BY <1>4 DEF Row
<1> HIDE DEF Days, AsRow, Right
<1>5. ASSUME row \in Due(release, stop, route, platform, time)
      PROVE  /\ row \in Row /\ row.trip \in TripsOf(release)
             /\ row.time = ToTime(row.date, row.secs) /\ row.date \in Days
             /\ \E c \in CallsOf(release, row.trip) :
                  c.seq = row.seq /\ c.stop = row.stop /\ c.dep = row.secs
             /\ Right
  BY <1>1, <1>3, <1>5
<1>6. ASSUME row \in Row, row.trip \in TripsOf(release),
             row.time = ToTime(row.date, row.secs), row.date \in Days,
             \E c \in CallsOf(release, row.trip) :
                  c.seq = row.seq /\ c.stop = row.stop /\ c.dep = row.secs,
             Right
      PROVE  row \in Due(release, stop, route, platform, time)
  <2>1. PICK c \in CallsOf(release, row.trip) :
          c.seq = row.seq /\ c.stop = row.stop /\ c.dep = row.secs
    BY <1>6
  <2>2. row = AsRow(row.trip, row.date, c)
    BY <1>4, <1>6, <2>1
  <2> QED  BY <1>1, <1>6, <2>1, <2>2
<1> QED  BY <1>5, <1>6 DEF Days, Right

(* An import keeps what runs on the days it vouches for. *)
LEMMA CoveredKept ==
  ASSUME NEW base, Kept(base), NEW rows, Covers(base, rows), NEW row \in rows,
         row \in Row, row.trip \in TripsOf(base.release),
         RunsOn(ServiceOf(base.release, row.trip), row.date)
  PROVE  row.trip \in base.kept
<1>1. PICK c, d : c = ServiceOf(base.release, row.trip) /\ d = row.date
  OBVIOUS
<1>2. /\ base.release \in Releases /\ base.today \in Int
      /\ base.kept = _compute_valid_trip_ids(base.release, base.today)
  BY KeptAre DEF Covers
<1>3. c \in Service
  BY <1>1, <1>2, CallTypes
<1>4. d \in Int /\ Window \in Nat
  BY <1>1, TimetableAssumption DEF Row
<1>5. base.today <= d /\ d <= base.today + Window
  BY <1>1 DEF Covers
<1>6. \/ c.first <= d /\ d <= c.last /\ c.days # {}
      \/ d \in c.added
  BY <1>1 DEF RunsOn
<1>7. c.first \in Int /\ c.last \in Int
  BY <1>3 DEF Service
<1>8. KeptByRange(c, base.today) \/ KeptByDate(c, base.today)
  BY <1>2, <1>4, <1>5, <1>6, <1>7 DEF KeptByRange, KeptByDate
<1> QED  BY <1>1, <1>2, <1>8 DEF _compute_valid_trip_ids

(* Each branch selects from just what is due of its service day. *)
LEMMA BranchIsDue ==
  ASSUME NEW base, Kept(base), NEW query \in Query,
         NEW due, due = Due(base.release, query.stop, query.route, query.platform, query.at),
         Covers(base, due), NEW date \in Int, NEW secs \in Int,
         ToTime(date, secs) = query.at,
         date \in ServedDay(query.at) - 1 .. ServedDay(query.at)
  PROVE  Branch(base, query, date, secs) = OnDay(due, date)
<1>1. query.at \in Int /\ base.release \in Releases
  BY KeptAre DEF Query
<1>2. ASSUME NEW row \in Branch(base, query, date, secs)  PROVE row \in OnDay(due, date)
  <2>1. /\ row \in Row /\ From(row, base) /\ row.date = date
        /\ row.time = ToTime(date, row.secs) /\ row.secs >= secs
        /\ row.stop \in Siblings(query.stop)
        /\ Passes(Platform[row.stop], query.platform)
        /\ Passes(Schedule[base.release].trips[row.trip].route, query.route)
    BY BranchRow
  <2>2. row.secs \in Int
    BY <2>1 DEF Row
  <2>3. ToTime(date, secs) <= ToTime(date, row.secs)
    BY <2>1, <2>2, Later
  <2>4. PICK t : t = ToTime(date, row.secs)
    OBVIOUS
  <2>5. t \in Int
    BY <2>2, <2>4, ToTimeType
  <2>6. row.time >= query.at
    BY <1>1, <2>1, <2>3, <2>4, <2>5
  <2>7. row.trip \in TripsOf(base.release)
    BY <2>1, KeptAre DEF From
  <2>8. row \in Due(base.release, query.stop, query.route, query.platform, query.at)
    BY <1>1, <2>1, <2>6, <2>7, DueIs DEF From
  <2> QED  BY <2>1, <2>8 DEF OnDay
<1>3. ASSUME NEW row \in OnDay(due, date)
      PROVE  row \in Branch(base, query, date, secs)
  <2>1. row \in due /\ row.date = date
    BY DEF OnDay
  <2>2. /\ row \in Row /\ row.trip \in TripsOf(base.release)
        /\ RunsOn(ServiceOf(base.release, row.trip), row.date)
        /\ \E c \in CallsOf(base.release, row.trip) :
             c.seq = row.seq /\ c.stop = row.stop /\ c.dep = row.secs
        /\ row.time = ToTime(date, row.secs) /\ row.time >= query.at
        /\ row.stop \in Siblings(query.stop)
        /\ Passes(Platform[row.stop], query.platform)
        /\ Passes(Schedule[base.release].trips[row.trip].route, query.route)
    BY <1>1, <2>1, DueIs
  <2>3. row.secs \in Int
    BY <2>2 DEF Row
  <2>4. secs <= row.secs
    BY <2>2, <2>3, Later
  <2>5. row.trip \in base.kept
    BY <2>1, <2>2, CoveredKept
  <2>6. From(row, base)
    BY <2>2, <2>5 DEF From
  <2> QED  BY <2>1, <2>2, <2>3, <2>4, <2>6, BranchRow
<1> QED  BY <1>2, <1>3

(* The times the two branches start from. *)
LEMMA BranchTimes ==
  ASSUME NEW query \in Query
  PROVE  \E d, s, e, u \in Int :
           /\ d = ServiceDay(query.at).date /\ s = ServiceDay(query.at).secs
           /\ e = d - 1 /\ u = s + Day
           /\ ToTime(d, s) = query.at /\ ToTime(e, u) = query.at
           /\ ServedDay(query.at) = d
           /\ Cutover <= s /\ s < Day + Cutover /\ Day + Cutover <= u
           /\ \A base : /\ TodayRows(base, query) = Branch(base, query, d, s)
                        /\ YesterdayRows(base, query) = Branch(base, query, e, u)
<1>1. query.at \in Int /\ Day \in Int /\ Cutover \in Int
  BY TimetableAssumption DEF Query
<1>2. PICK d, s, e, u : /\ d = ServiceDay(query.at).date /\ s = ServiceDay(query.at).secs
                        /\ e = d - 1 /\ u = s + Day
  OBVIOUS
<1>3. /\ d \in Int /\ s \in Int /\ Cutover <= s /\ s < Day + Cutover
      /\ ToTime(d, s) = query.at /\ ServedDay(query.at) = d
  BY <1>1, <1>2, ServiceDayOf, ServedDayIs
<1>4. e \in Int /\ u \in Int /\ Day + Cutover <= u
  BY <1>1, <1>2, <1>3
<1>5. ToTime(e, u) = query.at
  BY <1>2, <1>3, DayBefore
<1>6. ASSUME NEW base
      PROVE  /\ TodayRows(base, query) = Branch(base, query, d, s)
             /\ YesterdayRows(base, query) = Branch(base, query, e, u)
  BY <1>2 DEF TodayRows, YesterdayRows
<1> QED  BY <1>2, <1>3, <1>4, <1>5, <1>6

------------------------------------------------------------------------------
(* What an undisturbed query answers. *)

(* The parts of an answer. *)
LEMMA AnswerParts ==
  ASSUME NEW base, Kept(base), NEW query \in Query, NEW F, IsAnswer(base, query, F)
  PROVE  \E A \in SUBSET TodayRows(base, query), B \in SUBSET YesterdayRows(base, query) :
           /\ A \in Firsts(TodayRows(base, query), query.limit)
           /\ B \in Firsts(YesterdayRows(base, query), query.limit)
           /\ F \in Firsts(Selection(base, A \cup B, query.dest), query.limit)
           /\ IsFiniteSet(A) /\ Cardinality(A) \in Nat /\ Cardinality(A) <= query.limit
           /\ IsFiniteSet(B) /\ Cardinality(B) \in Nat /\ Cardinality(B) <= query.limit
           /\ A \cup B \subseteq Row /\ IsFiniteSet(A \cup B)
           /\ \A row \in A \cup B : Fit(row, base, query)
           /\ IsFiniteSet(Selection(base, A \cup B, query.dest))
           /\ Selection(base, A \cup B, query.dest) \subseteq A \cup B
           /\ F \subseteq Selection(base, A \cup B, query.dest)
           /\ IsFiniteSet(F) /\ Cardinality(F) \in Nat /\ Cardinality(F) <= query.limit
<1>1. PICK A \in Firsts(TodayRows(base, query), query.limit),
           B \in Firsts(YesterdayRows(base, query), query.limit) :
        F \in Firsts(Selection(base, A \cup B, query.dest), query.limit)
  BY DEF IsAnswer
<1>2. query.limit \in Nat
  BY DEF Query
<1>3. IsFiniteSet(TodayRows(base, query)) /\ IsFiniteSet(YesterdayRows(base, query))
  BY RowsFit
<1>4. /\ A \subseteq TodayRows(base, query) /\ IsFiniteSet(A)
      /\ Cardinality(A) \in Nat /\ Cardinality(A) <= query.limit
  BY <1>2, <1>3, FirstsAre
<1>5. /\ B \subseteq YesterdayRows(base, query) /\ IsFiniteSet(B)
      /\ Cardinality(B) \in Nat /\ Cardinality(B) <= query.limit
  BY <1>2, <1>3, FirstsAre
<1>6. Gathered(base, query, A \cup B)
  BY DEF Gathered
<1>7. /\ A \cup B \subseteq Row /\ IsFiniteSet(A \cup B)
      /\ \A row \in A \cup B : Fit(row, base, query)
  BY <1>6, GatheredFit
<1>8. /\ IsFiniteSet(Selection(base, A \cup B, query.dest))
      /\ Selection(base, A \cup B, query.dest) \subseteq A \cup B
  BY <1>7, SelectionIs
<1>9. /\ F \subseteq Selection(base, A \cup B, query.dest)
      /\ IsFiniteSet(F) /\ Cardinality(F) \in Nat /\ Cardinality(F) <= query.limit
  BY <1>1, <1>2, <1>8, FirstsAre
<1> QED  BY <1>1, <1>4, <1>5, <1>7, <1>8, <1>9

(* The first ones of a branch are the earliest of its service day. *)
LEMMA FirstsAreEarliest ==
  ASSUME NEW base, Kept(base), NEW query \in Query, NEW date \in Int, NEW secs \in Int,
         NEW n, NEW A, A \in Firsts(Branch(base, query, date, secs), n)
  PROVE  A \in Earliest(Branch(base, query, date, secs), n)
<1>1. PICK rows : rows = Branch(base, query, date, secs)
  OBVIOUS
<1>2. /\ A \in SUBSET rows
      /\ Cardinality(A) = IF Cardinality(rows) < n THEN Cardinality(rows) ELSE n
      /\ \A r \in A, s \in rows \ A : ~ Before(s, r)
  BY <1>1 DEF Firsts
<1>3. ASSUME NEW r \in A, NEW s \in rows \ A  PROVE r.time <= s.time
  <2>1. /\ r \in Row /\ s \in Row /\ r.date = s.date
        /\ r.time = ToTime(date, r.secs) /\ s.time = ToTime(date, s.secs)
    BY <1>1, <1>2, BranchRow
  <2>2. r.secs \in Int /\ s.secs \in Int
    BY <2>1 DEF Row
  <2>3. r.secs <= s.secs
    BY <1>2, <2>2 DEF Before
  <2> QED  BY <2>1, <2>2, <2>3, Later
<1> QED  BY <1>1, <1>2, <1>3 DEF Earliest

(* An answer is what comes next of what is due, each service day's first   *)
(* ones less what goes elsewhere, as the places are dealt out.             *)
LEMMA AnswerIsNext ==
  ASSUME NEW base, Kept(base), NEW query \in Query,
         query.dest # None => Once(base.release, Siblings(query.stop)),
         NEW due, due = Due(base.release, query.stop, query.route, query.platform, query.at),
         Covers(base, due), NEW F, IsAnswer(base, query, F),
         NEW day, day = ServedDay(query.at)
  PROVE  \E A \in Earliest(OnDay(due, day), query.limit),
           B \in Earliest(OnDay(due, day - 1), query.limit) :
           F \in Dealt({r \in A \cup B : \/ query.dest = None
                                       \/ GoesOn(base.release, r, query.dest)},
                      query.limit)
<1>1. PICK d, s, e, u \in Int :
           /\ e = d - 1
           /\ ToTime(d, s) = query.at /\ ToTime(e, u) = query.at
           /\ ServedDay(query.at) = d
           /\ Day + Cutover <= u
           /\ TodayRows(base, query) = Branch(base, query, d, s)
           /\ YesterdayRows(base, query) = Branch(base, query, e, u)
  <2>1. \E d, s, e, u \in Int :
           /\ d = ServiceDay(query.at).date /\ s = ServiceDay(query.at).secs
           /\ e = d - 1 /\ u = s + Day
           /\ ToTime(d, s) = query.at /\ ToTime(e, u) = query.at
           /\ ServedDay(query.at) = d
           /\ Cutover <= s /\ s < Day + Cutover /\ Day + Cutover <= u
           /\ \A b : /\ TodayRows(b, query) = Branch(b, query, d, s)
                     /\ YesterdayRows(b, query) = Branch(b, query, e, u)
    BY BranchTimes
  <2> QED  BY <2>1
<1>2. PICK A \in SUBSET TodayRows(base, query), B \in SUBSET YesterdayRows(base, query) :
           /\ A \in Firsts(TodayRows(base, query), query.limit)
           /\ B \in Firsts(YesterdayRows(base, query), query.limit)
           /\ F \in Firsts(Selection(base, A \cup B, query.dest), query.limit)
           /\ A \cup B \subseteq Row /\ IsFiniteSet(A \cup B)
           /\ \A row \in A \cup B : Fit(row, base, query)
           /\ IsFiniteSet(Selection(base, A \cup B, query.dest))
           /\ Selection(base, A \cup B, query.dest) \subseteq A \cup B
           /\ F \subseteq Selection(base, A \cup B, query.dest)
           /\ IsFiniteSet(F) /\ Cardinality(F) \in Nat /\ Cardinality(F) <= query.limit
  BY ONLY Kept(base), query \in Query, IsAnswer(base, query, F), AnswerParts
<1>3. /\ Branch(base, query, d, s) = OnDay(due, d)
      /\ Branch(base, query, e, u) = OnDay(due, e)
  BY <1>1, BranchIsDue
<1>4. A \in Earliest(OnDay(due, d), query.limit)
  BY <1>1, <1>2, <1>3, FirstsAreEarliest
<1>5. B \in Earliest(OnDay(due, e), query.limit)
  BY <1>1, <1>2, <1>3, FirstsAreEarliest
<1>6. PICK suit : suit = {r \in A \cup B : \/ query.dest = None
                                          \/ GoesOn(base.release, r, query.dest)}
  OBVIOUS
<1>7. Selection(base, A \cup B, query.dest) = suit
  <2>1. CASE query.dest = None
    <3>1. suit = A \cup B
      BY <1>6, <2>1
    <3> QED  BY <2>1, <3>1 DEF Selection
  <2>2. CASE query.dest # None
    <3>1. \A row \in A \cup B : From(row, base) /\ row.stop \in Siblings(query.stop)
      BY <1>2 DEF Fit
    <3> QED  BY <1>2, <1>6, <2>2, <3>1, SelectionIfOnce
  <2> QED  BY <2>1, <2>2
<1>8. F \in Dealt(suit, query.limit)
  <2>1. /\ F \in SUBSET suit
        /\ Cardinality(F) = IF Cardinality(suit) < query.limit
                            THEN Cardinality(suit) ELSE query.limit
        /\ \A x \in F, y \in suit \ F : ~ Before(y, x)
    BY <1>2, <1>7 DEF Firsts
  <2>2. suit \subseteq A \cup B
    BY <1>6
  <2>3. ASSUME NEW x \in F, NEW y \in suit \ F
        PROVE  /\ x.date = y.date => x.time <= y.time
               /\ x.date < y.date => y.secs >= Day + Cutover
    <3>1. x \in A \cup B /\ y \in A \cup B /\ x \in Row /\ y \in Row
      BY <1>2, <2>1, <2>2
    <3>2. /\ x.time = ToTime(x.date, x.secs) /\ y.time = ToTime(y.date, y.secs)
      BY <1>2, <3>1 DEF Fit
    <3>3. /\ x.date \in Int /\ x.secs \in Int /\ y.date \in Int /\ y.secs \in Int
          /\ ~ Before(y, x)
      BY <2>1, <3>1 DEF Row
    <3>4. x.secs <= y.secs
      BY <3>3 DEF Before
    <3>5. ASSUME x.date = y.date  PROVE x.time <= y.time
      BY <3>2, <3>3, <3>4, <3>5, Later
    <3>6. ASSUME x.date < y.date  PROVE y.secs >= Day + Cutover
      <4>1. \A z \in A : z.date = d
        BY <1>1, <1>2, BranchRow
      <4>2. \A z \in B : z.date = e /\ z.secs >= u
        BY <1>1, <1>2, BranchRow
      <4>3. y.date \in {d, e}
        BY <3>1, <4>1, <4>2
      <4>4. x \in B
        BY <1>1, <3>1, <3>3, <3>6, <4>1, <4>3
      <4>5. Day + Cutover \in Int
        BY TimetableAssumption
      <4> QED  BY <1>1, <3>3, <3>4, <4>2, <4>4, <4>5
    <3> QED  BY <3>5, <3>6
  <2> QED  BY <2>1, <2>3 DEF Dealt
<1> QED  BY <1>1, <1>4, <1>5, <1>6, <1>8

(* The service day never goes back. *)
LEMMA DaysPass ==
  ASSUME NEW t \in Int, NEW u \in Int, t <= u
  PROVE  ServiceDay(t).date <= ServiceDay(u).date
<1>1. PICK d, s, e, v : /\ d = ServiceDay(t).date /\ s = ServiceDay(t).secs
                        /\ e = ServiceDay(u).date /\ v = ServiceDay(u).secs
  OBVIOUS
<1>2. /\ d \in Int /\ s \in Int /\ ToTime(d, s) = t /\ Cutover <= s
      /\ e \in Int /\ v \in Int /\ ToTime(e, v) = u /\ v < Day + Cutover
      /\ Cutover \in Int /\ Day \in Int
  BY <1>1, ServiceDayOf, TimetableAssumption
<1>3. d * Day \in Int /\ e * Day \in Int
  BY <1>2
<1>4. ASSUME e < d  PROVE FALSE
  <2>1. e * Day + Day <= d * Day
    BY <1>2, <1>4, DaysInOrder
  <2> QED  BY <1>2, <1>3, <2>1 DEF ToTime
<1> QED  BY <1>1, <1>2, <1>4

(* A service day's rows at a later time are among those at an earlier one, *)
(* and what was among the first then and is still to come is so now.       *)
LEMMA BranchPersists ==
  ASSUME NEW base, Kept(base), NEW query \in Query, NEW later \in Query,
         later.stop = query.stop, later.limit = query.limit,
         later.route = query.route, later.platform = query.platform,
         NEW date \in Int, NEW a \in Int, NEW b \in Int, a <= b,
         NoTies(Branch(base, later, date, b)),
         NEW A, A \in Firsts(Branch(base, query, date, a), query.limit),
         NEW C, C \in Firsts(Branch(base, later, date, b), later.limit),
         NEW r \in A, r.secs >= b
  PROVE  /\ r \in C
         /\ \A x \in Branch(base, later, date, b) :
              /\ x.secs \in Int
              /\ x = r \/ x.secs < r.secs \/ r.secs < x.secs
              /\ x.secs < r.secs => x \in A
<1>0. query.limit \in Nat /\ later.limit \in Nat
  BY DEF Query
<1>1. PICK then, still : /\ then = Branch(base, query, date, a)
                         /\ still = Branch(base, later, date, b)
  OBVIOUS
<1>2. IsFiniteSet(then) /\ IsFiniteSet(still)
  BY <1>1, BranchFinite
<1>3. /\ A \subseteq then /\ IsFiniteSet(A) /\ Cardinality(A) \in Nat
      /\ Cardinality(A) <= query.limit
      /\ \A x \in A, y \in then \ A : ~ Before(y, x)
  BY <1>0, <1>1, <1>2, FirstsAre
<1>4. /\ C \subseteq still /\ \A x \in C, y \in still \ C : ~ Before(y, x)
      /\ C # still => Cardinality(C) = later.limit
  BY <1>0, <1>1, <1>2, FirstsAre
<1>5. ASSUME NEW x \in still
      PROVE  /\ x \in then /\ x.secs \in Int /\ x.time = ToTime(date, x.secs)
  <2>1. /\ x \in Row /\ From(x, base) /\ x.date = date
        /\ x.time = ToTime(date, x.secs) /\ x.secs >= b
        /\ x.stop \in Siblings(query.stop)
        /\ Passes(Platform[x.stop], query.platform)
        /\ Passes(Schedule[base.release].trips[x.trip].route, query.route)
    BY <1>1, BranchRow
  <2>2. x.secs \in Int /\ x.secs >= a
    BY <2>1 DEF Row
  <2> QED  BY <1>1, <2>1, <2>2, BranchRow
<1>6. r \in still /\ r.secs \in Int
  <2>1. /\ r \in Row /\ From(r, base) /\ r.date = date
        /\ r.time = ToTime(date, r.secs)
        /\ r.stop \in Siblings(later.stop)
        /\ Passes(Platform[r.stop], later.platform)
        /\ Passes(Schedule[base.release].trips[r.trip].route, later.route)
    BY <1>1, <1>3, BranchRow
  <2> QED  BY <1>1, <2>1, BranchRow DEF Row
<1>7. ASSUME NEW x \in still, x.secs = r.secs  PROVE x = r
  <2>1. x.time = r.time
    BY <1>5, <1>6, <1>7
  <2> QED  BY <1>1, <1>6, <2>1 DEF NoTies
<1>8. ASSUME NEW x \in still, x.secs < r.secs  PROVE x \in A
  <2>1. Before(x, r)
    BY <1>8 DEF Before
  <2> QED  BY <1>3, <1>5, <2>1
<1>9. r \in C
  <2> SUFFICES ASSUME r \notin C  PROVE FALSE
    OBVIOUS
  <2>1. Cardinality(C) = query.limit
    BY <1>4, <1>6
  <2>2. ASSUME NEW x \in C  PROVE x \in A
    <3>1. x \in still /\ x # r
      BY <1>4
    <3>2. x.secs \in Int /\ ~ (r.secs < x.secs)
      BY <1>4, <1>5, <1>6, <3>1 DEF Before
    <3>3. x.secs < r.secs
      BY <1>6, <1>7, <3>1, <3>2
    <3> QED  BY <1>8, <3>1, <3>3
  <2>3. Cardinality(C) < Cardinality(A)
    BY <1>3, <2>2, Crowded
  <2> QED  BY <1>0, <1>3, <2>1, <2>3
<1>10. ASSUME NEW x \in still  PROVE x = r \/ x.secs < r.secs \/ r.secs < x.secs
  BY <1>5, <1>6, <1>7
<1> QED  BY <1>1, <1>5, <1>8, <1>9, <1>10

(* Of two undisturbed queries, the later one answers what the earlier one  *)
(* did and is still due, if no two departures are at the same time; only a *)
(* row past 27:00 may be missing, and only from a full answer.             *)
LEMMA AnswerPersists ==
  ASSUME NEW base, Kept(base), NEW query \in Query, NEW later \in Query,
         later.stop = query.stop, later.limit = query.limit,
         later.dest = query.dest, later.route = query.route,
         later.platform = query.platform, query.at <= later.at,
         query.dest # None => Once(base.release, Siblings(query.stop)),
         NEW due, due = Due(base.release, query.stop, query.route, query.platform, later.at),
         NoTies(due),
         NEW F, IsAnswer(base, query, F), NEW G, IsAnswer(base, later, G),
         NEW r \in F, r \in due
  PROVE  r \in G \/ (r.secs >= Day + Cutover /\ Cardinality(G) = query.limit)
<1>1. PICK A \in SUBSET TodayRows(base, query), B \in SUBSET YesterdayRows(base, query) :
           /\ A \in Firsts(TodayRows(base, query), query.limit)
           /\ B \in Firsts(YesterdayRows(base, query), query.limit)
           /\ F \in Firsts(Selection(base, A \cup B, query.dest), query.limit)
           /\ A \cup B \subseteq Row /\ IsFiniteSet(A \cup B)
           /\ \A row \in A \cup B : Fit(row, base, query)
           /\ IsFiniteSet(Selection(base, A \cup B, query.dest))
           /\ Selection(base, A \cup B, query.dest) \subseteq A \cup B
           /\ F \subseteq Selection(base, A \cup B, query.dest)
           /\ IsFiniteSet(F) /\ Cardinality(F) \in Nat /\ Cardinality(F) <= query.limit
  BY ONLY Kept(base), query \in Query, IsAnswer(base, query, F), AnswerParts
<1>2. PICK C \in SUBSET TodayRows(base, later), D \in SUBSET YesterdayRows(base, later) :
           /\ C \in Firsts(TodayRows(base, later), later.limit)
           /\ D \in Firsts(YesterdayRows(base, later), later.limit)
           /\ G \in Firsts(Selection(base, C \cup D, later.dest), later.limit)
           /\ C \cup D \subseteq Row /\ IsFiniteSet(C \cup D)
           /\ \A row \in C \cup D : Fit(row, base, later)
           /\ IsFiniteSet(Selection(base, C \cup D, later.dest))
           /\ Selection(base, C \cup D, later.dest) \subseteq C \cup D
           /\ G \subseteq Selection(base, C \cup D, later.dest)
           /\ IsFiniteSet(G) /\ Cardinality(G) \in Nat /\ Cardinality(G) <= later.limit
  BY ONLY Kept(base), later \in Query, IsAnswer(base, later, G), AnswerParts
<1>3. PICK d, s, e, u \in Int :
           /\ d = ServiceDay(query.at).date /\ e = d - 1 /\ u = s + Day
           /\ ToTime(d, s) = query.at /\ ToTime(e, u) = query.at
           /\ s < Day + Cutover /\ Day + Cutover <= u
           /\ TodayRows(base, query) = Branch(base, query, d, s)
           /\ YesterdayRows(base, query) = Branch(base, query, e, u)
  BY ONLY query \in Query, BranchTimes
<1>4. PICK d2, s2, e2, u2 \in Int :
           /\ d2 = ServiceDay(later.at).date /\ e2 = d2 - 1 /\ u2 = s2 + Day
           /\ ToTime(d2, s2) = later.at /\ ToTime(e2, u2) = later.at
           /\ ServedDay(later.at) = d2 /\ Day + Cutover <= u2
           /\ TodayRows(base, later) = Branch(base, later, d2, s2)
           /\ YesterdayRows(base, later) = Branch(base, later, e2, u2)
  BY ONLY later \in Query, BranchTimes
<1>5. /\ query.at \in Int /\ later.at \in Int /\ query.limit \in Nat
      /\ Day \in Int /\ Cutover \in Int
  BY TimetableAssumption DEF Query
<1>6. d <= d2
  BY <1>3, <1>4, <1>5, DaysPass
<1>7. /\ r \in A \cup B /\ r \in Row /\ Fit(r, base, query)
      /\ r.secs \in Int /\ r.date \in Int
  BY <1>1 DEF Row
<1>8. /\ r.time >= later.at /\ r.date \in {d2, e2} /\ r.time = ToTime(r.date, r.secs)
  <2>1. base.release \in Releases
    BY KeptAre
  <2>2. /\ r.time >= later.at /\ r.date \in ServedDay(later.at) - 1 .. ServedDay(later.at)
        /\ r.time = ToTime(r.date, r.secs)
    BY <1>5, <2>1, DueIs
  <2>3. r.date \in d2 - 1 .. d2
    BY <1>4, <2>2
  <2>4. r.date = d2 \/ r.date = d2 - 1
    BY <1>4, <1>7, <2>3
  <2> QED  BY <1>4, <2>2, <2>4
(* Nothing that is selected from now leaves at the same time. *)
<1>9. NoTies(Branch(base, later, d2, s2)) /\ NoTies(Branch(base, later, e2, u2))
  <2>1. ASSUME NEW y \in TodayRows(base, later) \cup YesterdayRows(base, later)
        PROVE  y \in due
    <3>1. Fit(y, base, later) /\ y \in Row
      BY RowsFit DEF Fit
    <3>2. /\ Passes(Platform[y.stop], query.platform)
          /\ Passes(Schedule[base.release].trips[y.trip].route, query.route)
          /\ y.date = d2 \/ y.date = e2
      BY <1>4, BranchRow
    <3>3. y.date \in ServedDay(later.at) - 1 .. ServedDay(later.at)
      <4>1. y.date \in d2 - 1 .. d2
        BY <1>4, <3>2
      <4> QED  BY <1>4, <4>1
    <3>4. base.release \in Releases /\ y.trip \in TripsOf(base.release)
      BY <3>1, KeptAre DEF Fit, From
    <3> QED  BY <1>5, <3>1, <3>2, <3>3, <3>4, DueIs DEF Fit, From
  <2> QED  BY <1>4, <2>1 DEF NoTies
(* The filter tells nothing else of a row that was found again. *)
<1>10. ASSUME NEW x \in A \cup B, x \in C \cup D
       PROVE  x \in Selection(base, A \cup B, query.dest)
                <=> x \in Selection(base, C \cup D, later.dest)
  <2>1. CASE query.dest = None
    BY <1>10, <2>1 DEF Selection
  <2>2. CASE query.dest # None
    <3>1. \A y \in A \cup B : From(y, base) /\ y.stop \in Siblings(query.stop)
      BY <1>1 DEF Fit
    <3>2. \A y \in C \cup D : From(y, base) /\ y.stop \in Siblings(query.stop)
      BY <1>2 DEF Fit
    <3>3. Selection(base, A \cup B, query.dest) =
            {y \in A \cup B : query.dest = None \/ GoesOn(base.release, y, query.dest)}
      BY <1>1, <2>2, <3>1, SelectionIfOnce
    <3>4. Selection(base, C \cup D, query.dest) =
            {y \in C \cup D : query.dest = None \/ GoesOn(base.release, y, query.dest)}
      BY <1>2, <2>2, <3>2, SelectionIfOnce
    <3> QED  BY <1>10, <3>3, <3>4
  <2> QED  BY <2>1, <2>2
(* So it is shown again, or the answer is full without it. *)
<1>11. ASSUME r \in C \cup D, r \notin G
       PROVE  /\ \A x \in G : ~ Before(r, x)
              /\ Cardinality(G) = query.limit
  <2>1. r \in Selection(base, C \cup D, later.dest)
    BY <1>1, <1>7, <1>10, <1>11
  <2>2. PICK rows : rows = Selection(base, C \cup D, later.dest)
    OBVIOUS
  <2>3. /\ r \in rows \ G /\ IsFiniteSet(rows) /\ G \in Firsts(rows, later.limit)
        /\ later.limit \in Nat /\ later.limit = query.limit
    BY <1>2, <1>5, <1>11, <2>1, <2>2
  <2>4. /\ \A x \in G, y \in rows \ G : ~ Before(y, x)
        /\ G # rows => Cardinality(G) = later.limit
    BY <2>3, FirstsAre
  <2> QED  BY <2>3, <2>4
(* It was one of today's, and is. *)
<1>12. CASE r \in A /\ r.date = d /\ d2 = d
  <2>1. s <= s2 /\ s2 <= r.secs
    BY <1>3, <1>4, <1>5, <1>7, <1>8, <1>12, Later
  <2>2. /\ r \in C
        /\ \A x \in Branch(base, later, d2, s2) :
             /\ x.secs \in Int
             /\ x = r \/ x.secs < r.secs \/ r.secs < x.secs
             /\ x.secs < r.secs => x \in A
    BY <1>1, <1>2, <1>3, <1>4, <1>9, <1>12, <2>1, BranchPersists
  <2>3. ASSUME r \notin G, r.secs < Day + Cutover  PROVE FALSE
    <3>1. /\ \A x \in G : ~ Before(r, x)
          /\ Cardinality(G) = query.limit
      BY <1>11, <2>2, <2>3
    <3>2. ASSUME NEW x \in G  PROVE x \in F
      <4>1. x \in C \cup D /\ x \in Selection(base, C \cup D, later.dest) /\ x # r
        BY <1>2, <2>3
      <4>2. x.secs \in Int
        BY <1>2, <4>1 DEF Row
      <4>3. ~ (r.secs < x.secs)
        BY <3>1 DEF Before
      <4>4. x \in C
        <5> SUFFICES ASSUME x \in Branch(base, later, e2, u2)  PROVE FALSE
          BY <1>2, <1>4, <4>1
        <5>1. x.secs >= u2
          BY <1>4, BranchRow
        <5> QED  BY <1>4, <1>5, <1>7, <2>3, <4>2, <4>3, <5>1
      <4>5. x \in Branch(base, later, d2, s2)
        BY <1>2, <1>4, <4>4
      <4>6. x.secs < r.secs /\ x \in A
        BY <2>2, <4>1, <4>3, <4>5
      <4>7. x \in Selection(base, A \cup B, query.dest)
        BY <1>10, <4>1, <4>6
      <4>8. \A y \in Selection(base, A \cup B, query.dest) \ F : ~ Before(y, r)
        BY <1>1, <1>5, FirstsAre
      <4>9. Before(x, r)
        BY <4>6 DEF Before
      <4> QED  BY <4>7, <4>8, <4>9
    <3>3. Cardinality(G) < Cardinality(F)
      BY <1>1, <2>3, <3>2, Crowded
    <3> QED  BY <1>1, <1>5, <3>1, <3>3
  <2>4. ASSUME r \notin G  PROVE Cardinality(G) = query.limit
    BY <1>11, <2>2, <2>4
  <2> QED  BY <1>5, <1>7, <2>3, <2>4
(* It was one of today's, and is yesterday's now. *)
<1>13. CASE r \in A /\ r.date = d /\ d = e2
  <2>1. s <= u2 /\ u2 <= r.secs
    <3>1. u2 <= r.secs
      BY <1>4, <1>5, <1>7, <1>8, <1>13, Later
    <3>2. s <= u2
      BY <1>3, <1>4, <1>5
    <3> QED  BY <3>1, <3>2
  <2>2. r \in D
    BY <1>1, <1>2, <1>3, <1>4, <1>9, <1>13, <2>1, BranchPersists
  <2>3. r.secs >= Day + Cutover
    BY <1>4, <1>5, <1>7, <2>1
  <2> QED  BY <1>11, <2>2, <2>3
(* It was one of yesterday's, and is. *)
<1>14. CASE r \in B /\ r.date = e /\ e = e2
  <2>1. u <= u2 /\ u2 <= r.secs
    BY <1>3, <1>4, <1>5, <1>7, <1>8, <1>14, Later
  <2>2. r \in D
    BY <1>1, <1>2, <1>3, <1>4, <1>9, <1>14, <2>1, BranchPersists
  <2>3. r.secs >= Day + Cutover
    BY <1>4, <1>5, <1>7, <2>1
  <2> QED  BY <1>11, <2>2, <2>3
<1>15. (r \in A /\ r.date = d) \/ (r \in B /\ r.date = e)
  BY <1>1, <1>3, <1>7, BranchRow
<1>16. \/ r.date = d /\ (d2 = d \/ d = e2)
       \/ r.date = e /\ e = e2
  <2>1. d2 = r.date \/ d2 = r.date + 1
    BY <1>4, <1>7, <1>8
  <2>2. r.date = d \/ r.date = d - 1
    BY <1>3, <1>15
  <2> QED  BY <1>3, <1>4, <1>6, <2>1, <2>2
<1> QED  BY <1>3, <1>12, <1>13, <1>14, <1>15, <1>16

------------------------------------------------------------------------------
(* The inductive invariant.  What is said of a board is said of the entries *)
(* made so far in the running cycle, and what is said of a first leg of    *)
(* those that wait to be paired; `how` is the cycle or the board.          *)

LegOne(w, how, r) ==
  /\ \E b \in how.seen : Fit(r, b, FirstQuery(w, how.at))
  /\ ~ how.faulty => Served(how.seen, r, w.stop, FirstDest(w))

Good(w, how, e) ==
  /\ LegOne(w, how, e.leg1)
  /\ e.leg2 # None =>
       /\ e.leg2.time = ToTime(e.leg2.date, e.leg2.secs)
       /\ \E b \in how.seen : From(e.leg2, b)
       /\ ~ how.faulty => Served(how.seen, e.leg2, w.transfer, w.final)
       /\ Caught(w, how, e)

(* The second leg's query asks for what leaves after the first one has     *)
(* arrived, by a database that was in place.                               *)
Ready(w, how, r, at) ==
  \E b \in how.seen : \E c \in CallsOf(b.release, r.trip) :
    /\ r.trip \in TripsOf(b.release) /\ c.stop = w.transfer /\ c.arr # None
    /\ at = ToTime(ServiceDay(how.at).date, c.arr) + Delay(how.feed, r) + w.gap

(* Which variables are in use, and that the entries will fit on the board. *)
Stages ==
  /\ pc = "idle" => q = None /\ found = {} /\ leg1 = None /\ legs = {} /\ made = {}
  /\ pc \in {"today", "arrival"} => found = {}
  /\ pc \in {"today", "yesterday", "select"} =>
       /\ leg1 = None => q = FirstQuery(watch, cycle.at)
       /\ leg1 # None => q = SecondQuery(watch, q.at) /\ Ready(watch, cycle, leg1, q.at)
  /\ leg1 = None => legs = {} /\ made = {}
  /\ leg1 # None => /\ watch.transfer # None
                    /\ Cardinality(made) + Cardinality(legs) < watch.count
  /\ IsFiniteSet(legs) /\ IsFiniteSet(made)

Bases ==
  /\ Kept(db)
  /\ cycle # None => db \in cycle.seen /\ \A b \in cycle.seen : Kept(b)

(* The rows found so far, by whatever database; and what they are if there *)
(* was but one.                                                            *)
Finds(how, step, query, rows) ==
  /\ IsFiniteSet(rows)
  /\ step \in {"yesterday", "select"} =>
       \A r \in rows : \E b \in how.seen : Fit(r, b, query)
  /\ \A b \in how.seen : Undisturbed(how, b) =>
       /\ step = "yesterday" => rows \in Firsts(TodayRows(b, query), query.limit)
       /\ step = "select" => Gathered(b, query, rows)

Journeys(w, how, waiting, entries) ==
  /\ \A r \in waiting : LegOne(w, how, r)
  /\ \A e \in entries : Good(w, how, e)
  /\ \A r \in how.offered : r \in waiting \/ Paired(w, how, r, entries)

(* The legs that are still to be paired, with the one that is. *)
Waiting == legs \cup ({leg1} \ {None})

Board(w, how) ==
  /\ how.at \in Nat
  /\ \A b \in how.seen : Kept(b)
  /\ \A e \in how.shown : Good(w, how, e)
  /\ w.transfer # None => \A r \in how.offered : Paired(w, how, r, how.shown)
  /\ w.transfer = None =>
       \A b \in how.seen : Undisturbed(how, b) =>
         IsAnswer(b, FirstQuery(w, how.at), {e.leg1 : e \in how.shown})

IInv ==
  /\ TypeOK /\ Stages /\ Bases
  /\ cycle # None => /\ Finds(cycle, pc, q, found)
                     /\ Journeys(watch, cycle, Waiting, made)
  /\ board # None => /\ Board(watch, board)
                     /\ board.at <= now
                     /\ cycle # None => board.at <= cycle.at

------------------------------------------------------------------------------
(* What later statements, imports and errors leave as it is. *)

(* The cycle `d` is `c` some statements later. *)
Grows(c, d) ==
  /\ d.at = c.at /\ d.feed = c.feed
  /\ c.seen # {} /\ c.seen \subseteq d.seen /\ (c.faulty => d.faulty)

LEMMA ServedStill ==
  ASSUME NEW seen, NEW more, seen \subseteq more, NEW row, NEW stop, NEW dest,
         Served(seen, row, stop, dest)
  PROVE  Served(more, row, stop, dest)
BY DEF Served, Ascending

LEMMA UndisturbedBefore ==
  ASSUME NEW c, NEW d, Grows(c, d), NEW b, Undisturbed(d, b)
  PROVE  Undisturbed(c, b) /\ b \in c.seen
BY DEF Grows, Undisturbed

LEMMA LegOneStill ==
  ASSUME NEW c, NEW d, Grows(c, d), NEW w, NEW r, LegOne(w, c, r)
  PROVE  LegOne(w, d, r)
<1>1. c.seen \subseteq d.seen /\ d.at = c.at
  BY DEF Grows
<1>2. ~ d.faulty => Served(d.seen, r, w.stop, FirstDest(w))
  BY <1>1, ServedStill DEF Grows, LegOne
<1>3. \E b \in d.seen : Fit(r, b, FirstQuery(w, d.at))
  BY <1>1 DEF LegOne
<1> QED  BY <1>2, <1>3 DEF LegOne

LEMMA GoodStill ==
  ASSUME NEW c, NEW d, Grows(c, d), NEW w, NEW e, Good(w, c, e)
  PROVE  Good(w, d, e)
<1>1. c.seen \subseteq d.seen
  BY DEF Grows
<1>2. LegOne(w, d, e.leg1)
  BY LegOneStill DEF Good
<1>3. ASSUME e.leg2 # None
      PROVE  /\ e.leg2.time = ToTime(e.leg2.date, e.leg2.secs)
             /\ \E b \in d.seen : From(e.leg2, b)
             /\ ~ d.faulty => Served(d.seen, e.leg2, w.transfer, w.final)
             /\ Caught(w, d, e)
  <2>1. /\ e.leg2.time = ToTime(e.leg2.date, e.leg2.secs)
        /\ \E b \in d.seen : From(e.leg2, b)
    BY <1>1, <1>3 DEF Good
  <2>2. ~ d.faulty => Served(d.seen, e.leg2, w.transfer, w.final)
    BY <1>1, <1>3, ServedStill DEF Good, Grows
  <2>3. Caught(w, c, e) /\ d.feed = c.feed
    BY <1>3 DEF Good, Grows
  <2>4. Caught(w, d, e)
    BY <2>3, UndisturbedBefore DEF Caught
  <2> QED  BY <2>1, <2>2, <2>4
<1> QED  BY <1>2, <1>3 DEF Good

LEMMA PairedStill ==
  ASSUME NEW c, NEW d, Grows(c, d), NEW w, NEW r, NEW E, NEW F, E \subseteq F,
         Paired(w, c, r, E)
  PROVE  Paired(w, d, r, F)
<1>1. d.feed = c.feed /\ d.at = c.at
  BY DEF Grows
<1> QED  BY <1>1, UndisturbedBefore DEF Paired

LEMMA ReadyStill ==
  ASSUME NEW c, NEW d, Grows(c, d), NEW w, NEW r, NEW at, Ready(w, c, r, at)
  PROVE  Ready(w, d, r, at)
BY DEF Ready, Grows

LEMMA JourneysStill ==
  ASSUME NEW c, NEW d, Grows(c, d), d.offered = c.offered,
         NEW w, NEW waiting, NEW entries, Journeys(w, c, waiting, entries)
  PROVE  Journeys(w, d, waiting, entries)
<1>1. \A r \in waiting : LegOne(w, d, r)
  BY LegOneStill DEF Journeys
<1>2. \A e \in entries : Good(w, d, e)
  BY GoodStill DEF Journeys
<1>3. \A r \in d.offered : r \in waiting \/ Paired(w, d, r, entries)
  BY PairedStill DEF Journeys
<1> QED  BY <1>1, <1>2, <1>3 DEF Journeys

LEMMA FindsStill ==
  ASSUME NEW c, NEW d, Grows(c, d), NEW step, NEW query, NEW rows,
         Finds(c, step, query, rows)
  PROVE  Finds(d, step, query, rows)
<1>1. c.seen \subseteq d.seen
  BY DEF Grows
<1> QED  BY <1>1, UndisturbedBefore DEF Finds

------------------------------------------------------------------------------
(* The watches, their queries and the delays. *)

LEMMA WatchIs ==
  ASSUME NEW w \in Watches
  PROVE  /\ w.stop \in Stops /\ w.dest \in Filter(Stops) /\ w.count \in Nat /\ w.count >= 1
         /\ w.route \in Filter(Routes) /\ w.platform \in Filter(Platforms)
         /\ w.transfer \in Filter(Stops) /\ w.final \in Filter(Stops) /\ w.gap \in Nat
         /\ FirstDest(w) \in Filter(Stops)
BY DeparturesAssumption DEF Watch, FirstDest

LEMMA FirstQueryIs ==
  ASSUME NEW w \in Watches, NEW at \in Int
  PROVE  /\ FirstQuery(w, at) \in Query
         /\ FirstQuery(w, at).stop = w.stop /\ FirstQuery(w, at).at = at
         /\ FirstQuery(w, at).limit = w.count /\ FirstQuery(w, at).dest = FirstDest(w)
         /\ FirstQuery(w, at).route = w.route
         /\ FirstQuery(w, at).platform = w.platform
BY WatchIs DEF FirstQuery, Query

LEMMA SecondQueryIs ==
  ASSUME NEW w \in Watches, NEW at \in Int, w.transfer # None
  PROVE  /\ SecondQuery(w, at) \in Query
         /\ SecondQuery(w, at).stop = w.transfer /\ SecondQuery(w, at).at = at
         /\ SecondQuery(w, at).limit = 1 /\ SecondQuery(w, at).dest = w.final
         /\ SecondQuery(w, at).route = None /\ SecondQuery(w, at).platform = None
BY WatchIs DEF SecondQuery, Query, Filter

LEMMA DelayType ==
  ASSUME NEW feed \in Feeds, NEW row
  PROVE  Delay(feed, row) \in Int
BY DeparturesAssumption DEF Delay

------------------------------------------------------------------------------
(* The steps, but for those that select. *)

LEMMA InitKeeps == Init => IInv
<1> SUFFICES ASSUME Init  PROVE IInv
  OBVIOUS
<1>1. PICK l \in Lags : db \in Imports(1, (now - l) \div Day)
  BY DEF Init
<1>2. PICK t : t = (now - l) \div Day
  OBVIOUS
<1>3. t \in Int
  <2>1. now - l \in Int
    BY DeparturesAssumption DEF Init
  <2> QED  BY <1>2, <2>1, DayParts
<1>4. 1 \in Releases
  BY TimetableAssumption DEF Releases
<1>5. Kept(db) /\ db \in Database
  BY <1>1, <1>2, <1>3, <1>4, Imported DEF Kept
<1>6. TypeOK
  BY <1>5, DeparturesAssumption DEF Init, TypeOK
<1>7. Stages
  BY FS_EmptySet DEF Init, Stages
<1> QED  BY <1>5, <1>6, <1>7 DEF Init, IInv, Bases

LEMMA TickKeeps == IInv /\ Tick => IInv'
<1> SUFFICES ASSUME IInv, Tick  PROVE IInv'
  OBVIOUS
<1> USE DEF Tick, local
<1>1. /\ now' = now + 1 /\ now < Horizon /\ (cycle # None => now = cycle.at)
      /\ UNCHANGED <<db, watch, pc, cycle, q, found, leg1, legs, made, board>>
  OBVIOUS
<1>2. now \in Nat /\ Horizon \in Nat
  BY DeparturesAssumption DEF IInv, TypeOK
<1>3. TypeOK'
  BY <1>1, <1>2 DEF IInv, TypeOK
<1>4. Stages' /\ Bases'
  BY <1>1 DEF IInv, Stages, Bases
<1>5. cycle' # None => Finds(cycle, pc, q, found)' /\ Journeys(watch, cycle, Waiting, made)'
  BY <1>1 DEF IInv, Waiting
<1>6. board' # None => /\ Board(watch, board)' /\ (board.at <= now)'
                       /\ (cycle # None => board.at <= cycle.at)'
  BY <1>1, <1>2 DEF IInv, Board
<1> QED  BY <1>3, <1>4, <1>5, <1>6 DEF IInv

LEMMA ImportKeeps == IInv /\ Import => IInv'
<1> SUFFICES ASSUME IInv, Import  PROVE IInv'
  OBVIOUS
<1> USE DEF Import, local
<1>1. PICK l \in Lags : db' \in Imports(db.release + 1, (now - l) \div Day)
  OBVIOUS
<1>2. /\ db.release + 1 \in Releases
      /\ UNCHANGED <<now, watch, pc, q, found, leg1, legs, made, board>>
      /\ cycle = None => cycle' = None
  OBVIOUS
<1>3. PICK t, r : t = (now - l) \div Day /\ r = db.release + 1
  OBVIOUS
<1>4. t \in Int
  <2>1. now - l \in Int
    BY DeparturesAssumption DEF IInv, TypeOK
  <2> QED  BY <1>3, <2>1, DayParts
<1>5. /\ Kept(db') /\ db' \in Database
  BY <1>1, <1>2, <1>3, <1>4, Imported DEF Kept
<1>6. ASSUME cycle # None
      PROVE  /\ cycle' \in Cycle /\ cycle' # None /\ Grows(cycle, cycle')
             /\ cycle'.offered = cycle.offered /\ cycle'.seen = cycle.seen \cup {db'}
             /\ cycle'.at = cycle.at
  <2>1. cycle \in Cycle /\ db \in cycle.seen
    BY <1>6 DEF IInv, TypeOK, Bases
  <2>2. cycle' = [cycle EXCEPT !.seen = cycle.seen \cup {db'}]
    BY <1>6
  <2>3. /\ cycle'.offered = cycle.offered /\ cycle'.seen = cycle.seen \cup {db'}
        /\ cycle'.at = cycle.at /\ cycle'.feed = cycle.feed
        /\ cycle'.faulty = cycle.faulty
    BY <2>1, <2>2 DEF Cycle
  <2>4. cycle' \in Cycle
    BY <1>5, <2>1, <2>2 DEF Cycle
  <2> QED  BY <2>1, <2>3, <2>4, NoneAssumption DEF Grows
<1>7. TypeOK'
  BY <1>2, <1>5, <1>6 DEF IInv, TypeOK
<1>8. Stages'
  <2>1. pc \in {"today", "yesterday", "select"} /\ leg1 # None
          => Ready(watch, cycle', leg1, q.at)
    BY <1>6, ReadyStill DEF IInv, Stages, TypeOK
  <2> QED  BY <1>2, <1>6, <2>1 DEF IInv, Stages, TypeOK
<1>9. Bases'
  BY <1>2, <1>5, <1>6 DEF IInv, Bases
<1>10. cycle' # None => Finds(cycle', pc, q, found) /\ Journeys(watch, cycle', Waiting, made)
  BY <1>2, <1>6, FindsStill, JourneysStill DEF IInv
<1>11. Waiting' = Waiting
  BY <1>2 DEF Waiting
<1>12. board' # None => /\ Board(watch, board)' /\ (board.at <= now)'
                        /\ (cycle # None => board.at <= cycle.at)'
  BY <1>2, <1>6 DEF IInv
<1> QED  BY <1>2, <1>7, <1>8, <1>9, <1>10, <1>11, <1>12 DEF IInv

LEMMA BeginKeeps == IInv /\ Begin => IInv'
<1> SUFFICES ASSUME IInv, Begin  PROVE IInv'
  OBVIOUS
<1> USE DEF Begin
<1>1. PICK f \in Feeds :
        cycle' = [at |-> now, feed |-> f, offered |-> {}, seen |-> {db},
                  faulty |-> FALSE]
  OBVIOUS
<1>2. /\ pc = "idle" /\ pc' = "today" /\ q' = FirstQuery(watch, now)
      /\ UNCHANGED <<now, db, watch, found, leg1, legs, made, board>>
  OBVIOUS
<1>3. /\ found = {} /\ leg1 = None /\ legs = {} /\ made = {} /\ Kept(db)
      /\ watch \in Watches /\ now \in Nat /\ db \in Database
  BY <1>2 DEF IInv, Stages, Bases, TypeOK
<1>4. /\ cycle'.at = now /\ cycle'.seen = {db} /\ cycle'.offered = {}
      /\ cycle' \in Cycle /\ cycle' # None
  <2>1. cycle' \in Cycle
    BY <1>1, <1>3 DEF Cycle
  <2> QED  BY <1>1, <2>1, NoneAssumption
<1>5. q' \in Query /\ q' # None
  BY <1>2, <1>3, FirstQueryIs, NoneAssumption
<1>6. TypeOK'
  BY <1>2, <1>3, <1>4, <1>5 DEF IInv, TypeOK
<1>7. Stages' /\ Bases'
  BY <1>2, <1>3, <1>4, FS_EmptySet DEF IInv, Stages, Bases
<1>8. Finds(cycle', pc', q', found')
  BY <1>2, <1>3, FS_EmptySet DEF Finds
<1>9. Journeys(watch', cycle', Waiting', made')
  BY <1>2, <1>3, <1>4 DEF Journeys, Waiting
<1>10. board' # None => /\ Board(watch, board)' /\ (board.at <= now)'
                        /\ (cycle # None => board.at <= cycle.at)'
  BY <1>2, <1>4 DEF IInv
<1> QED  BY <1>6, <1>7, <1>8, <1>9, <1>10 DEF IInv

LEMMA FaultyIs ==
  ASSUME NEW c \in Cycle, c.seen # {}
  PROVE  /\ Faulty(c) \in Cycle /\ Faulty(c) # None /\ Faulty(c).faulty
         /\ Faulty(c).at = c.at /\ Faulty(c).offered = c.offered
         /\ Faulty(c).seen = c.seen /\ Faulty(c).feed = c.feed
         /\ Grows(c, Faulty(c)) /\ Grows(c, c)
BY NoneAssumption DEF Cycle, Faulty, Grows

(* Either statement of a query: what it leaves alone, and what it finds. *)
LEMMA RunBranchIs ==
  ASSUME IInv, pc \in {"today", "yesterday"}, NEW date \in Int, NEW secs \in Int,
         RunBranch(date, secs),
         \A r \in Branch(db, q, date, secs) : Fit(r, db, q)
  PROVE  /\ cycle' \in Cycle /\ cycle' # None /\ Grows(cycle, cycle')
         /\ cycle'.at = cycle.at /\ cycle'.offered = cycle.offered
         /\ cycle'.seen = cycle.seen
         /\ IsFiniteSet(found') /\ found' \subseteq Row
         /\ pc = "yesterday" => \A r \in found' : \E b \in cycle.seen : Fit(r, b, q)
         /\ pc = "today" => \A r \in found' : Fit(r, db, q)
         /\ ~ cycle'.faulty =>
              /\ cycle' = cycle
              /\ \E F \in Firsts(Branch(db, q, date, secs), q.limit) : found' = found \cup F
<1>1. /\ cycle \in Cycle /\ cycle # None /\ db \in cycle.seen /\ Kept(db)
      /\ q \in Query /\ found \subseteq Row /\ IsFiniteSet(found)
      /\ pc = "today" => found = {}
      /\ pc = "yesterday" => \A r \in found : \E b \in cycle.seen : Fit(r, b, q)
  BY DEF IInv, TypeOK, Stages, Bases, Finds
<1>2. CASE /\ \E F \in Firsts(Branch(db, q, date, secs), q.limit) : found' = found \cup F
           /\ cycle' = cycle
  <2>1. PICK F \in Firsts(Branch(db, q, date, secs), q.limit) : found' = found \cup F
    BY <1>2
  <2>2. IsFiniteSet(Branch(db, q, date, secs)) /\ q.limit \in Nat
    BY <1>1, BranchFinite DEF Query
  <2>3. IsFiniteSet(F) /\ \A r \in F : Fit(r, db, q)
    BY <2>2, FirstsAre
  <2>4. IsFiniteSet(found') /\ found' \subseteq Row
    BY <1>1, <2>1, <2>3, FS_Union DEF Fit
  <2> QED  BY <1>1, <1>2, <2>1, <2>3, <2>4, FaultyIs
<1>3. CASE cycle' = Faulty(cycle) /\ found' = found
  BY <1>1, <1>3, FaultyIs
<1> QED  BY <1>2, <1>3 DEF RunBranch

(* Nothing else changes while a query runs. *)
LEMMA RunningKeeps ==
  ASSUME IInv, pc \in {"today", "yesterday"}, pc' \in {"yesterday", "select"},
         UNCHANGED <<now, db, watch, q, leg1, legs, made, board>>,
         cycle' \in Cycle, cycle' # None, Grows(cycle, cycle'),
         cycle'.at = cycle.at, cycle'.offered = cycle.offered,
         cycle'.seen = cycle.seen,
         found' \subseteq Row, Finds(cycle', pc', q, found')
  PROVE  IInv'
<1>1. cycle # None
  BY DEF IInv, TypeOK
<1>2. TypeOK'
  BY <1>1 DEF IInv, TypeOK
<1>3. Stages'
  <2>1. leg1 # None => Ready(watch, cycle', leg1, q.at)
    BY ReadyStill DEF IInv, Stages
  <2> QED  BY <2>1 DEF IInv, Stages
<1>4. Bases'
  BY <1>1 DEF IInv, Bases
<1>5. Journeys(watch, cycle', Waiting, made)
  BY <1>1, JourneysStill DEF IInv
<1>6. Waiting' = Waiting
  BY DEF Waiting
<1>7. board' # None => /\ Board(watch, board)' /\ (board.at <= now)'
                       /\ (cycle # None => board.at <= cycle.at)'
  BY <1>1 DEF IInv
<1> QED  BY <1>2, <1>3, <1>4, <1>5, <1>6, <1>7 DEF IInv

LEMMA QueryTodayKeeps == IInv /\ QueryToday => IInv'
<1> SUFFICES ASSUME IInv, QueryToday  PROVE IInv'
  OBVIOUS
<1>1. /\ pc = "today" /\ pc' = "yesterday"
      /\ RunBranch(ServiceDay(q.at).date, ServiceDay(q.at).secs)
      /\ UNCHANGED <<now, db, watch, q, leg1, legs, made, board>>
  BY DEF QueryToday
<1>2. /\ cycle # None /\ q \in Query /\ Kept(db) /\ db \in cycle.seen /\ found = {}
  BY <1>1 DEF IInv, TypeOK, Stages, Bases
<1>3. PICK d, s : d = ServiceDay(q.at).date /\ s = ServiceDay(q.at).secs
  OBVIOUS
<1>4. d \in Int /\ s \in Int
  <2>1. q.at \in Int
    BY <1>2 DEF Query
  <2> QED  BY <1>3, <2>1, ServiceDayOf
<1>5. TodayRows(db, q) = Branch(db, q, d, s)
  BY <1>3 DEF TodayRows
<1>6. \A r \in Branch(db, q, d, s) : Fit(r, db, q)
  BY <1>2, <1>5, RowsFit
<1>7. RunBranch(d, s)
  BY <1>1, <1>3
<1>8. /\ cycle' \in Cycle /\ cycle' # None /\ Grows(cycle, cycle')
      /\ cycle'.at = cycle.at /\ cycle'.offered = cycle.offered
      /\ cycle'.seen = cycle.seen
      /\ IsFiniteSet(found') /\ found' \subseteq Row
      /\ \A r \in found' : Fit(r, db, q)
      /\ ~ cycle'.faulty => \E F \in Firsts(TodayRows(db, q), q.limit) : found' = found \cup F
  BY <1>1, <1>4, <1>5, <1>6, <1>7, RunBranchIs
<1>9. Finds(cycle', "yesterday", q, found')
  <2>1. ASSUME NEW b \in cycle'.seen, Undisturbed(cycle', b)
        PROVE  found' \in Firsts(TodayRows(b, q), q.limit)
    <3>1. b = db /\ ~ cycle'.faulty
      BY <1>2, <1>8, <2>1 DEF Undisturbed
    <3> QED  BY <1>2, <1>8, <3>1
  <2> QED  BY <1>2, <1>8, <2>1 DEF Finds
<1> QED  BY <1>1, <1>8, <1>9, RunningKeeps

LEMMA QueryYesterdayKeeps == IInv /\ QueryYesterday => IInv'
<1> SUFFICES ASSUME IInv, QueryYesterday  PROVE IInv'
  OBVIOUS
<1>1. /\ pc = "yesterday" /\ pc' = "select"
      /\ RunBranch(ServiceDay(q.at).date - 1, ServiceDay(q.at).secs + Day)
      /\ UNCHANGED <<now, db, watch, q, leg1, legs, made, board>>
  BY DEF QueryYesterday
<1>2. /\ cycle # None /\ q \in Query /\ Kept(db) /\ db \in cycle.seen
      /\ Finds(cycle, "yesterday", q, found)
  BY <1>1 DEF IInv, TypeOK, Stages, Bases
<1>3. PICK d, s : d = ServiceDay(q.at).date - 1 /\ s = ServiceDay(q.at).secs + Day
  OBVIOUS
<1>4. d \in Int /\ s \in Int
  <2>1. q.at \in Int
    BY <1>2 DEF Query
  <2> QED  BY <1>3, <2>1, ServiceDayOf, TimetableAssumption
<1>5. YesterdayRows(db, q) = Branch(db, q, d, s)
  BY <1>3 DEF YesterdayRows
<1>6. \A r \in Branch(db, q, d, s) : Fit(r, db, q)
  BY <1>2, <1>5, RowsFit
<1>7. RunBranch(d, s)
  BY <1>1, <1>3
<1>8. /\ cycle' \in Cycle /\ cycle' # None /\ Grows(cycle, cycle')
      /\ cycle'.at = cycle.at /\ cycle'.offered = cycle.offered
      /\ cycle'.seen = cycle.seen
      /\ IsFiniteSet(found') /\ found' \subseteq Row
      /\ \A r \in found' : \E b \in cycle.seen : Fit(r, b, q)
      /\ ~ cycle'.faulty =>
           /\ cycle' = cycle
           /\ \E F \in Firsts(YesterdayRows(db, q), q.limit) : found' = found \cup F
  BY <1>1, <1>4, <1>5, <1>6, <1>7, RunBranchIs
<1>9. Finds(cycle', "select", q, found')
  <2>1. ASSUME NEW b \in cycle'.seen, Undisturbed(cycle', b)
        PROVE  Gathered(b, q, found')
    <3>1. b = db /\ cycle' = cycle
      BY <1>2, <1>8, <2>1 DEF Undisturbed
    <3>2. found \in Firsts(TodayRows(db, q), q.limit)
      BY <1>2, <2>1, <3>1 DEF Finds
    <3>3. \E F \in Firsts(YesterdayRows(db, q), q.limit) : found' = found \cup F
      BY <1>8, <2>1 DEF Undisturbed
    <3> QED  BY <3>1, <3>2, <3>3 DEF Gathered
  <2> QED  BY <1>8, <2>1 DEF Finds
<1> QED  BY <1>1, <1>8, <1>9, RunningKeeps

LEMMA FindArrivalKeeps == IInv /\ FindArrival => IInv'
<1> SUFFICES ASSUME IInv, FindArrival  PROVE IInv'
  OBVIOUS
<1>1. PICK a \in Arrivals(db, leg1.trip, watch.transfer, ServiceDay(cycle.at).date)
               \ {None} :
        q' = SecondQuery(watch, a + Delay(cycle.feed, leg1) + watch.gap)
  BY DEF FindArrival
<1>2. /\ pc = "arrival" /\ pc' = "today"
      /\ UNCHANGED <<now, db, watch, cycle, found, leg1, legs, made, board>>
  BY DEF FindArrival
<1>3. /\ cycle \in Cycle /\ cycle # None /\ Kept(db) /\ db \in cycle.seen
      /\ watch \in Watches /\ leg1 # None /\ watch.transfer # None /\ found = {}
  BY <1>2 DEF IInv, TypeOK, Stages, Bases
<1>4. PICK d : d = ServiceDay(cycle.at).date
  OBVIOUS
<1>5. PICK c \in Calls(db, leg1.trip) :
        c.stop = watch.transfer /\ c.arr # None /\ a = ToTime(d, c.arr)
  BY <1>1, <1>4 DEF Arrivals
<1>6. /\ leg1.trip \in TripsOf(db.release) /\ c \in CallsOf(db.release, leg1.trip)
      /\ db.release \in Releases
  BY <1>3, <1>5, KeptAre DEF Calls, CallsOf
<1>7. a \in Int
  <2>1. c.arr \in Nat /\ c.arr \in Int
    BY <1>5, <1>6, CallTypes DEF Call
  <2>2. cycle.at \in Int
    BY <1>3 DEF Cycle
  <2> QED  BY <1>4, <1>5, <2>1, <2>2, ServiceDayOf, ToTimeType
<1>8. PICK at : at = a + Delay(cycle.feed, leg1) + watch.gap
  OBVIOUS
<1>9. at \in Int
  BY <1>3, <1>7, <1>8, WatchIs, DelayType DEF Cycle
<1>10. q' \in Query /\ q' # None /\ q'.at = at /\ q' = SecondQuery(watch, at)
  BY <1>1, <1>3, <1>8, <1>9, SecondQueryIs, NoneAssumption
<1>11. Ready(watch, cycle, leg1, at)
  BY <1>3, <1>4, <1>5, <1>6, <1>8 DEF Ready
<1>12. TypeOK'
  BY <1>2, <1>3, <1>10 DEF IInv, TypeOK
<1>13. Stages' /\ Bases'
  BY <1>2, <1>3, <1>10, <1>11 DEF IInv, Stages, Bases
<1>14. Finds(cycle, "today", q', found)
  BY <1>3, FS_EmptySet DEF Finds
<1>15. Waiting' = Waiting
  BY <1>2 DEF Waiting
<1>16. board' # None => /\ Board(watch, board)' /\ (board.at <= now)'
                        /\ (cycle # None => board.at <= cycle.at)'
  BY <1>2 DEF IInv
<1> QED  BY <1>2, <1>3, <1>12, <1>13, <1>14, <1>15, <1>16 DEF IInv

------------------------------------------------------------------------------
(* The steps that select, pair and publish. *)

LEMMA ResultIs ==
  ASSUME IInv, pc = "select", NEW F, NEW c, Result(F, c)
  PROVE  /\ F \subseteq Row /\ IsFiniteSet(F)
         /\ Cardinality(F) \in Nat /\ Cardinality(F) <= q.limit
         /\ c \in Cycle /\ c # None /\ Grows(cycle, c)
         /\ c.at = cycle.at /\ c.offered = cycle.offered /\ c.seen = cycle.seen
         /\ c.feed = cycle.feed
         /\ \A r \in F : \E b \in c.seen : Fit(r, b, q)
         /\ ~ c.faulty => \A r \in F : Served(c.seen, r, q.stop, q.dest)
         /\ \A b \in c.seen : Undisturbed(c, b) => IsAnswer(b, q, F)
<1>1. /\ cycle \in Cycle /\ cycle # None /\ db \in cycle.seen
      /\ \A b \in cycle.seen : Kept(b)
      /\ q \in Query /\ found \subseteq Row
      /\ Finds(cycle, "select", q, found)
  BY DEF IInv, TypeOK, Bases
<1>2. /\ IsFiniteSet(found) /\ q.limit \in Nat
      /\ \A r \in found : \E b \in cycle.seen : Fit(r, b, q)
  BY <1>1 DEF Finds, Query
<1>3. CASE c = cycle /\ F \in Firsts(Selection(db, found, q.dest), q.limit)
  <2>1. /\ Selection(db, found, q.dest) \subseteq found
        /\ IsFiniteSet(Selection(db, found, q.dest))
    BY <1>2, SelectionIs
  <2>2. /\ F \subseteq Selection(db, found, q.dest) /\ IsFiniteSet(F)
        /\ Cardinality(F) \in Nat /\ Cardinality(F) <= q.limit
    BY <1>2, <1>3, <2>1, FirstsAre
  <2>3. \A r \in found : r.stop \in Siblings(q.stop) /\ \E b \in cycle.seen : From(r, b)
    BY <1>2 DEF Fit
  <2>4. ASSUME NEW r \in F  PROVE Served(cycle.seen, r, q.stop, q.dest)
    BY <1>1, <1>2, <2>2, <2>3, SelectionServes
  <2>5. ASSUME NEW b \in cycle.seen, Undisturbed(cycle, b)  PROVE IsAnswer(b, q, F)
    <3>1. b = db /\ Gathered(b, q, found)
      BY <1>1, <2>5 DEF Undisturbed, Finds
    <3> QED  BY <1>3, <3>1 DEF Gathered, IsAnswer
  <2> QED  BY <1>1, <1>2, <1>3, <2>1, <2>2, <2>4, <2>5, FaultyIs
<1>4. CASE c = Faulty(cycle) /\ F \in Firsts(found, q.limit)
  <2>1. /\ F \subseteq found /\ IsFiniteSet(F)
        /\ Cardinality(F) \in Nat /\ Cardinality(F) <= q.limit
    BY <1>2, <1>4, FirstsAre
  <2>2. /\ c \in Cycle /\ c # None /\ c.faulty /\ Grows(cycle, c)
        /\ c.at = cycle.at /\ c.offered = cycle.offered /\ c.seen = cycle.seen
        /\ c.feed = cycle.feed
    BY <1>1, <1>4, FaultyIs
  <2> QED  BY <1>1, <1>2, <2>1, <2>2 DEF Undisturbed
<1> QED  BY <1>3, <1>4 DEF Result, Selection

LEMMA PublishKeeps ==
  ASSUME IInv, cycle # None, UNCHANGED <<now, db, watch>>,
         NEW c \in Cycle, Grows(cycle, c), c.seen = cycle.seen,
         NEW entries \in SUBSET Entry, Cardinality(entries) <= watch.count,
         \A e \in entries : Good(watch, c, e),
         watch.transfer # None => \A r \in c.offered : Paired(watch, c, r, entries),
         watch.transfer = None =>
           \A b \in c.seen : Undisturbed(c, b) =>
             IsAnswer(b, FirstQuery(watch, c.at), {e.leg1 : e \in entries}),
         Publish(c, entries)
  PROVE  IInv'
<1>1. /\ board' = [at |-> c.at, feed |-> c.feed, offered |-> c.offered,
                   seen |-> c.seen, faulty |-> c.faulty, shown |-> entries]
      /\ pc' = "idle" /\ cycle' = None
      /\ q' = None /\ found' = {} /\ leg1' = None /\ legs' = {} /\ made' = {}
  BY DEF Publish, EndCycle
<1>2. /\ board'.at = c.at /\ board'.feed = c.feed /\ board'.offered = c.offered
      /\ board'.seen = c.seen /\ board'.faulty = c.faulty /\ board'.shown = entries
  BY <1>1
<1>3. TypeOK'
  BY <1>1, <1>2 DEF IInv, TypeOK
<1>4. Stages' /\ Bases'
  BY <1>1, FS_EmptySet DEF IInv, Stages, Bases
<1>5. Grows(c, board')
  BY <1>2 DEF Grows
<1>6. Board(watch, board')
  <2>1. \A e \in board'.shown : Good(watch, board', e)
    BY <1>2, <1>5, GoodStill
  <2>2. watch.transfer # None =>
          \A r \in board'.offered : Paired(watch, board', r, board'.shown)
    BY <1>2, <1>5, PairedStill
  <2>3. \A b : Undisturbed(board', b) => Undisturbed(c, b)
    BY <1>2 DEF Undisturbed
  <2>4. watch.transfer = None =>
          \A b \in board'.seen : Undisturbed(board', b) =>
            IsAnswer(b, FirstQuery(watch, board'.at), {e.leg1 : e \in board'.shown})
    BY <1>2, <2>3
  <2>5. board'.at \in Nat /\ \A b \in board'.seen : Kept(b)
    BY <1>2 DEF IInv, Bases, Cycle
  <2> QED  BY <2>1, <2>2, <2>4, <2>5 DEF Board
<1>7. board'.at <= now'
  <2>1. cycle.at \in now - 1 .. now /\ cycle.at = c.at
    BY DEF IInv, TypeOK, Grows
  <2>2. now \in Nat /\ Horizon \in Nat
    BY DeparturesAssumption DEF IInv, TypeOK
  <2> QED  BY <1>2, <2>1, <2>2
<1> QED  BY <1>1, <1>3, <1>4, <1>6, <1>7 DEF IInv

LEMMA PairKeeps ==
  ASSUME IInv, cycle # None, UNCHANGED <<now, db, watch>>, watch.transfer # None,
         NEW c \in Cycle, Grows(cycle, c), c.seen = cycle.seen,
         NEW rest \in SUBSET Row, IsFiniteSet(rest),
         NEW entries \in SUBSET Entry, IsFiniteSet(entries),
         Cardinality(entries) + Cardinality(rest) <= watch.count,
         Journeys(watch, c, rest, entries), Pair(c, rest, entries)
  PROVE  IInv'
<1>1. /\ Cardinality(entries) \in Nat /\ Cardinality(rest) \in Nat
      /\ watch \in Watches /\ watch.count \in Nat
  BY FS_CardinalityType, WatchIs DEF IInv, TypeOK
<1>2. CASE rest = {}
  <2>1. Cardinality(entries) <= watch.count
    BY <1>1
  <2>2. \A r \in c.offered : Paired(watch, c, r, entries)
    BY <1>2 DEF Journeys
  <2>3. \A e \in entries : Good(watch, c, e)
    BY DEF Journeys
  <2>4. Publish(c, entries)
    BY <1>2 DEF Pair
  <2> QED  BY <2>1, <2>2, <2>3, <2>4, PublishKeeps
<1>3. CASE rest # {}
  <2>1. PICK r \in rest : leg1' = r /\ legs' = rest \ {r}
    BY <1>3 DEF Pair
  <2>2. /\ pc' = "arrival" /\ cycle' = c /\ made' = entries
        /\ q' = None /\ found' = {} /\ board' = board
    BY <1>3 DEF Pair
  <2>3. leg1' # None /\ c # None /\ leg1' \in Row
    BY <2>1, NoneAssumption
  <2>4. IsFiniteSet(legs') /\ Cardinality(legs') = Cardinality(rest) - 1
    BY <2>1, FS_RemoveElement
  <2>5. cycle.at = c.at
    BY DEF Grows
  <2>6. TypeOK'
    BY <2>1, <2>2, <2>3, <2>5 DEF IInv, TypeOK
  <2>7. Stages'
    BY <1>1, <2>2, <2>3, <2>4 DEF Stages
  <2>8. Bases'
    BY <2>2, <2>3 DEF IInv, Bases
  <2>9. Finds(c, "arrival", None, {})
    BY FS_EmptySet DEF Finds
  <2>10. Waiting' = rest
    BY <2>1, <2>3 DEF Waiting
  <2>11. board' # None => /\ Board(watch, board)' /\ (board.at <= now)'
                          /\ (cycle # None => board.at <= cycle.at)'
    BY <2>2, <2>5 DEF IInv
  <2> QED  BY <2>2, <2>6, <2>7, <2>8, <2>9, <2>10, <2>11 DEF IInv
<1> QED  BY <1>2, <1>3

LEMMA SelectDirectKeeps == IInv /\ SelectDirect => IInv'
<1> SUFFICES ASSUME IInv, SelectDirect  PROVE IInv'
  OBVIOUS
<1>1. PICK F \in Results, c \in Outcomes :
        Result(F, c) /\ Publish(c, {[leg1 |-> r, leg2 |-> None] : r \in F})
  BY DEF SelectDirect
<1>2. pc = "select" /\ watch.transfer = None /\ UNCHANGED <<now, db, watch>>
  BY DEF SelectDirect
<1>3. /\ F \subseteq Row /\ IsFiniteSet(F)
      /\ Cardinality(F) \in Nat /\ Cardinality(F) <= q.limit
      /\ c \in Cycle /\ c # None /\ Grows(cycle, c)
      /\ c.at = cycle.at /\ c.seen = cycle.seen
      /\ \A r \in F : \E b \in c.seen : Fit(r, b, q)
      /\ ~ c.faulty => \A r \in F : Served(c.seen, r, q.stop, q.dest)
      /\ \A b \in c.seen : Undisturbed(c, b) => IsAnswer(b, q, F)
  BY <1>1, <1>2, ResultIs
<1>4. /\ cycle # None /\ watch \in Watches /\ q = FirstQuery(watch, c.at)
      /\ c.at \in Int
  BY <1>2, <1>3 DEF IInv, TypeOK, Stages, Cycle
<1>5. /\ q.stop = watch.stop /\ q.dest = FirstDest(watch) /\ q.limit = watch.count
  BY <1>4, FirstQueryIs
<1> DEFINE entries == {[leg1 |-> r, leg2 |-> None] : r \in F}
<1>6. entries \in SUBSET Entry
  BY <1>3 DEF Entry, Filter
<1>7. Cardinality(entries) <= watch.count
  <2> DEFINE f == [r \in F |-> [leg1 |-> r, leg2 |-> None]]
  <2>1. f \in Surjection(F, entries)
    BY DEF Surjection
  <2>2. IsFiniteSet(entries) /\ Cardinality(entries) <= Cardinality(F)
    BY <1>3, <2>1, FS_Surjection
  <2>3. Cardinality(entries) \in Nat
    BY <2>2, FS_CardinalityType
  <2> HIDE DEF entries
  <2> QED  BY <1>3, <1>4, <1>5, <2>2, <2>3, WatchIs
<1>8. {e.leg1 : e \in entries} = F
  <2>1. ASSUME NEW r \in F  PROVE r \in {e.leg1 : e \in entries}
    <3>1. [leg1 |-> r, leg2 |-> None] \in entries
      OBVIOUS
    <3>2. [leg1 |-> r, leg2 |-> None].leg1 = r
      OBVIOUS
    <3> QED  BY <3>1, <3>2
  <2> QED  BY <2>1
<1>9. ASSUME NEW e \in entries  PROVE Good(watch, c, e)
  <2>1. e.leg1 \in F /\ e.leg2 = None
    OBVIOUS
  <2>2. LegOne(watch, c, e.leg1)
    BY <1>3, <1>4, <1>5, <2>1 DEF LegOne
  <2> QED  BY <2>1, <2>2 DEF Good
<1> HIDE DEF entries
<1>10. Publish(c, entries)
  BY <1>1 DEF entries
<1> QED  BY <1>2, <1>3, <1>4, <1>6, <1>7, <1>8, <1>9, <1>10, PublishKeeps

LEMMA SelectFirstLegsKeeps == IInv /\ SelectFirstLegs => IInv'
<1> SUFFICES ASSUME IInv, SelectFirstLegs  PROVE IInv'
  OBVIOUS
<1>1. PICK F \in Results, c \in Outcomes :
        Result(F, c) /\ Pair([c EXCEPT !.offered = F], F, {})
  BY DEF SelectFirstLegs
<1>2. /\ pc = "select" /\ watch.transfer # None /\ leg1 = None
      /\ UNCHANGED <<now, db, watch>>
  BY DEF SelectFirstLegs
<1>3. /\ F \subseteq Row /\ IsFiniteSet(F)
      /\ Cardinality(F) \in Nat /\ Cardinality(F) <= q.limit
      /\ c \in Cycle /\ c # None /\ Grows(cycle, c)
      /\ c.at = cycle.at /\ c.seen = cycle.seen
      /\ \A r \in F : \E b \in c.seen : Fit(r, b, q)
      /\ ~ c.faulty => \A r \in F : Served(c.seen, r, q.stop, q.dest)
  BY <1>1, <1>2, ResultIs
<1>4. /\ cycle # None /\ watch \in Watches /\ q = FirstQuery(watch, c.at)
      /\ c.at \in Int
  BY <1>2, <1>3 DEF IInv, TypeOK, Stages, Cycle
<1>5. /\ q.stop = watch.stop /\ q.dest = FirstDest(watch) /\ q.limit = watch.count
  BY <1>4, FirstQueryIs
<1>6. PICK d : d = [c EXCEPT !.offered = F]
  OBVIOUS
<1>7. /\ d \in Cycle /\ d.at = c.at /\ d.seen = c.seen /\ d.faulty = c.faulty
      /\ d.offered = F /\ d.feed = c.feed
  BY <1>3, <1>6 DEF Cycle
<1>8. Grows(cycle, d)
  BY <1>3, <1>7 DEF Grows
<1>9. Journeys(watch, d, F, {})
  <2>1. ASSUME NEW r \in F  PROVE LegOne(watch, d, r)
    BY <1>3, <1>4, <1>5, <1>7 DEF LegOne
  <2> QED  BY <1>7, <2>1 DEF Journeys
<1>10. Pair(d, F, {})
  BY <1>1, <1>6
<1>11. /\ IsFiniteSet({}) /\ Cardinality({}) + Cardinality(F) <= watch.count
       /\ {} \in SUBSET Entry
  BY <1>3, <1>5, FS_EmptySet
<1> QED  BY <1>2, <1>3, <1>4, <1>7, <1>8, <1>9, <1>10, <1>11, PairKeeps

LEMMA NoArrivalKeeps == IInv /\ NoArrival => IInv'
<1> SUFFICES ASSUME IInv, NoArrival  PROVE IInv'
  OBVIOUS
<1>1. PICK c \in Outcomes :
        /\ c # cycle \/ Arrivals(db, leg1.trip, watch.transfer, 0) = {}
        /\ Pair(c, legs, made)
  BY DEF NoArrival
<1>2. pc = "arrival" /\ UNCHANGED <<now, db, watch>>
  BY DEF NoArrival
<1>3. /\ cycle \in Cycle /\ cycle # None /\ Kept(db) /\ db \in cycle.seen
      /\ watch \in Watches /\ leg1 # None /\ watch.transfer # None
      /\ legs \in SUBSET Row /\ made \in SUBSET Entry
      /\ IsFiniteSet(legs) /\ IsFiniteSet(made)
      /\ Cardinality(made) + Cardinality(legs) < watch.count
      /\ Journeys(watch, cycle, Waiting, made)
  BY <1>2 DEF IInv, TypeOK, Stages, Bases
<1>4. /\ c \in Cycle /\ Grows(cycle, c) /\ c.offered = cycle.offered
      /\ c.seen = cycle.seen
  BY <1>3, FaultyIs DEF Outcomes
<1>5. Journeys(watch, c, Waiting, made)
  BY <1>3, <1>4, JourneysStill
<1>6. Waiting = legs \cup {leg1}
  BY <1>3 DEF Waiting
(* If the trip does not call at the transfer, there is nothing to pair.    *)
<1>7. Paired(watch, c, leg1, made)
  <2> SUFFICES ASSUME NEW b \in c.seen, Undisturbed(c, b),
                      NEW k \in CallsOf(b.release, leg1.trip), k.stop = watch.transfer
               PROVE  FALSE
    BY DEF Paired
  <2>1. c = cycle
    BY <1>3, FaultyIs DEF Outcomes, Undisturbed
  <2>2. Arrivals(db, leg1.trip, watch.transfer, 0) = {} /\ b = db
    BY <1>1, <1>3, <2>1 DEF Undisturbed
  <2>3. leg1.trip \in b.kept
    <3>1. LegOne(watch, c, leg1)
      BY <1>5, <1>6 DEF Journeys
    <3> QED  BY <3>1 DEF LegOne, Fit, From, Undisturbed
  <2>4. k \in Calls(db, leg1.trip)
    BY <1>3, <2>2, <2>3, CallsAre
  <2>5. (IF k.arr = None THEN None ELSE ToTime(0, k.arr))
          \in Arrivals(db, leg1.trip, watch.transfer, 0)
    BY <2>4 DEF Arrivals
  <2> QED  BY <2>2, <2>5
<1>8. Journeys(watch, c, legs, made)
  BY <1>5, <1>6, <1>7 DEF Journeys
<1>9. Cardinality(made) + Cardinality(legs) <= watch.count
  BY <1>3, FS_CardinalityType, WatchIs
<1> QED  BY <1>1, <1>2, <1>3, <1>4, <1>8, <1>9, PairKeeps

(* Without a board, the next cycle starts afresh. *)
LEMMA ArrivalUnknownKeeps == IInv /\ ArrivalUnknown => IInv'
<1> SUFFICES ASSUME IInv, ArrivalUnknown  PROVE IInv'
  OBVIOUS
<1>1. /\ UNCHANGED <<now, db, watch, board>> /\ pc' = "idle" /\ cycle' = None
      /\ q' = None /\ found' = {} /\ leg1' = None /\ legs' = {} /\ made' = {}
  BY DEF ArrivalUnknown, EndCycle
<1>2. TypeOK'
  BY <1>1 DEF IInv, TypeOK
<1>3. Stages' /\ Bases'
  BY <1>1, FS_EmptySet DEF IInv, Stages, Bases
<1>4. board' # None => /\ Board(watch, board)' /\ (board.at <= now)'
  BY <1>1 DEF IInv
<1> QED  BY <1>1, <1>2, <1>3, <1>4 DEF IInv

(* The second leg a query found leaves after the first one has arrived,    *)
(* also if that is dated a day too late.                                   *)
LEMMA SecondLegCaught ==
  ASSUME NEW w \in Watches, NEW how, how.at \in Int, how.feed \in Feeds,
         \A b \in how.seen : Kept(b),
         NEW r, LegOne(w, how, r), NEW at, Ready(w, how, r, at),
         NEW s, s.time >= at, s.time \in Int
  PROVE  Caught(w, how, [leg1 |-> r, leg2 |-> s])
<1> SUFFICES ASSUME NEW b \in how.seen, Undisturbed(how, b),
                    Once(b.release, {w.transfer}),
                    NEW k \in CallsOf(b.release, r.trip), k.stop = w.transfer
             PROVE  s.time >= ToTime(r.date, k.arr) + Delay(how.feed, r) + w.gap
  BY DEF Caught
<1>1. PICK c \in CallsOf(b.release, r.trip) :
        /\ r.trip \in TripsOf(b.release) /\ c.stop = w.transfer /\ c.arr # None
        /\ at = ToTime(ServiceDay(how.at).date, c.arr) + Delay(how.feed, r) + w.gap
  BY DEF Ready, Undisturbed
<1>2. c = k
  BY <1>1 DEF Once
<1>3. PICK d, g : d = ServiceDay(how.at).date /\ g = Delay(how.feed, r)
  OBVIOUS
<1>4. d \in Int /\ g \in Int /\ w.gap \in Int
  BY <1>3, ServiceDayOf, DelayType, WatchIs
<1>5. k \in Call /\ b.release \in Releases
  BY <1>1, KeptAre, CallTypes
<1>6. k.arr \in Int
  BY <1>1, <1>2, <1>5 DEF Call
<1>7. r.date \in Int /\ r.date <= d
  BY <1>3, FirstQueryIs DEF LegOne, Fit, Row
<1>8. ToTime(r.date, k.arr) <= ToTime(d, k.arr)
  BY <1>4, <1>6, <1>7, TimetableAssumption DEF ToTime
<1>9. ToTime(r.date, k.arr) \in Int /\ ToTime(d, k.arr) \in Int
  BY <1>4, <1>6, <1>7, ToTimeType
<1>10. at = ToTime(d, k.arr) + g + w.gap
  BY <1>1, <1>2, <1>3
<1> QED  BY <1>3, <1>4, <1>8, <1>9, <1>10

(* If nothing of what is due goes elsewhere, the one place goes to what it *)
(* would go to if all of it were there to choose from.                     *)
LEMMA OneOfAll ==
  ASSUME NEW due, due # {}, due \subseteq Row, NEW d \in Int,
         \A r \in due : r.date \in {d - 1, d} /\ r.time = ToTime(r.date, r.secs),
         NEW A \in Earliest(OnDay(due, d), 1), NEW B \in Earliest(OnDay(due, d - 1), 1),
         IsFiniteSet(due), NEW F \in Dealt(A \cup B, 1)
  PROVE  F \in Dealt(due, 1) /\ \E x \in due : F = {x}
<1>1. /\ A \subseteq OnDay(due, d) /\ B \subseteq OnDay(due, d - 1)
      /\ A \cup B \subseteq due
  BY DEF Earliest, OnDay
<1>2. IsFiniteSet(OnDay(due, d)) /\ IsFiniteSet(OnDay(due, d - 1)) /\ IsFiniteSet(A \cup B)
  BY <1>1, FS_Subset DEF OnDay
<1>3. ASSUME NEW rows, IsFiniteSet(rows), rows # {}, NEW E \in Earliest(rows, 1)
      PROVE  E # {}
  <2>1. Cardinality(rows) \in Nat /\ Cardinality(rows) # 0
    BY <1>3, FS_CardinalityType, FS_EmptySet
  <2>2. Cardinality(E) = 1
    BY <2>1 DEF Earliest
  <2> QED  BY <2>2, FS_EmptySet
<1>4. A \cup B # {}
  <2>1. PICK r \in due : TRUE
    OBVIOUS
  <2>2. r \in OnDay(due, d) \/ r \in OnDay(due, d - 1)
    BY DEF OnDay
  <2> QED  BY <1>2, <1>3, <2>2
<1>5. Cardinality(F) = 1 /\ F \subseteq A \cup B
  <2>1. Cardinality(A \cup B) \in Nat /\ Cardinality(A \cup B) # 0
    BY <1>2, <1>4, FS_CardinalityType, FS_EmptySet
  <2> QED  BY <2>1 DEF Dealt
<1>6. IsFiniteSet(F)
  BY <1>2, <1>5, FS_Subset
<1>7. PICK x : F = {x}
  BY <1>5, <1>6, FS_Singleton
<1>8. x \in A \cup B /\ x \in due
  BY <1>1, <1>5, <1>7
<1>9. ASSUME NEW s \in (A \cup B) \ F
      PROVE  /\ x.date = s.date => x.time <= s.time
             /\ x.date < s.date => s.secs >= Day + Cutover
  BY <1>7 DEF Dealt
<1>10. ASSUME NEW s \in due \ F, x.date = s.date  PROVE x.time <= s.time
  <2>1. CASE s \in A \cup B
    <3>1. s \in (A \cup B) \ F
      BY <2>1
    <3> QED  BY <1>9, <1>10, <3>1
  <2>2. CASE s \notin A \cup B
    <3>1. CASE x \in A
      <4>1. s \in OnDay(due, d) \ A
        BY <1>1, <1>10, <2>2, <3>1 DEF OnDay
      <4> QED  BY <3>1, <4>1 DEF Earliest
    <3>2. CASE x \in B
      <4>1. s \in OnDay(due, d - 1) \ B
        BY <1>1, <1>10, <2>2, <3>2 DEF OnDay
      <4> QED  BY <3>2, <4>1 DEF Earliest
    <3> QED  BY <1>8, <3>1, <3>2
  <2> QED  BY <2>1, <2>2
<1>11. ASSUME NEW s \in due \ F, x.date < s.date  PROVE s.secs >= Day + Cutover
  <2>1. x.date = d - 1 /\ s.date = d
    <3>1. x.date \in {d - 1, d} /\ s.date \in {d - 1, d}
      BY <1>8
    <3> QED  BY <1>11, <3>1
  <2>2. s \in OnDay(due, d)
    BY <2>1 DEF OnDay
  <2>3. PICK a \in A : TRUE
    BY <1>2, <1>3, <2>2
  <2>4. a \in due /\ a.date = d
    BY <1>1 DEF OnDay
  <2>5. a \notin F
    BY <1>7, <2>1, <2>4
  <2>6. a.secs >= Day + Cutover
    BY <1>9, <1>11, <2>1, <2>4, <2>5
  <2>7. CASE s \in A
    BY <1>9, <1>11, <2>7
  <2>8. CASE s \notin A
    <3>1. a.time <= s.time
      BY <2>2, <2>8 DEF Earliest
    <3>2. /\ a.time = ToTime(d, a.secs) /\ s.time = ToTime(d, s.secs)
          /\ a.secs \in Int /\ s.secs \in Int
      BY <2>1, <2>4 DEF Row
    <3>3. a.secs <= s.secs
      BY <3>1, <3>2, Later
    <3>4. Day + Cutover \in Int
      BY TimetableAssumption
    <3> QED  BY <2>6, <3>2, <3>3, <3>4
  <2> QED  BY <2>7, <2>8
<1>12. Cardinality(F) = IF Cardinality(due) < 1 THEN Cardinality(due) ELSE 1
  <2>1. Cardinality(due) \in Nat /\ Cardinality(due) # 0
    BY FS_CardinalityType, FS_EmptySet
  <2> QED  BY <1>5, <2>1
<1> QED  BY <1>7, <1>8, <1>10, <1>11, <1>12 DEF Dealt

(* A first leg of today is dated right, and where all goes to the          *)
(* destination, the query for the second one finds what leaves next.       *)
LEMMA FirstLegPaired ==
  ASSUME NEW w \in Watches, w.transfer # None,
         NEW how, how.at \in Int, how.feed \in Feeds,
         \A b \in how.seen : Kept(b),
         NEW r, NEW at \in Int, Ready(w, how, r, at),
         NEW F, \A b \in how.seen : Undisturbed(how, b) =>
                  IsAnswer(b, SecondQuery(w, at), F),
         NEW entries, \A s \in F : [leg1 |-> r, leg2 |-> s] \in entries
  PROVE  Paired(w, how, r, entries)
<1> SUFFICES ASSUME NEW b \in how.seen, Undisturbed(how, b),
                    Once(b.release, Siblings(w.transfer)), r.date = ServedDay(how.at),
                    NEW k \in CallsOf(b.release, r.trip), k.stop = w.transfer,
                    NEW ready, ready = ToTime(r.date, k.arr) + Delay(how.feed, r) + w.gap,
                    NEW due, due = Due(b.release, w.transfer, None, None, ready),
                    Covers(b, due), due # {},
                    \A s \in due : GoesOn(b.release, s, w.final)
             PROVE  \E e \in entries : e.leg1 = r /\ {e.leg2} \in Dealt(due, 1)
  BY DEF Paired
<1>1. PICK c \in CallsOf(b.release, r.trip) :
        /\ r.trip \in TripsOf(b.release) /\ c.stop = w.transfer
        /\ at = ToTime(ServiceDay(how.at).date, c.arr) + Delay(how.feed, r) + w.gap
  BY DEF Ready, Undisturbed
<1>2. c = k
  BY <1>1 DEF Once, Siblings
<1>3. r.date = ServiceDay(how.at).date
  BY ServedDayIs
<1>4. at = ready
  BY <1>1, <1>2, <1>3
<1>5. PICK query : query = SecondQuery(w, at)
  OBVIOUS
<1>6. /\ query \in Query /\ query.at = at /\ query.limit = 1
      /\ query.stop = w.transfer /\ query.dest = w.final
      /\ query.route = None /\ query.platform = None
  BY <1>5, SecondQueryIs
<1>7. IsAnswer(b, query, F)
  BY <1>5
<1>8. due = Due(b.release, query.stop, query.route, query.platform, query.at)
  BY <1>4, <1>6
<1>9. PICK d, s, e, u \in Int :
        /\ e = d - 1 /\ ToTime(d, s) = query.at /\ ToTime(e, u) = query.at
        /\ ServedDay(query.at) = d
        /\ TodayRows(b, query) = Branch(b, query, d, s)
        /\ YesterdayRows(b, query) = Branch(b, query, e, u)
  BY ONLY <1>6, BranchTimes
<1>10. PICK A \in Earliest(OnDay(due, d), 1), B \in Earliest(OnDay(due, d - 1), 1) :
         F \in Dealt({x \in A \cup B : query.dest = None \/ GoesOn(b.release, x, query.dest)}, 1)
  <2>1. Once(b.release, Siblings(query.stop)) /\ Kept(b)
    BY <1>6
  <2>2. \E A \in Earliest(OnDay(due, d), query.limit),
          B \in Earliest(OnDay(due, d - 1), query.limit) :
          F \in Dealt({x \in A \cup B : query.dest = None \/ GoesOn(b.release, x, query.dest)},
                     query.limit)
    BY <1>6, <1>7, <1>8, <1>9, <2>1, AnswerIsNext
  <2> QED  BY <1>6, <2>2
<1>11. F \in Dealt(A \cup B, 1)
  <2>1. A \cup B \subseteq due
    BY DEF Earliest, OnDay
  <2>2. {x \in A \cup B : query.dest = None \/ GoesOn(b.release, x, query.dest)} = A \cup B
    BY <1>6, <2>1
  <2> QED  BY <1>10, <2>2
<1>12. /\ due \subseteq Row
       /\ \A x \in due : x.date \in {d - 1, d} /\ x.time = ToTime(x.date, x.secs)
  <2> SUFFICES ASSUME NEW x \in due
               PROVE  x \in Row /\ x.date \in {d - 1, d} /\ x.time = ToTime(x.date, x.secs)
    OBVIOUS
  <2>1. b.release \in Releases /\ query.at \in Int
    BY <1>4, <1>6, KeptAre
  <2>2. /\ x \in Row /\ x.time = ToTime(x.date, x.secs)
        /\ x.date \in ServedDay(query.at) - 1 .. ServedDay(query.at)
    BY <1>8, <2>1, DueIs
  <2>3. x.date \in d - 1 .. d /\ x.date \in Int
    BY <1>9, <2>2 DEF Row
  <2> QED  BY <1>9, <2>2, <2>3
<1>13. IsFiniteSet(due)
  <2>1. b.release \in Releases /\ query.at \in Int /\ Kept(b)
    BY <1>4, <1>6, KeptAre
  <2>2. d \in ServedDay(query.at) - 1 .. ServedDay(query.at)
        /\ e \in ServedDay(query.at) - 1 .. ServedDay(query.at)
    <3>1. d \in d - 1 .. d /\ e \in d - 1 .. d
      BY <1>9
    <3> QED  BY <1>9, <3>1
  <2>3. Branch(b, query, d, s) = OnDay(due, d) /\ Branch(b, query, e, u) = OnDay(due, e)
    BY <1>6, <1>8, <1>9, <2>1, <2>2, BranchIsDue
  <2>4. IsFiniteSet(OnDay(due, d)) /\ IsFiniteSet(OnDay(due, e))
    BY <1>6, <1>9, <2>1, <2>3, BranchFinite
  <2>5. PICK X, Y : X = OnDay(due, d) /\ Y = OnDay(due, e)
    OBVIOUS
  <2>6. due = X \cup Y
    BY <1>9, <1>12, <2>5 DEF OnDay
  <2>7. IsFiniteSet(X) /\ IsFiniteSet(Y)
    BY <2>4, <2>5
  <2> QED  BY <2>6, <2>7, FS_Union
<1>14. F \in Dealt(due, 1) /\ \E x \in due : F = {x}
  BY <1>11, <1>12, <1>13, OneOfAll
<1>15. PICK x : F = {x}
  BY <1>14
<1>16. PICK j : j = [leg1 |-> r, leg2 |-> x]
  OBVIOUS
<1>17. j \in entries /\ j.leg1 = r /\ j.leg2 = x
  BY <1>15, <1>16
<1> QED  BY <1>14, <1>15, <1>17

LEMMA SelectSecondLegKeeps == IInv /\ SelectSecondLeg => IInv'
<1> SUFFICES ASSUME IInv, SelectSecondLeg  PROVE IInv'
  OBVIOUS
<1>1. PICK F \in Results, c \in Outcomes :
        /\ Result(F, c)
        /\ Pair(c, legs, made \cup {[leg1 |-> leg1, leg2 |-> r] : r \in F})
  BY DEF SelectSecondLeg
<1>2. pc = "select" /\ leg1 # None /\ UNCHANGED <<now, db, watch>>
  BY DEF SelectSecondLeg
<1>3. /\ F \subseteq Row /\ IsFiniteSet(F)
      /\ Cardinality(F) \in Nat /\ Cardinality(F) <= q.limit
      /\ c \in Cycle /\ c # None /\ Grows(cycle, c)
      /\ c.at = cycle.at /\ c.offered = cycle.offered /\ c.seen = cycle.seen
      /\ \A r \in F : \E b \in c.seen : Fit(r, b, q)
      /\ ~ c.faulty => \A r \in F : Served(c.seen, r, q.stop, q.dest)
      /\ \A b \in c.seen : Undisturbed(c, b) => IsAnswer(b, q, F)
  BY <1>1, <1>2, ResultIs
<1>4. PICK r, at : r = leg1 /\ at = q.at
  OBVIOUS
<1>5. /\ cycle # None /\ watch \in Watches /\ watch.transfer # None
      /\ q = SecondQuery(watch, at) /\ Ready(watch, cycle, r, at)
      /\ q \in Query /\ at \in Int /\ r \in Row /\ r # None
      /\ legs \in SUBSET Row /\ made \in SUBSET Entry
      /\ IsFiniteSet(legs) /\ IsFiniteSet(made)
      /\ Cardinality(made) + Cardinality(legs) < watch.count
      /\ Journeys(watch, cycle, Waiting, made)
      /\ \A b \in c.seen : Kept(b)
      /\ c.at \in Int /\ c.feed \in Feeds
  BY <1>2, <1>3, <1>4 DEF IInv, TypeOK, Stages, Bases, Cycle, Query
<1>6. /\ q.stop = watch.transfer /\ q.dest = watch.final /\ q.limit = 1
  BY <1>5, SecondQueryIs
<1>7. Ready(watch, c, r, at)
  BY <1>3, <1>5, ReadyStill
<1>8. Journeys(watch, c, legs \cup {r}, made)
  <2>1. Waiting = legs \cup {r}
    BY <1>4, <1>5 DEF Waiting
  <2> QED  BY <1>3, <1>5, <2>1, JourneysStill
<1>9. LegOne(watch, c, r)
  BY <1>8 DEF Journeys
<1> DEFINE entries == made \cup {[leg1 |-> r, leg2 |-> s] : s \in F}
<1>10. entries \in SUBSET Entry
  BY <1>3, <1>5 DEF Entry, Filter
<1>11. ASSUME NEW s \in F  PROVE Good(watch, c, [leg1 |-> r, leg2 |-> s])
  <2>1. PICK e : e = [leg1 |-> r, leg2 |-> s]
    OBVIOUS
  <2>2. e.leg1 = r /\ e.leg2 = s
    BY <2>1
  <2>3. PICK b \in c.seen : Fit(s, b, q)
    BY <1>3
  <2>4. /\ s.time = ToTime(s.date, s.secs) /\ From(s, b)
        /\ s.time >= at /\ s.time \in Int
    BY <1>4, <2>3 DEF Fit, Row
  <2>5. Caught(watch, c, e)
    BY <1>5, <1>7, <1>9, <2>1, <2>4, SecondLegCaught
  <2>6. ~ c.faulty => Served(c.seen, e.leg2, watch.transfer, watch.final)
    BY <1>3, <1>6, <2>2
  <2>7. Good(watch, c, e)
    BY <1>9, <2>2, <2>3, <2>4, <2>5, <2>6 DEF Good
  <2> QED  BY <2>1, <2>7
<1>12. Paired(watch, c, r, entries)
  <2>1. \A b \in c.seen : Undisturbed(c, b) => IsAnswer(b, SecondQuery(watch, at), F)
    BY <1>3, <1>5
  <2>2. \A s \in F : [leg1 |-> r, leg2 |-> s] \in entries
    OBVIOUS
  <2> HIDE DEF entries
  <2> QED  BY <1>5, <1>7, <2>1, <2>2, FirstLegPaired
<1>13. IsFiniteSet(entries) /\ Cardinality(entries) <= Cardinality(made) + 1
  <2>1. CASE F = {}
    <3>1. entries = made
      BY <2>1
    <3> HIDE DEF entries
    <3>2. Cardinality(made) \in Nat
      BY <1>5, FS_CardinalityType
    <3> QED  BY <1>5, <3>1, <3>2
  <2>2. CASE F # {}
    <3>1. Cardinality(F) = 1
      BY <1>3, <1>6, <2>2, FS_EmptySet
    <3>2. PICK s : F = {s}
      BY <1>3, <3>1, FS_Singleton
    <3>3. PICK e : e = [leg1 |-> r, leg2 |-> s]
      OBVIOUS
    <3>4. entries = made \cup {e}
      BY <3>2, <3>3
    <3>5. Cardinality(made) \in Nat
      BY <1>5, FS_CardinalityType
    <3>6. /\ IsFiniteSet(made \cup {e})
          /\ Cardinality(made \cup {e}) =
               IF e \in made THEN Cardinality(made) ELSE Cardinality(made) + 1
      BY <1>5, FS_AddElement
    <3> HIDE DEF entries
    <3> QED  BY <3>4, <3>5, <3>6
  <2> QED  BY <2>1, <2>2
<1>14. Journeys(watch, c, legs, entries)
  <2>1. \A s \in legs : LegOne(watch, c, s)
    BY <1>8 DEF Journeys
  <2>2. \A e \in entries : Good(watch, c, e)
    BY <1>8, <1>11 DEF Journeys
  <2>3. ASSUME NEW s \in c.offered  PROVE s \in legs \/ Paired(watch, c, s, entries)
    <3>1. Grows(c, c)
      BY <1>3 DEF Grows
    <3>2. made \subseteq entries
      OBVIOUS
    <3> HIDE DEF entries
    <3>3. s \in legs \cup {r} \/ Paired(watch, c, s, made)
      BY <1>8 DEF Journeys
    <3> QED  BY <1>12, <3>1, <3>2, <3>3, PairedStill
  <2> HIDE DEF entries
  <2> QED  BY <2>1, <2>2, <2>3 DEF Journeys
<1>15. Pair(c, legs, entries)
  BY <1>1, <1>4
<1> HIDE DEF entries
<1>16. Cardinality(entries) + Cardinality(legs) <= watch.count
  <2>1. /\ Cardinality(made) \in Nat /\ Cardinality(legs) \in Nat
        /\ Cardinality(entries) \in Nat /\ watch.count \in Nat
    BY <1>5, <1>13, FS_CardinalityType, WatchIs
  <2> QED  BY <1>5, <1>13, <2>1
<1> QED  BY <1>2, <1>3, <1>5, <1>10, <1>13, <1>14, <1>15, <1>16, PairKeeps

------------------------------------------------------------------------------
(* The theorems. *)

LEMMA StutterKeeps == IInv /\ UNCHANGED vars => IInv'
<1> SUFFICES ASSUME IInv, UNCHANGED vars  PROVE IInv'
  OBVIOUS
<1>1. UNCHANGED <<now, db, watch, pc, cycle, q, found, leg1, legs, made, board>>
  BY DEF vars, local
<1>2. TypeOK' /\ Stages' /\ Bases'
  BY <1>1 DEF IInv, TypeOK, Stages, Bases
<1>3. Waiting' = Waiting
  BY <1>1 DEF Waiting
<1> QED  BY <1>1, <1>2, <1>3 DEF IInv

LEMMA StepKeeps == IInv /\ [Next]_vars => IInv'
<1> SUFFICES ASSUME IInv, [Next]_vars  PROVE IInv'
  OBVIOUS
<1>1. CASE Next
  BY <1>1, TickKeeps, ImportKeeps, BeginKeeps, QueryTodayKeeps, QueryYesterdayKeeps,
     SelectDirectKeeps, SelectFirstLegsKeeps, SelectSecondLegKeeps,
     FindArrivalKeeps, NoArrivalKeeps, ArrivalUnknownKeeps DEF Next
<1>2. CASE UNCHANGED vars
  BY <1>2, StutterKeeps
<1> QED  BY <1>1, <1>2

LEMMA Inductive == Spec => []IInv
BY InitKeeps, StepKeeps, PTL DEF Spec

(* Every variable has its type: in particular a cycle runs exactly when pc *)
(* says so, has read the clock at most a tick ago, and no board has more   *)
(* entries than the watch asks for, whatever is paired in between.         *)
THEOREM TypeCorrect == Spec => []TypeOK
<1>1. IInv => TypeOK
  BY DEF IInv
<1> QED  BY <1>1, Inductive, PTL

(* Whatever is on the board departs, by a database that was in place, and  *)
(* not before the clock was read; second legs, too; with imports and       *)
(* failed queries at any time (_query_branch of repository.py).                 *)
THEOREM BoardsDepart == Spec => []ShownDeparts
<1>1. ASSUME NEW row, NEW b, Kept(b), From(row, b), NEW seen, b \in seen,
             row.time = ToTime(row.date, row.secs)
      PROVE  Departs(row, seen)
  <2>1. row.trip \in TripsOf(b.release)
    BY <1>1, KeptAre DEF From
  <2> QED  BY <1>1, <2>1 DEF From, Departs
<1>2. ASSUME IInv, board # None, NEW e \in board.shown
      PROVE  /\ e.leg1.time >= board.at /\ Departs(e.leg1, board.seen)
             /\ e.leg2 # None => Departs(e.leg2, board.seen)
  <2>1. Board(watch, board) /\ watch \in Watches /\ board.at \in Int
    BY <1>2 DEF IInv, TypeOK, Board
  <2>2. Good(watch, board, e) /\ \A b \in board.seen : Kept(b)
    BY <1>2, <2>1 DEF Board
  <2>3. PICK b \in board.seen : Fit(e.leg1, b, FirstQuery(watch, board.at))
    BY <2>2 DEF Good, LegOne
  <2>4. FirstQuery(watch, board.at).at = board.at
    BY <2>1, FirstQueryIs
  <2>5. e.leg1.time >= board.at /\ Departs(e.leg1, board.seen)
    BY <1>1, <2>2, <2>3, <2>4 DEF Fit
  <2>6. ASSUME e.leg2 # None  PROVE Departs(e.leg2, board.seen)
    BY <1>1, <2>2, <2>6 DEF Good
  <2> QED  BY <2>5, <2>6
<1>3. IInv => ShownDeparts
  BY <1>2 DEF ShownDeparts, Rows, SecondLegs
<1> QED  BY <1>3, Inductive, PTL

(* Unless the filter's query failed, every departure shown goes on to its  *)
(* destination (_filter_by_destination of repository.py), loops and imports in  *)
(* the middle of a cycle included.                                         *)
THEOREM DestinationsAreServed == Spec => []DestinationServed
<1>1. ASSUME IInv, board # None, ~ board.faulty, NEW e \in board.shown
      PROVE  /\ Served(board.seen, e.leg1, watch.stop, FirstDest(watch))
             /\ e.leg2 # None => Served(board.seen, e.leg2, watch.transfer, watch.final)
  <2>1. Good(watch, board, e)
    BY <1>1 DEF IInv, Board
  <2> QED  BY <1>1, <2>1 DEF Good, LegOne
<1>2. IInv => DestinationServed
  BY <1>1 DEF DestinationServed, Rows, SecondLegs
<1> QED  BY <1>2, Inductive, PTL

(* A journey on the board can be made: its second leg leaves no earlier    *)
(* than the first one's arrival, its delay and the minimum time to         *)
(* transfer allow (the loop over first legs in coordinator.py).            *)
THEOREM ConnectionsAreCatchable == Spec => []Catchable
<1>1. IInv => Catchable
  BY DEF IInv, Board, Good, Catchable
<1> QED  BY <1>1, Inductive, PTL

(* No connection is missed for a first leg of the running service day: if  *)
(* all that leaves from the transfer goes on to the journey's end, it is   *)
(* paired with the next departure after its arrival.  (Legs of the day     *)
(* before, whose arrival coordinator.py dates a day late, are excepted.)   *)
THEOREM LegsArePaired == Spec => []LegsPaired
<1>1. IInv => LegsPaired
  BY DEF IInv, Board, LegsPaired
<1> QED  BY <1>1, Inductive, PTL

(* A board made from one database without errors is made of the next       *)
(* departures of the running service day and of those past 27:00 of the    *)
(* day before, and leaves no place free (next_departures of repository.py),*)
(* whenever it is made, on the days the import covers; with a destination, *)
(* if trips call at the station once.                                      *)
THEOREM NextAreShown == Spec => []NextShown
<1>1. ASSUME IInv, board # None, watch.transfer = None, NEW b \in board.seen,
             NEW due,
             due = Due(b.release, watch.stop, watch.route, watch.platform, board.at),
             NEW day, day = ServedDay(board.at),
             Undisturbed(board, b), Covers(b, due),
             watch.dest # None => Once(b.release, Siblings(watch.stop))
      PROVE  \E A \in Earliest(OnDay(due, day), watch.count),
               B \in Earliest(OnDay(due, day - 1), watch.count) :
               Rows \in Dealt({r \in A \cup B : \/ watch.dest = None
                                              \/ GoesOn(b.release, r, watch.dest)},
                             watch.count)
  <2>1. /\ watch \in Watches /\ board.at \in Int /\ Kept(b)
        /\ IsAnswer(b, FirstQuery(watch, board.at), Rows)
    BY <1>1 DEF IInv, TypeOK, Board, Rows
  <2>2. PICK query : query = FirstQuery(watch, board.at)
    OBVIOUS
  <2>3. /\ query \in Query /\ query.stop = watch.stop /\ query.at = board.at
        /\ query.limit = watch.count /\ query.dest = watch.dest
        /\ query.route = watch.route /\ query.platform = watch.platform
    BY <1>1, <2>1, <2>2, FirstQueryIs DEF FirstDest
  <2>4. PICK F : F = Rows
    OBVIOUS
  <2>5. /\ query.dest # None => Once(b.release, Siblings(query.stop))
        /\ due = Due(b.release, query.stop, query.route, query.platform, query.at)
        /\ day = ServedDay(query.at)
        /\ IsAnswer(b, query, F)
    BY <1>1, <2>1, <2>2, <2>3, <2>4
  <2>6. \E A \in Earliest(OnDay(due, day), query.limit),
          B \in Earliest(OnDay(due, day - 1), query.limit) :
          F \in Dealt({r \in A \cup B : \/ query.dest = None
                                      \/ GoesOn(b.release, r, query.dest)},
                     query.limit)
    BY <1>1, <2>1, <2>3, <2>5, AnswerIsNext
  <2> QED  BY <2>3, <2>4, <2>6
<1>2. IInv => NextShown
  BY <1>1 DEF NextShown
<1> QED  BY <1>2, Inductive, PTL

(* From one board to the next, both made from the same database without    *)
(* errors, a departure stays until its time, whatever the clock and the    *)
(* branches did in between; only a trip past 27:00 can lose its place, to  *)
(* a full board.                                                           *)
THEOREM DeparturesStay == Spec => StaysOnBoard
<1>1. ASSUME IInv, Next, board # None, board' # board, watch.transfer = None,
             NEW b \in board.seen, Undisturbed(board, b), Undisturbed(board', b),
             NEW due,
             due = Due(b.release, watch.stop, watch.route, watch.platform, board'.at),
             NoTies(due), watch.dest # None => Once(b.release, Siblings(watch.stop)),
             NEW r \in Rows, r \in due
      PROVE  r \in Rows' \/ (r.secs >= Day + Cutover /\ Cardinality(Rows') = watch.count)
  <2>1. SelectDirect
    <3>1. pc \in {"select", "arrival"} /\ watch.transfer = None => leg1 = None /\ pc # "arrival"
      BY <1>1 DEF IInv, TypeOK, Stages
    <3> QED
      BY <1>1, <3>1 DEF Next, Tick, Import, Begin, QueryToday, QueryYesterday,
         SelectFirstLegs, SelectSecondLeg, FindArrival, NoArrival,
         ArrivalUnknown
  <2>2. PICK F \in Results, c \in Outcomes :
          Result(F, c) /\ Publish(c, {[leg1 |-> s, leg2 |-> None] : s \in F})
    BY <2>1 DEF SelectDirect
  <2>3. /\ board'.at = c.at /\ board'.seen = c.seen /\ board'.faulty = c.faulty
        /\ board'.shown = {[leg1 |-> s, leg2 |-> None] : s \in F}
    BY <2>2 DEF Publish, EndCycle
  <2>4. /\ c.at = cycle.at /\ c.at \in Int /\ board.at <= c.at
        /\ \A d \in c.seen : Undisturbed(c, d) => IsAnswer(d, q, F)
    BY <1>1, <2>1, <2>2, ResultIs DEF SelectDirect, IInv, TypeOK, Cycle
  <2>5. q = FirstQuery(watch, c.at) /\ watch \in Watches
    BY <1>1, <2>1, <2>4 DEF SelectDirect, IInv, TypeOK, Stages
  <2>6. IsAnswer(b, q, F)
    BY <1>1, <2>3, <2>4 DEF Undisturbed
  <2>7. /\ board.at \in Int /\ Kept(b)
        /\ IsAnswer(b, FirstQuery(watch, board.at), Rows)
    BY <1>1 DEF IInv, Board, Rows
  <2>8. PICK query, later, G :
           query = FirstQuery(watch, board.at) /\ later = q /\ G = Rows
    OBVIOUS
  <2>9. /\ query \in Query /\ query.stop = watch.stop /\ query.at = board.at
        /\ query.limit = watch.count /\ query.dest = watch.dest
        /\ query.route = watch.route /\ query.platform = watch.platform
    BY <1>1, <2>5, <2>7, <2>8, FirstQueryIs DEF FirstDest
  <2>10. /\ later \in Query /\ later.stop = watch.stop /\ later.at = board'.at
         /\ later.limit = watch.count /\ later.dest = watch.dest
         /\ later.route = watch.route /\ later.platform = watch.platform
    BY <1>1, <2>3, <2>4, <2>5, <2>8, FirstQueryIs DEF FirstDest
  <2>11. /\ due = Due(b.release, query.stop, query.route, query.platform, later.at)
         /\ query.dest # None => Once(b.release, Siblings(query.stop))
         /\ query.at <= later.at /\ r \in G
         /\ IsAnswer(b, query, G) /\ IsAnswer(b, later, F)
    BY <1>1, <2>3, <2>4, <2>6, <2>7, <2>8, <2>9, <2>10
  <2>12. r \in F \/ (r.secs >= Day + Cutover /\ Cardinality(F) = watch.count)
    BY <1>1, <2>7, <2>9, <2>10, <2>11, AnswerPersists
  <2>13. Rows' = F
    <3> DEFINE Shown(H) == {[leg1 |-> s, leg2 |-> None] : s \in H}
    <3>1. {e.leg1 : e \in Shown(F)} = F
      <4>1. ASSUME NEW s \in F  PROVE s \in {e.leg1 : e \in Shown(F)}
        <5>1. PICK e \in Shown(F) : e = [leg1 |-> s, leg2 |-> None]
          OBVIOUS
        <5> QED  BY <5>1
      <4>2. \A e \in Shown(F) : e.leg1 \in F
        OBVIOUS
      <4> QED  BY <4>1, <4>2
    <3> QED  BY <2>3, <3>1 DEF Rows
  <2> QED  BY <2>12, <2>13
<1>2. IInv /\ Next =>
        (board # None /\ board' # board /\ watch.transfer = None =>
           \A b \in board.seen :
             LET due == Due(b.release, watch.stop, watch.route, watch.platform, board'.at)
             IN /\ Undisturbed(board, b) /\ Undisturbed(board', b) /\ NoTies(due)
                /\ watch.dest # None => Once(b.release, Siblings(watch.stop))
                => \A r \in Rows \cap due :
                     \/ r \in Rows'
                     \/ r.secs >= Day + Cutover /\ Cardinality(Rows') = watch.count)
  BY <1>1
<1> QED  BY <1>2, Inductive, PTL DEF Spec, StaysOnBoard

=============================================================================
