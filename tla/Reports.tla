------------------------------- MODULE Reports -------------------------------
(***************************************************************************)
(* The reports over gps_points: the queries of reportRepository and        *)
(* gpsModel, and what reportService makes of them for a vehicle, a group or*)
(* an organisation, while points arrive in any order.  The pages of a      *)
(* history are those of FeedPages.                                         *)
(*                                                                         *)
(* A point has a time, a speed, an ignition, which may be NULL, and an     *)
(* odometer; UNIQUE(vehicle_id, device_time) makes the time identify it.   *)
(* Where it was follows from the time and is left out, with the averages   *)
(* and the fuel.                                                           *)
(***************************************************************************)
EXTENDS Integers, Sequences, FiniteSets, FiniteSetsExt

CONSTANTS
    Fleet,       \* the vehicles
    GroupOf,     \* the groups of each
    OrgOf,       \* the organisation of each
    Times,       \* bound: the times of points, in the units of Minute
    Minute,      \* a minute
    Day,         \* a day
    Feeds,       \* bound: the points each vehicle may send, as <<time, kind>>; a kind
                 \* is [speed, ignition, reset], and a reset odometer shows 0
    Most,        \* bound: how many points a vehicle sends
    SpeedLimit,
    Null

(* Assumed where the constants get their values. *)
ReportsAssumption ==
    /\ Times \subseteq Nat /\ Minute \in Nat /\ Day \in Nat \ {0}
    /\ \A v \in Fleet : Feeds[v] \subseteq
          Times \X [speed : Nat, ignition : BOOLEAN \cup {Null}, reset : BOOLEAN]

VARIABLE points  \* gps_points: for each vehicle, its points by their times

PointsTypeOK ==
    \A v \in Fleet : \A t \in DOMAIN points[v] : <<t, points[v][t]>> \in Feeds[v]

ReportsInit == points = [v \in Fleet |-> <<>>]

-----------------------------------------------------------------------------
(* SQL: comparison and disjunction with NULL, rows, windows and groups *)

Differs(a, b) == IF a = Null \/ b = Null THEN Null ELSE a # b
Or(a, b) == IF TRUE \in {a, b} THEN TRUE ELSE IF Null \in {a, b} THEN Null ELSE FALSE

Ascending(S) == [n \in 1..Cardinality(S) |-> CHOOSE t \in S : Cardinality({u \in S : u < t}) = n - 1]
Between(v, range) == {t \in DOMAIN points[v] : range[1] <= t /\ t <= range[2]}

Odometer(v, t) == IF points[v][t].reset THEN 0 ELSE 100 + t
Distance(v, S) == Max({Odometer(v, t) : t \in S}) - Min({Odometer(v, t) : t \in S})
Total(f(_), S) == MapThenSumSet(f, S)

(* LAG over the flags of the rows *)
Lag(flags, i) == IF i = 1 THEN Null ELSE flags[i - 1]

(* Mutant: a row after an unknown one is not a change. *)
IsChangeOnly(flags, i) == Differs(flags[i], Lag(flags, i)) = TRUE

IsChange(flags, i) == Or(Differs(flags[i], Lag(flags, i)), Lag(flags, i) = Null) = TRUE

(* SUM(is_change) OVER (ORDER BY device_time) *)
IslandId(flags, i) == Cardinality({j \in 1..i : IsChange(flags, j)})

(* The rows of each island for which the flag is true. *)
Islands(flags) ==
    LET true == {i \in DOMAIN flags : flags[i] = TRUE}
    IN  {{j \in true : IslandId(flags, j) = IslandId(flags, i)} : i \in true}

Flags(v, range, Flag(_)) ==
    LET rows == Ascending(Between(v, range))
    IN  [i \in DOMAIN rows |-> Flag(points[v][rows[i]])]

(* GROUP BY the island, HAVING a duration above the least. *)
Events(v, range, Flag(_), least) ==
    LET rows == Ascending(Between(v, range))
        Event(I) == [start |-> rows[Min(I)], end |-> rows[Max(I)],
                     distance |-> Distance(v, {rows[i] : i \in I}),
                     fastest |-> Max({points[v][rows[i]].speed : i \in I})]
    IN  {e \in {Event(I) : I \in Islands(Flags(v, range, Flag))} : e.end - e.start > least}

-----------------------------------------------------------------------------
(* reportRepository *)

Moving(p) == Or(p.ignition, p.speed > 0)
Stopped(p) == p.speed = 0 /\ p.ignition # TRUE
Overspeeding(p) == p.speed > SpeedLimit

getTrips(v, range) == Events(v, range, Moving, Minute)
getStoppages(v, range) == Events(v, range, Stopped, Minute)
getOverspeeding(v, range) == Events(v, range, Overspeeding, 0)

(* LEAD(device_time) - device_time, 0 for the last row *)
Lasts(v, range, t) ==
    LET later == {u \in Between(v, range) : u > t}
    IN  IF later = {} THEN 0 ELSE Min(later) - t

Seconds(v, range, Flag(_)) ==
    Total(LAMBDA t : Lasts(v, range, t), {t \in Between(v, range) : Flag(points[v][t])})

getActivity(v, range) ==
    [running |-> Seconds(v, range, LAMBDA p : p.speed > 0),
     idle |-> Seconds(v, range, LAMBDA p : p.speed = 0 /\ p.ignition = TRUE),
     stopped |-> Seconds(v, range, Stopped),
     distance |-> IF Between(v, range) = {} THEN Null ELSE Distance(v, Between(v, range))]

(* One query for all the vehicles of an organisation; those without a point*)
(* have no row.                                                            *)
getConsolidatedActivity(org, range) ==
    {[vehicle |-> v, activity |-> getActivity(v, range)] :
        v \in {w \in Fleet : OrgOf[w] = org /\ Between(w, range) # {}}}

getDailyDistance(v, range) ==
    LET rows == Between(v, range)
    IN  {[date |-> d, points |-> Cardinality({t \in rows : t \div Day = d}),
          distance |-> Distance(v, {t \in rows : t \div Day = d})] : d \in {t \div Day : t \in rows}}

getRouteHistory(v, range) == Ascending(Between(v, range))

(* A change of the ignition, or the first known one after an unknown one. *)
getIgnitionEvents(v, range) ==
    LET rows == Ascending(Between(v, range))
        was(i) == Lag([j \in DOMAIN rows |-> points[v][rows[j]].ignition], i)
        is(i) == points[v][rows[i]].ignition
    IN  {[time |-> rows[i], event |-> IF is(i) THEN "ON" ELSE "OFF"] :
            i \in {j \in DOMAIN rows : is(j) # Null /\ (was(j) = Null \/ was(j) # is(j))}}

-----------------------------------------------------------------------------
(* reportService *)

(* A filter names a vehicle, a group or an organisation; the first counts. *)
resolveVehicles(filter) ==
    CASE filter.vehicle # Null -> {filter.vehicle}
      [] filter.vehicle = Null /\ filter.group # Null -> {v \in Fleet : filter.group \in GroupOf[v]}
      [] OTHER -> {v \in Fleet : OrgOf[v] = filter.org}

ForEach(filter, Query(_)) ==
    UNION {{[vehicle |-> v, row |-> r] : r \in Query(v)} : v \in resolveVehicles(filter)}

getTripReport(filter, range) == ForEach(filter, LAMBDA v : getTrips(v, range))
getStoppagesReport(filter, range) == ForEach(filter, LAMBDA v : getStoppages(v, range))
getOverspeedingReport(filter, range) == ForEach(filter, LAMBDA v : getOverspeeding(v, range))
getIgnitionReport(filter, range) == ForEach(filter, LAMBDA v : getIgnitionEvents(v, range))
getDailyDistanceReport(filter, range) == ForEach(filter, LAMBDA v : getDailyDistance(v, range))

getVehicleActivityReport(filter, range) ==
    {[vehicle |-> v, activity |-> getActivity(v, range), trips |-> Cardinality(getTrips(v, range))] :
        v \in resolveVehicles(filter)}

getRouteHistoryReport(v, range) ==
    LET rows == getRouteHistory(v, range)
    IN  [points |-> rows, trips |-> Cardinality(getTrips(v, range)),
         distance |-> IF rows = <<>> THEN 0 ELSE Odometer(v, rows[Len(rows)]) - Odometer(v, Head(rows))]

getIndividualReport(v, range) ==
    [activity |-> getActivity(v, range), trips |-> getTrips(v, range),
     stoppages |-> getStoppages(v, range), overspeeding |-> getOverspeeding(v, range)]

-----------------------------------------------------------------------------
(* gpsModel: the daily and total figures *)

getReport(v, range) ==
    LET rows == Between(v, range)
        Ignited(S) == Cardinality({t \in S : points[v][t].ignition = TRUE})
    IN  [daily |-> {[date |-> d.date, points |-> d.points, distance |-> d.distance,
                     ignited |-> Ignited({t \in rows : t \div Day = d.date})] : d \in getDailyDistance(v, range)},
         points |-> Cardinality(rows),
         distance |-> IF rows = {} THEN Null ELSE Distance(v, rows)]

(* The writer stores a point; buffered ones come late. *)
StorePoint(v, t, k) ==
    /\ t \notin DOMAIN points[v]
    /\ Cardinality(DOMAIN points[v]) < Most
    /\ points' = [points EXCEPT ![v] = [u \in DOMAIN @ \cup {t} |-> IF u = t THEN k ELSE @[u]]]

ReportsNext == \E v \in Fleet : \E f \in Feeds[v] : StorePoint(v, f[1], f[2])

ReportsSpec == ReportsInit /\ [][ReportsNext]_points

-----------------------------------------------------------------------------
Ranges == {<<Min(Times), Max(Times)>>, <<Min(Times) + 1, Max(Times) - 1>>}

(* The longest stretches of neighbouring rows for which the flag is true. *)
Stretches(flags) ==
    {S \in SUBSET DOMAIN flags :
        /\ S # {} /\ S = Min(S)..Max(S)
        /\ \A i \in S : flags[i] = TRUE
        /\ \A i \in {Min(S) - 1, Max(S) + 1} \cap DOMAIN flags : flags[i] # TRUE}

Length(S) == Total(LAMBDA e : e.end - e.start, S)
Way(S) == Total(LAMBDA e : e.distance, S)
Rising(v) == \A t \in DOMAIN points[v] : ~points[v][t].reset

(* The reports of one vehicle agree with each other, whatever points are   *)
(* missing, late or without an ignition: a trip is a stretch of moving     *)
(* points and a stoppage one of stopped points; running, idle and stopped  *)
(* make up the time from the first point to the last, with room for the    *)
(* trips and the stoppages; while the odometer is not reset, trips and days*)
(* do not add up to more than the distance, and the route's distance is the*)
(* same; and the consolidated report says of each vehicle what its own says*)
ReportsAgree ==
    \A v \in Fleet, range \in Ranges :
        LET rows == Between(v, range)
            activity == getActivity(v, range)
        IN  /\ Islands(Flags(v, range, Moving)) = Stretches(Flags(v, range, Moving))
            /\ Islands(Flags(v, range, Stopped)) = Stretches(Flags(v, range, Stopped))
            /\ rows # {} =>
                  /\ activity.running + activity.idle + activity.stopped = Max(rows) - Min(rows)
                  /\ Length(getTrips(v, range)) <= activity.running + activity.idle
                  /\ Length(getStoppages(v, range)) <= activity.stopped
                  /\ Length(getOverspeeding(v, range)) <= activity.running
                  /\ Rising(v) =>
                        /\ Way(getTrips(v, range)) <= activity.distance
                        /\ Way(getDailyDistance(v, range)) <= activity.distance
                        /\ getRouteHistoryReport(v, range).distance = activity.distance
                  /\ \E r \in getConsolidatedActivity(OrgOf[v], range) :
                        r.vehicle = v /\ r.activity = activity
            /\ Total(LAMBDA d : d.points, getReport(v, range).daily) = getReport(v, range).points

=============================================================================
