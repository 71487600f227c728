------------------------------ MODULE Playback ------------------------------
(***************************************************************************)
(* The routes on the maps: HistoryPage, which plays one back, with a table *)
(* of its rows and a slider; RouteHistoryReportPage, which shows one; both *)
(* through RouteMap; and FleetMap, which shows that of the vehicle that is *)
(* selected.  Rows whose position cannot be right are moved to the last    *)
(* good one, each page having its own notion of good.                      *)
(*                                                                         *)
(* A place is a number of kilometres along a road.                         *)
(***************************************************************************)
EXTENDS Integers, Sequences

CONSTANTS
    Pages,          \* the pages, of "history", "route", "map"
    Vehicles,
    India, Usable,  \* the places within the bounds of India; those off the equator and the meridian
    Feeds,          \* the rows that the server may have: sequences of [place, at], ordered by time
    Limit,          \* the rows that getRoute returns at most
    MaxDist,        \* the longest line
    RowsPerPage,    \* of the table
    Acts,           \* bound: what the user does
    None            \* no place, no vehicle

(* Assumed where the constants get their values. *)
PlaybackAssumption ==
    /\ Pages \subseteq {"history", "route", "map"}
    /\ India \subseteq Usable /\ Usable \subseteq Int
    /\ Feeds \subseteq Seq([place : Int, at : Nat])
    /\ \A rows \in Feeds : \A i \in 2..Len(rows) : rows[i - 1].at <= rows[i].at
    /\ {Limit, RowsPerPage} \subseteq Nat \ {0} /\ {MaxDist, Acts} \subseteq Nat

VARIABLES
    page,
    asks,      \* the requests that run: of which vehicle
    loading,   \* the flag that disables the button
    rows,      \* what the server had when it made the answer that is shown
    points,    \* what is made of it
    index,     \* currentPointIndex, counted from 0
    playing,
    table,     \* currentPage of the table
    selected,  \* the vehicle on the map
    history,   \* [auto, touched, owner, crossed]: the vehicle is still to be read; a row, the slider or Play
               \* was used while a request ran; whose route is shown; another was selected while a request ran
    acts

playVars == <<page, asks, loading, rows, points, index, playing, table, selected, history, acts>>

-----------------------------------------------------------------------------
Good(row) == row.place \in India

(* The first pass. *)
FirstGood(all) ==
    LET good == {i \in DOMAIN all : Good(all[i])}
    IN  IF good = {} THEN None ELSE all[CHOOSE i \in good : \A j \in good : i <= j].place

(* The second pass: what is not good is where the last good one was. *)
Substituted(all, good, first) ==
    LET last[n \in 0..Len(all)] ==
            IF n = 0 THEN first ELSE IF all[n].place \in good THEN all[n].place ELSE last[n - 1]
    IN  [n \in DOMAIN all |-> [all[n] EXCEPT !.place = last[n]]]

(* Or it is left out. *)
GoodRows(all) ==
    LET kept[n \in 0..Len(all)] ==
            IF n = 0 THEN <<>> ELSE IF Good(all[n]) THEN Append(kept[n - 1], all[n]) ELSE kept[n - 1]
    IN  kept[Len(all)]

(* getRoute: the oldest rows of the range. *)
Sent(all) == SubSeq(all, 1, IF Len(all) < Limit THEN Len(all) ELSE Limit)

(* fetchRouteHistory of the two pages, fetchRoute of the map. *)
HistoryPoints(all) == Substituted(all, India, FirstGood(all))
RoutePoints(all) == Substituted(all, Usable, None)
MapPoints(all) == GoodRows(all)

Processed(all) ==
    CASE page = "history" -> HistoryPoints(Sent(all))
      [] page = "route" -> RoutePoints(Sent(all))
      [] page = "map" -> MapPoints(Sent(all))

(* RouteMap: only places within India are on a line. *)
RoutePositions == [i \in DOMAIN GoodRows(points) |-> GoodRows(points)[i].place]

Last(s) == s[Len(s)]
Apart(p, q) == p - q > MaxDist \/ q - p > MaxDist

(* splitIntoSegments *)
Segments(places) ==
    LET upto[n \in 0..Len(places)] ==
            IF n = 0 THEN <<>>
            ELSE LET segs == upto[n - 1] IN
                 IF segs = <<>> \/ Apart(Last(Last(segs)), places[n]) THEN Append(segs, <<places[n]>>)
                 ELSE [segs EXCEPT ![Len(segs)] = Append(@, places[n])]
    IN  upto[Len(places)]

(* activePoint: the one that is played, undefined when there is none; the  *)
(* other page always takes the last one.                                   *)
HasActive == points # <<>> /\ (page = "history" => index < Len(points))
ActivePoint == IF page = "history" THEN points[index + 1] ELSE Last(points)

(* The part of the line that is drawn as travelled; the point is looked for*)
(* by its time, and counted among all points.                              *)
CurrentIndex == CHOOSE i \in DOMAIN points :
    points[i].at = ActivePoint.at /\ \A j \in 1..(i - 1) : points[j].at # ActivePoint.at
PastPositions ==
    LET upto == IF HasActive THEN CurrentIndex ELSE 1
    IN  SubSeq(RoutePositions, 1, IF upto < Len(RoutePositions) THEN upto ELSE Len(RoutePositions))

-----------------------------------------------------------------------------
PlayTypeOK ==
    /\ page \in Pages /\ loading \in BOOLEAN /\ playing \in BOOLEAN
    /\ \A n \in DOMAIN asks : asks[n] \in Vehicles
    /\ Len(points) <= Limit /\ index \in Nat /\ table \in Nat \ {0}
    /\ selected \in Vehicles \cup {None}
    /\ acts <= Acts

PlayInit ==
    /\ page \in Pages
    /\ asks = <<>> /\ loading = FALSE /\ rows = <<>> /\ points = <<>>
    /\ index = 0 /\ playing = FALSE /\ table = 1
    /\ selected \in (IF page = "map" THEN {None} ELSE Vehicles)
    /\ history = [auto |-> page = "history", touched |-> FALSE, owner |-> None, crossed |-> FALSE]
    /\ acts = 0

Act == acts < Acts /\ acts' = acts + 1
Without(n) == [m \in 1..(Len(asks) - 1) |-> IF m < n THEN asks[m] ELSE asks[m + 1]]

(* The effects of the table: it is where the point that is played is. *)
NeededPage(all, n) == IF all = <<>> THEN 1 ELSE (n \div RowsPerPage) + 1

(* fetchRouteHistory *)
Ask ==
    /\ asks' = Append(asks, selected)
    /\ loading' = TRUE
    /\ IF page = "history"
       THEN playing' = FALSE /\ index' = 0 /\ table' = NeededPage(points, 0)
       ELSE UNCHANGED <<playing, index, table>>
    /\ history' = [history EXCEPT !.touched = FALSE, !.auto = @ /\ acts' # acts]
    /\ UNCHANGED <<page, rows, points, selected>>

VehicleArrives == history.auto /\ acts' = acts /\ Ask
Submit == page # "map" /\ ~loading /\ Act /\ Ask

(* VehicleRouteAndFit: the effect of another selection.  While the vehicle *)
(* moves it is the same one and nothing is asked.                          *)
Select(v) ==
    /\ page = "map" /\ v # selected
    /\ Act
    /\ selected' = v
    /\ asks' = IF v = None THEN asks ELSE Append(asks, v)
    /\ rows' = <<>> /\ points' = <<>>
    /\ history' = [history EXCEPT !.owner = None, !.crossed = asks # <<>>]
    /\ UNCHANGED <<page, loading, index, playing, table>>

(* Any answer is shown, whatever has been asked or selected since. *)
Answer(n, all) ==
    /\ n \in DOMAIN asks
    /\ asks' = Without(n)
    /\ rows' = all /\ points' = Processed(all)
    /\ loading' = FALSE
    /\ table' = NeededPage(Processed(all), index)
    /\ history' = [history EXCEPT !.owner = asks[n]]
    /\ UNCHANGED <<page, index, playing, selected, acts>>

Fail(n) ==
    /\ n \in DOMAIN asks
    /\ asks' = Without(n)
    /\ loading' = FALSE
    /\ UNCHANGED <<page, rows, points, index, playing, table, selected, history, acts>>

(* The controls of the playback, which are there with the points. *)
Control == page = "history" /\ points # <<>> /\ Act

Touched == history' = [history EXCEPT !.touched = @ \/ asks # <<>>]

TogglePlay ==
    /\ Control
    /\ playing' = ~playing
    /\ Touched
    /\ UNCHANGED <<page, asks, loading, rows, points, index, table, selected>>

(* A row of the table is clicked, or the slider moved. *)
Jump(n) ==
    /\ Control
    /\ index' = n /\ table' = NeededPage(points, n)
    /\ Touched
    /\ UNCHANGED <<page, asks, loading, rows, points, playing, selected>>

handleStop ==
    /\ Control
    /\ playing' = FALSE /\ index' = 0 /\ table' = NeededPage(points, 0)
    /\ UNCHANGED <<page, asks, loading, rows, points, selected, history>>

(* Mutant: the timer passes the last point. *)
TickPastEnd ==
    /\ playing /\ points # <<>> /\ index < Limit
    /\ index' = index + 1 /\ table' = NeededPage(points, index') /\ UNCHANGED playing
    /\ UNCHANGED <<page, asks, loading, rows, points, selected, history, acts>>

(* The timer. *)
Tick ==
    /\ playing /\ points # <<>>
    /\ IF index >= Len(points) - 1
       THEN playing' = FALSE /\ UNCHANGED <<index, table>>
       ELSE index' = index + 1 /\ table' = NeededPage(points, index') /\ UNCHANGED playing
    /\ UNCHANGED <<page, asks, loading, rows, points, selected, history, acts>>

PlayNext ==
    \/ VehicleArrives \/ Submit \/ TogglePlay \/ handleStop \/ Tick
    \/ \E v \in Vehicles \cup {None} : Select(v)
    \/ \E n \in DOMAIN asks : (\E all \in Feeds : Answer(n, all)) \/ Fail(n)
    \/ \E n \in 0..(Len(points) - 1) : Jump(n)

PlaySpec == PlayInit /\ [][PlayNext]_playVars

-----------------------------------------------------------------------------
(* The two passes: a point of the history is where the vehicle was, or, if *)
(* that cannot be, where it last was before, or first after; it has no     *)
(* place only when no row has one.  On the other page it has none before   *)
(* the first place off the equator, and one abroad is believed.            *)
LastKnown(all, good, i) ==
    LET before == {j \in 1..i : all[j].place \in good}
        after == {j \in i..Len(all) : all[j].place \in good}
    IN  IF before # {} THEN all[CHOOSE j \in before : \A k \in before : k <= j].place
        ELSE IF after # {} /\ page = "history" THEN all[CHOOSE j \in after : \A k \in after : j <= k].place
        ELSE None
PlacesAreKnown ==
    page # "map" =>
        \A i \in DOMAIN points :
            points[i] = [rows[i] EXCEPT !.place = LastKnown(Sent(rows), IF page = "history" THEN India ELSE Usable, i)]

(* The lines one after the other. *)
Joined(segs) ==
    LET joined[n \in 0..Len(segs)] == IF n = 0 THEN <<>> ELSE joined[n - 1] \o segs[n]
    IN  joined[Len(segs)]

(* RouteMap, VehicleRouteAndFit: every place within India is on a line, in *)
(* the order of time, a line breaks where and only where two neighbours are*)
(* too far apart, and what is drawn as travelled ends at the point that is *)
(* played, or at the first one with its time.                              *)
LinesAreTravelled ==
    LET segs == Segments(RoutePositions)
    IN  /\ Joined(segs) = RoutePositions
        /\ \A s \in DOMAIN segs :
               /\ segs[s] # <<>>
               /\ \A i \in 1..(Len(segs[s]) - 1) : ~Apart(segs[s][i], segs[s][i + 1])
               /\ s > 1 => Apart(Last(segs[s - 1]), segs[s][1])
        /\ page = "history" /\ HasActive /\ RoutePositions # <<>> =>
               /\ Len(PastPositions) <= index + 1
               /\ \A i \in (Len(PastPositions) + 1)..(index + 1) : points[i].at = ActivePoint.at
        /\ page = "route" /\ HasActive /\ Len(PastPositions) < Len(RoutePositions) =>
               \E i \in 1..(Len(points) - 1) : points[i].at = Last(points).at

(* HistoryPage: the point that is played is one of those on the map, and   *)
(* its row is on the table's page, unless a row, the slider or Play was    *)
(* used while the new points were under way.                               *)
PlayedIsShown ==
    page = "history" =>
        /\ points # <<>> => index < Len(points) \/ history.touched
        /\ table = NeededPage(points, index)

(* getRoute: the point marked as the latest is, unless the range has more  *)
(* rows than are sent.                                                     *)
EndIsLatest ==
    page # "map" /\ points # <<>> => Last(points).at = Last(rows).at \/ Len(rows) > Limit

(* FleetMap: no route but that of the vehicle that is selected, unless it  *)
(* was selected while the route of another was under way.                  *)
RouteIsOfSelected ==
    page = "map" /\ points # <<>> => history.owner = selected \/ history.crossed

PlaybackHolds == PlacesAreKnown /\ LinesAreTravelled /\ PlayedIsShown /\ EndIsLatest /\ RouteIsOfSelected
=============================================================================
