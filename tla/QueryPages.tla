----------------------------- MODULE QueryPages -----------------------------
(***************************************************************************)
(* The pages that show the answer to a question put together from controls:*)
(* the nine reports of pages/reports, the report, the history and the raw  *)
(* messages of one vehicle, and the audit log.  Some ask when a button is  *)
(* pressed, which is disabled while "loading", some whenever a control     *)
(* changes, some both; answers come in any order and none is cancelled.    *)
(***************************************************************************)
EXTENDS Naturals, Sequences, FiniteSets

CONSTANTS
    Pages,      \* the pages, of those below
    Vehicles, Ranges, Filters,   \* what can be chosen
    PagesOf,    \* the pages of rows that the server has for each filter
    Roles,      \* of "superadmin", "dealer"
    Running,    \* bound: the requests that run at once
    Acts,       \* bound: what the user does
    None

Controls == {"vehicle", "range", "filter", "archived", "page"}
Reports == {"trip", "overspeeding", "activity", "distance", "ignition", "stoppages", "consolidated", "individual"}

(* What the controls say, all of them. *)
Questions ==
    [vehicle : Vehicles \cup {None}, range : Ranges \cup {None}, filter : Filters, archived : BOOLEAN, page : Nat \ {0}]

(* Assumed where the constants get their values. *)
QueryAssumption ==
    /\ Pages \subseteq Reports \cup {"route", "history", "report", "messages", "audit"}
    /\ IsFiniteSet(Vehicles) /\ IsFiniteSet(Ranges) /\ IsFiniteSet(Filters)
    /\ None \notin Vehicles \cup Ranges \cup Filters \cup Questions
    /\ Ranges # {} /\ Filters # {}
    /\ PagesOf \in [Filters -> Nat \ {0}]
    /\ {Running, Acts} \subseteq Nat

VARIABLES
    page,     \* the page that is open
    role,     \* who opened it
    now,      \* what its controls show
    loading,  \* its flag
    asks,     \* the requests that run: [for, late]
    shown,    \* what the rows on it answer, None before there are any
    history,  \* [last, behind, overlap], see the properties; auto: the vehicle is not read yet
    acts

queryVars == <<page, role, now, loading, asks, shown, history, acts>>

-----------------------------------------------------------------------------
(* Each page: its controls, those that must be set for its button, those of*)
(* which a change asks at once, whether it asks when it opens, and whether *)
(* the button is disabled while it loads.                                  *)
Manual(controls, needs) ==
    [controls |-> controls, needs |-> needs, asksOn |-> {}, asksFirst |-> FALSE, guarded |-> TRUE]

TripReportPage == Manual({"vehicle", "range"}, {"range"})
OverspeedingReportPage == Manual({"vehicle", "range", "filter"}, {"range"})
VehicleActivityReportPage == Manual({"vehicle", "range"}, {"range"})
DailyDistanceReportPage == Manual({"vehicle", "range"}, {"range"})
IgnitionReportPage == Manual({"vehicle", "range"}, {"range"})
StoppageReportPage == Manual({"vehicle", "range"}, {"range"})
ConsolidatedReportPage == Manual({"range"}, {"range"})
IndividualReportPage == Manual({"vehicle", "range"}, {"range", "vehicle"})

(* A vehicle that is chosen is asked for at once, and again by the button. *)
RouteHistoryReportPage == [Manual({"vehicle", "range"}, {"vehicle"}) EXCEPT !.asksOn = {"vehicle"}]

(* The pages of one vehicle; the history is asked for when the vehicle has *)
(* been read, which may be while the user's own request runs.              *)
HistoryPage == Manual({"range"}, {})
ReportPage == [Manual({"range"}, {}) EXCEPT !.asksFirst = TRUE]
SensorLogsPage == [Manual({"page"}, {}) EXCEPT !.asksOn = {"page"}, !.asksFirst = TRUE, !.guarded = FALSE]

AuditLogsAdminPage ==
    [Manual({"filter", "archived", "page"}, {}) EXCEPT
        !.asksOn = {"filter", "archived", "page"}, !.asksFirst = TRUE, !.guarded = FALSE]

Made(p) ==
    CASE p = "trip" -> TripReportPage [] p = "overspeeding" -> OverspeedingReportPage
      [] p = "activity" -> VehicleActivityReportPage [] p = "distance" -> DailyDistanceReportPage
      [] p = "ignition" -> IgnitionReportPage [] p = "stoppages" -> StoppageReportPage
      [] p = "consolidated" -> ConsolidatedReportPage [] p = "individual" -> IndividualReportPage
      [] p = "route" -> RouteHistoryReportPage [] p = "history" -> HistoryPage
      [] p = "report" -> ReportPage [] p = "messages" -> SensorLogsPage [] p = "audit" -> AuditLogsAdminPage
Is == Made(page)

(* Nothing is chosen: every vehicle, today, no filter, the first page.     *)
NoFilter == CHOOSE f \in Filters : TRUE
Today == CHOOSE r \in Ranges : TRUE
Opened == [vehicle |-> None, range |-> Today, filter |-> NoFilter, archived |-> FALSE, page |-> 1]

Values(c) ==
    CASE c = "vehicle" -> Vehicles \cup {None} [] c = "range" -> Ranges \cup {None}
      [] c = "filter" -> Filters [] c = "archived" -> BOOLEAN
      [] c = "page" -> 1..PagesOf[now.filter]

(* The server refuses a consolidated report of no organisation: the page   *)
(* names none, and a superadmin is of none.  A route without a range is not*)
(* even asked for.                                                         *)
Refused(for) ==
    \/ page = "consolidated" /\ role = "superadmin"
    \/ page \in {"route", "history"} /\ for.range = None

-----------------------------------------------------------------------------
Request(for) == [for |-> for, late |-> FALSE]

QueryTypeOK ==
    /\ page \in Pages /\ role \in Roles
    /\ now \in Questions
    /\ loading \in BOOLEAN
    /\ Len(asks) <= Running + 2
    /\ shown \in Questions \cup {None}
    /\ acts <= Acts

QueryInit ==
    /\ page \in Pages /\ role \in Roles
    /\ now = Opened
    /\ asks = (IF Is.asksFirst THEN <<Request(now)>> ELSE <<>>)
    /\ loading = Is.asksFirst
    /\ shown = None
    /\ history = [last |-> IF Is.asksFirst THEN now ELSE None, behind |-> FALSE, overlap |-> FALSE, auto |-> page = "history"]
    /\ acts = 0

Act == acts < Acts /\ acts' = acts + 1

(* The requests for the questions Q, in this order. *)
Ask(Q) ==
    /\ Len(asks) < Running
    /\ asks' = asks \o [n \in DOMAIN Q |-> Request(Q[n])]
    /\ loading' = TRUE
    /\ history' = [history EXCEPT !.last = Q[Len(Q)], !.overlap = @ \/ asks # <<>> \/ Len(Q) > 1]

(* handleGenerate, handleQuerySubmit, handleQuery, Refresh. *)
Generate ==
    /\ Act
    /\ page # "messages"
    /\ Is.guarded => ~loading
    /\ \A c \in Is.needs : now[c] # None
    /\ Ask(<<now>>)
    /\ UNCHANGED <<page, role, now, shown>>

(* The vehicle has been read, once. *)
VehicleArrives ==
    /\ history.auto
    /\ Len(asks) < Running
    /\ asks' = Append(asks, Request(now)) /\ loading' = TRUE
    /\ history' = [history EXCEPT !.auto = FALSE, !.last = now, !.overlap = @ \/ asks # <<>>]
    /\ UNCHANGED <<page, role, now, shown, acts>>

(* Without a vehicle there is nothing to show, but what runs will be shown.*)
Unchoose ==
    /\ Act
    /\ page = "route" /\ now.vehicle # None
    /\ now' = [now EXCEPT !.vehicle = None]
    /\ shown' = None
    /\ history' = [history EXCEPT !.behind = asks # <<>>, !.last = None]
    /\ UNCHANGED <<page, role, loading, asks>>

(* A control that only counts when the button is pressed, or asks.  A page *)
(* is turned with the rows on the screen; the raw messages keep the page of*)
(* the rows that are shown.                                                *)
Choose(c, value) ==
    /\ Act
    /\ c \in Is.controls \ {"archived"} /\ value \in Values(c) /\ value # now[c]
    /\ page = "route" /\ c = "vehicle" => value # None
    /\ c = "page" => (page = "audit" => ~loading) /\ shown # None /\ value \in {now.page - 1, now.page + 1}
    /\ page = "audit" => c = "page"
    /\ IF page = "messages" THEN Ask(<<[now EXCEPT ![c] = value]>>) /\ UNCHANGED now
       ELSE /\ now' = [now EXCEPT ![c] = value]
            /\ IF c \in Is.asksOn THEN Ask(<<now'>>) ELSE UNCHANGED <<asks, loading, history>>
    /\ UNCHANGED <<page, role, shown>>

(* Mutant: the page number stays when the filter changes. *)
ChangePageKept(change) ==
    /\ now' = change
    /\ Ask(<<change>>)

(* The effects of the audit log: the question as it is now, with the page  *)
(* that was open, and again after the page, or all, was reset.             *)
Change(change) ==
    LET reset == IF change.archived # now.archived THEN [Opened EXCEPT !.archived = change.archived]
                 ELSE [change EXCEPT !.page = 1]
    IN  /\ now' = reset
        /\ Ask(IF reset = change THEN <<change>> ELSE <<change, reset>>)

Filter(f) ==
    /\ Act
    /\ page = "audit" /\ f \in Filters \ {now.filter}
    /\ Change([now EXCEPT !.filter = f])
    /\ UNCHANGED <<page, role, shown>>

SwitchArchived ==
    /\ Act
    /\ page = "audit"
    /\ Change([now EXCEPT !.archived = ~@])
    /\ UNCHANGED <<page, role, shown>>

(* The n-th answer overtakes those that were asked for before.             *)
Overtaking(n) ==
    [m \in 1..(Len(asks) - 1) |-> IF m < n THEN [asks[m] EXCEPT !.late = TRUE] ELSE asks[m + 1]]

(* Any answer is shown, and ends the loading; the raw messages show the    *)
(* page that the answer tells.                                             *)
Answer(n) ==
    /\ n \in DOMAIN asks /\ ~Refused(asks[n].for)
    /\ asks' = Overtaking(n)
    /\ loading' = FALSE
    /\ shown' = asks[n].for
    /\ now' = IF page = "messages" THEN [now EXCEPT !.page = asks[n].for.page] ELSE now
    /\ history' = [history EXCEPT !.behind = asks[n].late \/ (@ /\ asks[n].for # history.last)]
    /\ UNCHANGED <<page, role, acts>>

(* An error leaves the rows that were there. *)
Fail(n) ==
    /\ n \in DOMAIN asks
    /\ asks' = Overtaking(n)
    /\ loading' = FALSE
    /\ history' = [history EXCEPT !.behind = TRUE]
    /\ UNCHANGED <<page, role, now, shown, acts>>

QueryNext ==
    \/ Generate \/ VehicleArrives \/ Unchoose \/ SwitchArchived
    \/ \E c \in Controls : \E value \in Values(c) : Choose(c, value)
    \/ \E f \in Filters : Filter(f)
    \/ \E n \in DOMAIN asks : Answer(n) \/ Fail(n)

QuerySpec == QueryInit /\ [][QueryNext]_queryVars

-----------------------------------------------------------------------------
(* handleGenerate and its like: when nothing runs, the rows answer what was*)
(* asked last, unless a request failed, or answers overtook each other;    *)
(* which they cannot on a page that asks only by its button.               *)
LastAskedIsShown ==
    /\ asks = <<>> => shown = history.last \/ history.behind
    /\ page \in Reports \cup {"report"} => ~history.overlap /\ Len(asks) <= 1

(* RouteHistoryReportPage, AuditLogsAdminPage, SensorLogsPage: what asks by*)
(* itself is never left with controls that ask for something else: the     *)
(* vehicle that is chosen, the filter and the page are those of the rows.  *)
ControlsMatchRows ==
    asks = <<>> /\ ~history.behind /\ shown # None => \A c \in Is.asksOn : shown[c] = now[c]

(* AuditLogsAdminPage: the page that is open is one that its filter has.   *)
PageExists == page = "audit" => now.page <= PagesOf[now.filter]

(* setLoading: what still runs is announced, unless requests overlapped    *)
(* and the answer of one ended the loading of both.                        *)
LoadingIsTold == (loading => asks # <<>>) /\ (asks # <<>> => loading \/ history.overlap)

QueryHolds == LastAskedIsShown /\ ControlsMatchRows /\ PageExists /\ LoadingIsTold
=============================================================================
