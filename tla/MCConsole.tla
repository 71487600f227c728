------------------------------ MODULE MCConsole ------------------------------
(***************************************************************************)
(* What users do, checked in one run: a behaviour is one of the model      *)
(* "which".  A model has its variables in the first of the places below, in*)
(* the order in which its module declares them; the other places hold None.*)
(***************************************************************************)
EXTENDS Integers, Sequences, FiniteSets, TLC

CONSTANTS
    None, Gone,
    Records,    \* the records of the administrator's pages, any permutation of which is as good
    (* Of the dashboard and of the session, what they say of them.         *)
    Shown, OwnOrg, SeesAll, Versions, Cuts, Visits, InFlight,
    Users, Under, Tabs, Issues, Loads, AtOnce,
    (* Of each of the other models, a record of the values it takes.       *)
    ForReports, ForPages, ForViews, ForFeeds, ForQueries, ForRanges, ForPlayback, ForOnboarding, ForRenewals

(* What the small values below are made of. *)
CONSTANTS v1, v2, g1, g2, o1, o2, o3, k1, k2, r1, r2, f1, f2

VARIABLES which, s1, s2, s3, s4, s5, s6, s7, s8, s9, s10, s11, s12, s13, s14

-----------------------------------------------------------------------------
(* Points of every kind that the reports tell apart, within two days.      *)
Kind(speed, ignition, reset) == [speed |-> speed, ignition |-> ignition, reset |-> reset]
AllKinds == {Kind(40, TRUE, FALSE), Kind(0, TRUE, FALSE), Kind(0, FALSE, FALSE),
             Kind(0, None, FALSE), Kind(80, None, TRUE)}
SmallReports ==
    [fleet |-> {v1, v2}, groupOf |-> [v \in {v1, v2} |-> IF v = v1 THEN {g1} ELSE {}],
     orgOf |-> [v \in {v1, v2} |-> o1], times |-> 0..3, minute |-> 1, day |-> 2, most |-> 4,
     feeds |-> [v \in {v1, v2} |-> IF v = v1 THEN (0..3) \X AllKinds ELSE {<<2, Kind(80, None, TRUE)>>}],
     speedLimit |-> 60]
Report == INSTANCE Reports WITH
    Fleet <- ForReports.fleet, GroupOf <- ForReports.groupOf, OrgOf <- ForReports.orgOf,
    Times <- ForReports.times, Minute <- ForReports.minute, Day <- ForReports.day, Most <- ForReports.most,
    Feeds <- ForReports.feeds, SpeedLimit <- ForReports.speedLimit, Null <- None, points <- s1

(* A user who sees two vehicles, one of them of another organisation. *)
Dashboard == INSTANCE LiveDashboard WITH
    NoPage <- None, Superadmin <- SeesAll,
    latest <- s1, connected <- s2, toServer <- s3, toBrowser <- s4, checking <- s5, rooms <- s6,
    page <- s7, fetch <- s8, list <- s9, missed <- s10, astray <- s11, deaf <- s12, cuts <- s13, visits <- s14

(* Three users above each other, with one tab or two. *)
AboveEachOther ==
    [u \in Users |-> CASE u = "admin" -> {"dealer", "customer"} [] u = "dealer" -> {"customer"} [] OTHER -> {}]
Session == INSTANCE Session WITH
    token <- s1, adminToken <- s2, tab <- s3, expired <- s4, issued <- s5, loads <- s6,
    owner <- s7, leftOver <- s8, disturbed <- s9, switched <- s10

(* Two records, there or not in the beginning, two changes at once. *)
SmallPages == [firsts |-> {{}, Records}, acts |-> 3, saves |-> 2]
Page == INSTANCE AdminPages WITH
    Kinds <- {"users", "groups", "orgs", "zones", "vehicles", "devices"}, Ids <- Records,
    Firsts <- ForPages.firsts, Acts <- ForPages.acts, Saves <- ForPages.saves,
    kind <- s1, rows <- s2, fars <- s3, meant <- s4, shown <- s5, lists <- s6, form <- s7, farAsks <- s8,
    saves <- s9, panel <- s10, panelAsks <- s11, history <- s12, acts <- s13

(* The other models use none of these. *)
Symmetry == Permutations(Records) \cup Permutations(Tabs)

(* A dealer, the organisation below it, in which the customer is, and one  *)
(* that is neither; one of the two vehicles was onboarded, and its licence *)
(* is over.                                                                *)
SmallViews ==
    [orgs |-> {o1, o2, o3}, parent |-> [o \in {o1, o2, o3} |-> IF o = o2 THEN o1 ELSE None],
     vehicles |-> {v1, v2}, expired |-> {v1}, onboarded |-> {v1}, groups |-> {g1, g2}, userOrg |-> o2]
View == INSTANCE FleetViews WITH
    Orgs <- ForViews.orgs, Parent <- ForViews.parent, Vehicles <- ForViews.vehicles,
    Expired <- ForViews.expired, Onboarded <- ForViews.onboarded, Groups <- ForViews.groups, UserOrg <- ForViews.userOrg,
    home <- s1, active <- s2, groupOf <- s3, inGroup <- s4, mine <- s5, devices <- s6

(* Up to four rows of two kinds in pages of two, some of them late and some*)
(* of one time.                                                            *)
SmallFeeds == [times |-> 0..2, kinds |-> {k1, k2}, late |-> TRUE, pageSize |-> 2, most |-> 4]
Feed == INSTANCE FeedPages WITH
    Times <- ForFeeds.times, Kinds <- ForFeeds.kinds, Late <- ForFeeds.late,
    PageSize <- ForFeeds.pageSize, Most <- ForFeeds.most, rows <- s1, reader <- s2

(* Every page with two vehicles, ranges and filters; one filter has a page *)
(* of rows more than the other.                                            *)
SmallQueries ==
    [vehicles |-> {v1, v2}, ranges |-> {r1, r2}, filters |-> {f1, f2},
     pagesOf |-> [f \in {f1, f2} |-> IF f = f1 THEN 2 ELSE 1], running |-> 2, acts |-> 5]
Query == INSTANCE QueryPages WITH
    Pages <- {"trip", "overspeeding", "activity", "distance", "ignition", "stoppages", "consolidated",
              "individual", "route", "history", "report", "messages", "audit"},
    Vehicles <- ForQueries.vehicles, Ranges <- ForQueries.ranges, Filters <- ForQueries.filters,
    PagesOf <- ForQueries.pagesOf, Roles <- {"superadmin", "dealer"},
    Running <- ForQueries.running, Acts <- ForQueries.acts,
    page <- s1, role <- s2, now <- s3, loading <- s4, asks <- s5, shown <- s6, history <- s7, acts <- s8

(* A minute of two seconds, a day of four minutes, three zones, two days.  *)
SmallRanges ==
    [ms |-> 2, second |-> 4, minute |-> 8, day |-> 32, zones |-> {-8, 0, 8}, first |-> 64, lastTick |-> 100]
Ranges == INSTANCE DayRanges WITH
    Ms <- ForRanges.ms, Second <- ForRanges.second, Minute <- ForRanges.minute, Day <- ForRanges.day,
    Zones <- ForRanges.zones, First <- ForRanges.first, LastTick <- ForRanges.lastTick,
    clock <- s1, zone <- s2, page <- s3, asked <- s4

(* Rows in India, near and far, abroad and on the equator; one route longer*)
(* than what is sent, some with two rows of one time.                      *)
Route(n, places, twice) ==
    {[i \in 1..n |-> [place |-> p[i], at |-> IF i >= twice THEN i - 1 ELSE i]] : p \in [1..n -> places]}
Feeds ==
    UNION {Route(n, {1, 100, 500, 0}, 4) : n \in 0..2} \cup Route(3, {1, 100, 0}, 4)
    \cup Route(3, {1, 100}, 3) \cup Route(4, {1}, 5)
SmallPlayback ==
    [vehicles |-> {v1, v2}, india |-> 1..200, usable |-> 1..500, feeds |-> Feeds,
     limit |-> 3, maxDist |-> 50, rowsPerPage |-> 2, acts |-> 3]
Play == INSTANCE Playback WITH
    Pages <- {"history", "route", "map"}, Vehicles <- ForPlayback.vehicles,
    India <- ForPlayback.india, Usable <- ForPlayback.usable, Feeds <- ForPlayback.feeds,
    Limit <- ForPlayback.limit, MaxDist <- ForPlayback.maxDist, RowsPerPage <- ForPlayback.rowsPerPage,
    Acts <- ForPlayback.acts,
    page <- s1, asks <- s2, loading <- s3, rows <- s4, points <- s5, index <- s6, playing <- s7,
    table <- s8, selected <- s9, history <- s10, acts <- s11

(* A new user or one of the two organisations, two tiers of one device at  *)
(* most: all of them free, or one of the organisation below.               *)
Free(o, t) == [p \in {o1, o2} |-> [k \in {k1, k2} |-> IF p = o /\ k = t THEN 1 ELSE 0]]
SmallOnboarding ==
    [imeis |-> {v1, v2}, tiers |-> {k1, k2}, own |-> o1, below |-> o2, mails |-> {f1}, mostRows |-> 2, mostLimit |-> 1,
     firsts |-> {[p \in {o1, o2} |-> [k \in {k1, k2} |-> 1]], Free(o2, k1)}, acts |-> 3]
Onboard == INSTANCE OnboardPage WITH
    Imeis <- ForOnboarding.imeis, Tiers <- ForOnboarding.tiers, Own <- ForOnboarding.own,
    Below <- ForOnboarding.below, Mails <- ForOnboarding.mails, MostRows <- ForOnboarding.mostRows,
    MostLimit <- ForOnboarding.mostLimit, Firsts <- ForOnboarding.firsts,
    Roles <- {"dealer", "superadmin"}, Acts <- ForOnboarding.acts,
    role <- s1, limits <- s2, devices <- s3, taken <- s4, page <- s5, quotas <- s6, sent <- s7,
    history <- s8, acts <- s9

(* A licence that is over, ends tomorrow or is not yet to be renewed; half *)
(* days, a day of warning, a month of two days and a year of five.         *)
SmallRenewals ==
    [vehicles |-> {v1}, prices |-> {1, 2}, default |-> 2, day |-> 2, warn |-> 1, month |-> 2, year |-> 5,
     firsts |-> {-1, 1, 3}, lastTick |-> 3, acts |-> 4]
Renewal == INSTANCE Renewals WITH
    Vehicles <- ForRenewals.vehicles, Prices <- ForRenewals.prices, Default <- ForRenewals.default,
    Day <- ForRenewals.day, Warn <- ForRenewals.warn, Month <- ForRenewals.month, Year <- ForRenewals.year,
    Firsts <- ForRenewals.firsts, LastTick <- ForRenewals.lastTick, Acts <- ForRenewals.acts,
    now <- s1, ends <- s2, price <- s3, page <- s4, asks <- s5, pay <- s6, ledger <- s7, history <- s8, acts <- s9

ASSUME ConsoleAssumption ==
    /\ Report!ReportsAssumption
    /\ Dashboard!DashboardAssumption /\ Session!SessionAssumption
    /\ Page!PagesAssumption /\ View!ViewsAssumption /\ Feed!FeedAssumption
    /\ Query!QueryAssumption /\ Ranges!RangesAssumption /\ Play!PlaybackAssumption
    /\ Onboard!OnboardAssumption /\ Renewal!RenewalsAssumption

-----------------------------------------------------------------------------
Empty14 == s14 = None
Empty12 == s12 = None /\ s13 = None /\ Empty14
Empty11 == s11 = None /\ Empty12
Empty10 == s10 = None /\ Empty11
Empty9 == s9 = None /\ Empty10
Empty8 == s8 = None /\ Empty9
Empty7 == s7 = None /\ Empty8
Empty5 == s5 = None /\ s6 = None /\ Empty7
Empty3 == s3 = None /\ s4 = None /\ Empty5

Init ==
    \/ which = "reports" /\ Report!ReportsInit /\ s2 = None /\ Empty3
    \/ which = "dashboard" /\ Dashboard!DashInit
    \/ which = "session" /\ Session!SessionInit /\ Empty11
    \/ which = "pages" /\ Page!PageInit /\ Empty14
    \/ which = "views" /\ View!ViewsInit /\ Empty7
    \/ which = "feeds" /\ Feed!FeedInit /\ Empty3
    \/ which = "queries" /\ Query!QueryInit /\ Empty9
    \/ which = "ranges" /\ Ranges!RangeInit /\ Empty5
    \/ which = "playback" /\ Play!PlayInit /\ Empty12
    \/ which = "onboarding" /\ Onboard!OnboardInit /\ Empty10
    \/ which = "renewals" /\ Renewal!RenewalsInit /\ Empty10

From12 == <<s12, s13, s14>>
From11 == <<s11, From12>>
From10 == <<s10, From11>>
From9 == <<s9, From10>>
From8 == <<s8, From9>>
From7 == <<s7, From8>>
From5 == <<s5, s6, From7>>
From3 == <<s3, s4, From5>>

Next ==
    \/ which = "reports" /\ Report!ReportsNext /\ UNCHANGED <<which, s2, From3>>
    \/ which = "dashboard" /\ Dashboard!DashNext /\ UNCHANGED which
    \/ which = "session" /\ Session!SessionNext /\ UNCHANGED <<which, From11>>
    \/ which = "pages" /\ Page!PageNext /\ UNCHANGED <<which, s14>>
    \/ which = "views" /\ View!ViewsNext /\ UNCHANGED <<which, From7>>
    \/ which = "feeds" /\ Feed!FeedNext /\ UNCHANGED <<which, From3>>
    \/ which = "queries" /\ Query!QueryNext /\ UNCHANGED <<which, From9>>
    \/ which = "ranges" /\ Ranges!RangeNext /\ UNCHANGED <<which, From5>>
    \/ which = "playback" /\ Play!PlayNext /\ UNCHANGED <<which, From12>>
    \/ which = "onboarding" /\ Onboard!OnboardNext /\ UNCHANGED <<which, From10>>
    \/ which = "renewals" /\ Renewal!RenewalsNext /\ UNCHANGED <<which, From10>>

vars == <<which, s1, s2, From3>>
Spec == Init /\ [][Next]_vars

-----------------------------------------------------------------------------
(* Every model keeps to its types. *)
TypeOK ==
    CASE which = "reports" -> Report!PointsTypeOK
      [] which = "dashboard" -> Dashboard!DashTypeOK
      [] which = "session" -> Session!SessionTypeOK
      [] which = "pages" -> Page!PageTypeOK
      [] which = "views" -> View!ViewsTypeOK
      [] which = "feeds" -> Feed!FeedTypeOK
      [] which = "queries" -> Query!QueryTypeOK
      [] which = "ranges" -> Ranges!RangeTypeOK
      [] which = "playback" -> Play!PlayTypeOK
      [] which = "onboarding" -> Onboard!OnboardTypeOK
      [] which = "renewals" -> Renewal!RenewalsTypeOK

(* reportRepository, gpsModel: the reports of a vehicle agree with each    *)
(* other.                                                                  *)
ReportsHold == which = "reports" => Report!ReportsAgree

(* useVehicles, VehicleMap, trackingSocket: the list shows the latest of   *)
(* each vehicle once nothing is under way, and the socket is in the room of*)
(* the page, but for the causes named in LiveDashboard.                    *)
DashboardHolds == which = "dashboard" => Dashboard!DashboardHolds

(* AuthContext, axios: the token, the token to return to and the socket    *)
(* belong to the user that each tab shows.                                 *)
SessionHolds == which = "session" => Session!SessionHolds

(* The pages of the browser: what a form stores, a list shows and a panel  *)
(* tells is what was meant, is there and is about that record, unless      *)
(* answers, forms or other users crossed as the models of the pages name.  *)
PagesHold ==
    /\ which = "pages" => Page!PageHolds
    /\ which = "queries" => Query!QueryHolds
    /\ which = "ranges" => Ranges!RangesHold
    /\ which = "playback" => Play!PlaybackHolds
    /\ which = "onboarding" => Onboard!OnboardHolds
    /\ which = "renewals" => Renewal!RenewalsHold

(* vehicleModel, groupModel, orgModel, gpsModel, auditController: lists,   *)
(* details and counts of one caller agree with each other, and turning the *)
(* pages of a list or a history shows every row of it, but for those that  *)
(* slip to another page or have the time of one on another page.           *)
ViewsHold ==
    /\ which = "views" => View!ViewsHold
    /\ which = "feeds" => Feed!EveryRowIsSeen

=============================================================================
