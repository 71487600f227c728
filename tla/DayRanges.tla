----------------------------- MODULE DayRanges ------------------------------
(***************************************************************************)
(* What "a day" means to the pages that ask for one: the browser turns its *)
(* controls into two UTC times, and the server shows the rows between them.*)
(* The reports take dates, the histories take local times to the minute,   *)
(* the map and the audit log take the local day of the moment, the report  *)
(* of one vehicle leaves the day to the server, which keeps UTC.           *)
(*                                                                         *)
(* Time is counted in ticks of UTC.  A Date of JavaScript holds multiples  *)
(* of Ms; devices report multiples of Second; audit rows are stamped by the*)
(* database, which knows every tick.                                       *)
(***************************************************************************)
EXTENDS Integers

CONSTANTS
    Ms, Second, Minute, Day,    \* in ticks
    Zones,      \* the offsets of local time from UTC
    First,      \* the first tick at which a page is opened
    LastTick    \* bound: the last one

(* Assumed where the constants get their values. *)
RangesAssumption ==
    /\ {Ms, Second, Minute, Day, First, LastTick} \subseteq Nat \ {0}
    /\ Second % Ms = 0 /\ Minute % Second = 0 /\ Day % Minute = 0 /\ Day >= 4 * Minute
    /\ \A z \in Zones : z \in Int /\ z % Minute = 0 /\ -Day < z /\ z < Day
    /\ First >= 2 * Day

VARIABLES
    clock,   \* the time, a multiple of Ms
    zone,    \* the browser's offset
    page,    \* [kind, from, to, day]: the range that its controls hold, the day that it took for today
    asked    \* [from, to, at]: what was asked last, and when

rangeVars == <<clock, zone, page, asked>>

-----------------------------------------------------------------------------
LocalDay(t) == (t + zone) \div Day
Midnight(d) == d * Day - zone         \* the beginning of a local day
UtcDay(t) == t \div Day               \* toISOString().split('T')[0]

(* new Date(date) is the midnight of UTC; setHours goes to the local day   *)
(* that this falls into.                                                   *)
DayOfDate(d) == LocalDay(d * Day)

(* toLocalISO: local time to the minute. *)
ToMinute(t) == t - (t % Minute)

(* handleGenerate of the reports. *)
ReportRange(d) == [from |-> Midnight(DayOfDate(d)), to |-> Midnight(DayOfDate(d)) + Day - Ms]

(* getTodayRange *)
TodayRange(t) ==
    [from |-> ToMinute(Midnight(LocalDay(t))), to |-> ToMinute(Midnight(LocalDay(t)) + Day - Second)]

(* setQuickRange: the last hours, today, yesterday. *)
QuickRange(t, range, hours) ==
    CASE range = "hours" -> [from |-> ToMinute(t - hours), to |-> ToMinute(t)]
      [] range = "today" -> TodayRange(t)
      [] range = "yesterday" -> TodayRange(t - Day)

(* VehicleRouteAndFit *)
MapRange(t) == [from |-> Midnight(LocalDay(t)), to |-> Midnight(LocalDay(t)) + Day - Second]

(* getReport: the server appends the times of day to the dates. *)
ServerRange(d) == [from |-> d * Day, to |-> d * Day + Day - Second]

(* Mutant: the archive ends when the last day before today begins. *)
AuditRangeShort(t, archived, yesterday) ==
    IF archived THEN [from |-> 0, to |-> Midnight(DayOfDate(yesterday))]
    ELSE [from |-> Midnight(LocalDay(t)), to |-> Midnight(LocalDay(t)) + Day - Ms]

(* fetchLogs: today, or all until the end of yesterday as the page took it.*)
AuditRange(t, archived, yesterday) ==
    IF archived THEN [from |-> 0, to |-> Midnight(DayOfDate(yesterday)) + Day - Ms]
    ELSE [from |-> Midnight(LocalDay(t)), to |-> Midnight(LocalDay(t)) + Day - Ms]

-----------------------------------------------------------------------------
Kinds == {"report", "history", "map", "vehicle", "today", "archive"}
Nothing == [from |-> 0, to |-> -1, at |-> 0]
Asked(range) == [from |-> range.from, to |-> range.to, at |-> clock]

RangeTypeOK ==
    /\ clock \in First..LastTick /\ clock % Ms = 0
    /\ zone \in Zones /\ page.kind \in Kinds
    /\ page.kind = "history" => page.from % Minute = 0 /\ page.to % Minute = 0
    /\ asked.at <= clock

(* The default of the page, from the time at which it is opened. *)
Default(kind, t) ==
    IF kind = "history" THEN [kind |-> kind, from |-> TodayRange(t).from, to |-> TodayRange(t).to, day |-> LocalDay(t)]
    ELSE [kind |-> kind, from |-> 0, to |-> 0,
          day |-> IF kind = "archive" THEN LocalDay(t) - 1 ELSE UtcDay(t)]

RangeInit ==
    /\ clock \in {t \in First..LastTick : t % Ms = 0} /\ zone \in Zones
    /\ \E kind \in Kinds : page = Default(kind, clock)
    /\ asked = Nothing

Tick ==
    /\ clock + Ms <= LastTick
    /\ clock' = clock + Ms
    /\ UNCHANGED <<zone, page, asked>>

(* Another date is chosen, or a quick range. *)
ChooseDay(d) ==
    /\ page.kind \in {"report", "vehicle"} /\ d \in 1..UtcDay(clock)
    /\ page' = [page EXCEPT !.day = d]
    /\ UNCHANGED <<clock, zone, asked>>

Quick(range, hours) ==
    /\ page.kind = "history"
    /\ LET r == QuickRange(clock, range, hours)
       IN  page' = [page EXCEPT !.from = r.from, !.to = r.to,
                                !.day = LocalDay(clock) - (IF range = "yesterday" THEN 1 ELSE 0)]
    /\ UNCHANGED <<clock, zone, asked>>

Ask ==
    /\ asked' = Asked(CASE page.kind = "report" -> ReportRange(page.day)
                        [] page.kind = "history" -> [from |-> page.from, to |-> page.to]
                        [] page.kind = "map" -> MapRange(clock)
                        [] page.kind = "vehicle" -> ServerRange(page.day)
                        [] page.kind = "today" -> AuditRange(clock, FALSE, page.day)
                        [] page.kind = "archive" -> AuditRange(clock, TRUE, page.day))
    /\ UNCHANGED <<clock, zone, page>>

RangeNext ==
    \/ Tick \/ Ask
    \/ \E d \in 1..UtcDay(clock) : ChooseDay(d)
    \/ \E range \in {"hours", "today", "yesterday"} : Quick(range, Day \div 2)

RangeSpec == RangeInit /\ [][RangeNext]_rangeVars

-----------------------------------------------------------------------------
(* device_time >= $2 AND device_time <= $3 *)
Rows(range, step) == {t \in 0..(LastTick + 2 * Day) : t % step = 0 /\ range.from <= t /\ t <= range.to}
DayRows(d, step) == {t \in 0..(LastTick + 2 * Day) : t % step = 0 /\ LocalDay(t) = d}

(* The reports, the history and the map: which rows a chosen day has.  East*)
(* of Greenwich the reports show the local day of the date, west of it the *)
(* day before; the default of a history lacks the last minute of its day   *)
(* but for the first second of that; the map lacks nothing; the server has *)
(* the day of UTC.                                                         *)
DayIsShown ==
    LET fresh == asked # Nothing /\ asked.at = clock
        got == Rows(asked, Second)
    IN  fresh =>
            /\ page.kind = "report" /\ asked.from = ReportRange(page.day).from =>
                   got = DayRows(IF zone >= 0 THEN page.day ELSE page.day - 1, Second)
            /\ page.kind = "history" /\ asked.from = page.from /\ asked.to = page.to /\ page.to - page.from = Day - Minute =>
                   got = {t \in DayRows(LocalDay(page.from), Second) : t <= Midnight(LocalDay(page.from) + 1) - Minute}
            /\ page.kind = "map" => got = DayRows(LocalDay(clock), Second)
            /\ page.kind = "vehicle" /\ asked.from = ServerRange(page.day).from =>
                   got = {t \in 0..(LastTick + 2 * Day) : t % Second = 0 /\ UtcDay(t) = page.day}

(* The defaults: a report that is opened shows today, but in the hours in  *)
(* which UTC is in another day than the browser; a history always does.    *)
DefaultIsToday ==
    \A kind \in {"report", "history"} :
        LET p == Default(kind, clock)
        IN  p.day = LocalDay(clock) \/ (kind = "report" /\ UtcDay(clock) # LocalDay(clock))

(* AuditLogsAdminPage: every row until now is in the log of today or in the*)
(* archive, and in one of them only, but for those of the last millisecond *)
(* of a day; west of Greenwich the archive lacks the last day, and one that*)
(* is left open lacks the days since.                                      *)
AuditIsWhole ==
    page.kind = "archive" =>
        LET archive == AuditRange(clock, TRUE, page.day)
            today == AuditRange(clock, FALSE, page.day)
            late == LocalDay(clock) - 1 - page.day + (IF zone < 0 THEN 1 ELSE 0)
            missed == {t \in 0..clock : t \notin Rows(archive, 1) \cup Rows(today, 1)}
        IN  /\ Rows(archive, 1) \cap Rows(today, 1) = {}
            /\ \A t \in missed : t > Midnight(LocalDay(t) + 1) - Ms
                                 \/ LocalDay(t) \in (LocalDay(clock) - late)..(LocalDay(clock) - 1)

RangesHold == DayIsShown /\ DefaultIsToday /\ AuditIsWhole
=============================================================================
