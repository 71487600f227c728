------------------------------ MODULE FeedPages ------------------------------
(***************************************************************************)
(* The lists that are shown newest first in pages: the points of a vehicle *)
(* (gpsModel.getHistory), its alerts (getAlerts), the raw messages of its  *)
(* device (getRawMessages) and the audit log (auditController.getLogs).  A *)
(* page is read by two statements, a count, from which the number of pages *)
(* is computed, and the rows of the page; rows are inserted meanwhile, a   *)
(* point or an alert also with a device time in the past.  The points of a *)
(* vehicle have each a time of their own, UNIQUE(vehicle_id, device_time); *)
(* alerts, messages and entries may have the same, and no query says which *)
(* of them comes first.                                                    *)
(***************************************************************************)
EXTENDS Naturals, FiniteSets

CONSTANTS
    Times,     \* bound: the times that order the rows, 0 and above
    Kinds,     \* what can be filtered by: alert_type, action
    Late,      \* whether a row can be older than others that are there
    PageSize,
    Most,      \* bound: the rows
    None

(* Assumed where the constants get their values. *)
FeedAssumption == Times \subseteq Nat /\ {PageSize, Most} \subseteq Nat \ {0} /\ Late \in BOOLEAN

VARIABLES
    rows,    \* the rows stored: [id, time, kind]; id numbers those of one time and kind
    reader   \* the reader: what is asked, counted and shown; slipped: the rows inserted between the
             \* count and the reading of the page; cut: the times among whose rows a page ended

feedVars == <<rows, reader>>

NoReader == [at |-> "away", kind |-> None, page |-> 0, total |-> 0, shown |-> {}, there |-> {}, slipped |-> 0,
             cut |-> {}]

FeedTypeOK ==
    /\ Cardinality(rows) <= Most
    /\ reader.at \in {"away", "count", "rows", "page"}
    /\ reader.shown \subseteq rows /\ reader.there \subseteq rows /\ reader.cut \subseteq Times
    /\ reader.at = "page" => Cardinality(reader.shown) <= reader.page * PageSize

FeedInit == rows = {} /\ reader = NoReader

-----------------------------------------------------------------------------
(* WHERE, ORDER BY ... DESC, LIMIT, OFFSET *)
Matching(kind) == {r \in rows : kind = None \/ r.kind = kind}
Newer(r, s) == r.time > s.time

(* The orders that ORDER BY permits, each with the place of every row.     *)
Orders(S) ==
    {place \in [S -> 0..(Cardinality(S) - 1)] :
        /\ \A r, s \in S : place[r] = place[s] => r = s
        /\ \A r, s \in S : Newer(r, s) => place[r] < place[s]}

(* Mutant: pages are numbered from zero. *)
PageFromZero(place, page) ==
    {r \in DOMAIN place : page * PageSize <= place[r] /\ place[r] < (page + 1) * PageSize}

PageOf(place, page) ==
    {r \in DOMAIN place : (page - 1) * PageSize <= place[r] /\ place[r] < page * PageSize}

(* The time among whose rows the page ends, if any: the next page, or the  *)
(* same read again, may have them in another order.                        *)
CutBy(S, page) ==
    {r.time : r \in {s \in S : /\ Cardinality({n \in S : Newer(n, s)}) < page * PageSize
                               /\ page * PageSize < Cardinality({n \in S : ~Newer(s, n)})}}

(* Math.ceil(total / limit) *)
TotalPages(total) == (total + PageSize - 1) \div PageSize

Insert(time, kind) ==
    /\ Cardinality(rows) < Most
    /\ Late \/ \A r \in rows : r.time <= time
    /\ LET alike == {r \in rows : r.time = time /\ r.kind = kind}
       IN  rows' = rows \cup {[id |-> Cardinality(alike) + 1, time |-> time, kind |-> kind]}
    /\ reader' = [reader EXCEPT !.slipped = IF reader.at = "rows" /\ reader.kind \in {None, kind} THEN @ + 1 ELSE @]

(* The first page of a filter; the next page, while there is one. *)
Begin(kind) ==
    /\ reader.at = "away"
    /\ reader' = [NoReader EXCEPT !.at = "count", !.kind = kind, !.page = 1, !.there = Matching(kind)]
    /\ UNCHANGED rows

CountRows ==
    /\ reader.at = "count"
    /\ reader' = [reader EXCEPT !.at = "rows", !.total = Cardinality(Matching(reader.kind)), !.slipped = 0]
    /\ UNCHANGED rows

ReadRows ==
    /\ reader.at = "rows"
    /\ \E place \in Orders(Matching(reader.kind)) :
           reader' = [reader EXCEPT !.at = "page", !.shown = @ \cup PageOf(place, reader.page),
                                    !.cut = @ \cup CutBy(Matching(reader.kind), reader.page)]
    /\ UNCHANGED rows

Turn ==
    /\ reader.at = "page" /\ reader.page < TotalPages(reader.total)
    /\ reader' = [reader EXCEPT !.at = "count", !.page = @ + 1]
    /\ UNCHANGED rows

Leave ==
    /\ reader.at = "page"
    /\ reader' = NoReader
    /\ UNCHANGED rows

FeedNext ==
    \/ \E t \in Times, k \in Kinds : Insert(t, k)
    \/ \E k \in Kinds \cup {None} : Begin(k)
    \/ CountRows \/ ReadRows \/ Turn \/ Leave

FeedSpec == FeedInit /\ [][FeedNext]_feedVars

-----------------------------------------------------------------------------
(* getHistory, getAlerts, getRawMessages, getLogs: who turns the pages to  *)
(* the last one has seen every row that was there when he began, however   *)
(* many came meanwhile and moved others to later pages, but for as many as *)
(* came between the count and the rows of that page, and for rows of a time*)
(* among whose rows a page ended; and no row but those he asked for.       *)
EveryRowIsSeen ==
    /\ reader.shown \subseteq Matching(reader.kind)
    /\ reader.at = "page" /\ reader.page >= TotalPages(reader.total) =>
           Cardinality({r \in reader.there \ reader.shown : r.time \notin reader.cut}) <= reader.slipped
=============================================================================
