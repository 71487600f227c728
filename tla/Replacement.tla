----------------------------- MODULE Replacement -----------------------------
(***************************************************************************)
(* The transactions that replace a list of assignments: BEGIN, DELETE of   *)
(* the old rows, one INSERT per new row, COMMIT, with ROLLBACK on any      *)
(* error.  The models hold five of them:                                   *)
(*   VehicleModel.assignToGroups        the groups of a vehicle            *)
(*   GroupModel.assignVehiclesToGroup   the vehicles of a group            *)
(*   GroupModel.assignUserToGroups      the groups of a user               *)
(*   GeofenceModel.assignToVehicles     the vehicles of a geofence         *)
(*   RouteModel.assignToVehicles        the vehicles of a route            *)
(* A transaction replaces the rows of one x or of one y.  Postgres runs it *)
(* at READ COMMITTED: a statement sees what was committed when it began    *)
(* and waits for the rows that others hold.  A row carries the transaction *)
(* that inserted it, since a row deleted and inserted again is another row.*)
(***************************************************************************)
EXTENDS Naturals, Sequences, FiniteSets

CONSTANTS
    Xs, Ys,        \* the two columns
    Transactions,  \* bound: the replacements of a behaviour
    Tables,        \* the tables: what an INSERT does about a row that is there,
                   \* "error", "nothing", or "update" (of the row with the same x)
    Lists,         \* bound: for each, what may be asked for: [by, key, list];
                   \* where the row of an x is updated, only a y is asked for
    Dangling       \* whether the row that a pair refers to may have gone

ASSUME ReplacementAssumption ==
    /\ Tables \subseteq {"error", "nothing", "update"}
    /\ \A c \in Tables : \A l \in Lists[c] :
          \/ l.by = "x" /\ l.key \in Xs /\ l.list \in Seq(Ys) /\ c # "update"
          \/ l.by = "y" /\ l.key \in Ys /\ l.list \in Seq(Xs)
    /\ Dangling \in BOOLEAN

VARIABLES
    onConflict,  \* which table it is
    table,       \* the committed rows
    tx           \* each transaction: its list, the rows its DELETE saw, those it
                 \* removes and adds, and what was committed before its DELETE

vars == <<onConflict, table, tx>>

Pairs == Xs \X Ys
Rows == Xs \X Ys \X Transactions
Open == {"delete", "deleting", "insert", "commit"}

(* With the UNIQUE constraint of each table.                               *)
TypeOK ==
    /\ onConflict \in Tables
    /\ table \subseteq Rows
    /\ \A t \in Transactions :
          /\ tx[t].at \in Open \cup {"new", "committed", "failed"}
          /\ tx[t].at # "new" => tx[t].list \in Lists[onConflict] /\ tx[t].before \subseteq Transactions
          /\ tx[t].at \in Open => UNION {tx[t].seen, tx[t].out, tx[t].in} \subseteq Rows
    /\ \A r, s \in table : r[1] = s[1] /\ (onConflict = "update" \/ r[2] = s[2]) => r = s

Init ==
    /\ onConflict \in Tables
    /\ table = {}
    /\ tx = [t \in Transactions |-> [at |-> "new"]]

-----------------------------------------------------------------------------
Active(t) == tx[t].at \in Open
Committed(t) == tx[t].at = "committed"

PairOf(l, z) == IF l.by = "x" THEN <<l.key, z>> ELSE <<z, l.key>>
Wanted(l) == {PairOf(l, l.list[n]) : n \in DOMAIN l.list}
Covers(l, r) == IF l.by = "x" THEN r[1] = l.key ELSE r[2] = l.key
Same(r, p) == r[1] = p[1] /\ r[2] = p[2]

(* The rows that an INSERT of the pair p collides with. *)
Collides(r, p) == IF onConflict = "update" THEN r[1] = p[1] ELSE Same(r, p)

(* What a transaction has deleted, updated or inserted is locked until it  *)
(* ends.                                                                   *)
Held(t) == IF Active(t) THEN tx[t].out \cup tx[t].in ELSE {}
Pending(t) == PairOf(tx[t].list, tx[t].list.list[tx[t].next])

(* The transactions that t's statement waits for. *)
Blockers(t) ==
    {u \in Transactions \ {t} :
        \/ tx[t].at = "deleting" /\ Held(u) \cap tx[t].seen # {}
        \/ tx[t].at = "insert" /\ \E r \in Held(u) : Collides(r, Pending(t))}

Visible(t) == (table \ tx[t].out) \cup tx[t].in
InTheWay(t) == {r \in Visible(t) : Collides(r, Pending(t))}

-----------------------------------------------------------------------------
Begin(t, l) ==
    /\ tx[t].at = "new"
    /\ tx' = [tx EXCEPT ![t] = [at |-> "delete", list |-> l, next |-> 1, seen |-> {},
                                out |-> {}, in |-> {}, before |-> {}]]
    /\ UNCHANGED <<onConflict, table>>

(* Mutant: it removes the rows that the new list does not name. *)
DeleteSpares(t) ==
    /\ tx[t].at = "delete"
    /\ tx' = [tx EXCEPT ![t].at = "deleting",
                        ![t].seen = {r \in table : Covers(tx[t].list, r)
                                        /\ \A p \in Wanted(tx[t].list) : ~Same(r, p)},
                        ![t].before = {u \in Transactions : Committed(u)}]
    /\ UNCHANGED <<onConflict, table>>

(* The snapshot of the DELETE. *)
DeleteBegins(t) ==
    /\ tx[t].at = "delete"
    /\ tx' = [tx EXCEPT ![t].at = "deleting",
                        ![t].seen = {r \in table : Covers(tx[t].list, r)},
                        ![t].before = {u \in Transactions : Committed(u)}]
    /\ UNCHANGED <<onConflict, table>>

(* It has got its rows; those that others removed meanwhile are skipped,   *)
(* and those committed since the snapshot are not seen.                    *)
DeleteEnds(t) ==
    /\ tx[t].at = "deleting"
    /\ Blockers(t) = {}
    /\ tx' = [tx EXCEPT ![t].at = IF tx[t].list.list = <<>> THEN "commit" ELSE "insert",
                        ![t].out = tx[t].seen \cap table]
    /\ UNCHANGED <<onConflict, table>>

(* Mutant: a row that is there is left alone on every table. *)
SkipsAny(t) == InTheWay(t) # {}

Skips(t) == onConflict = "nothing" /\ InTheWay(t) # {}

(* Mutant: it does not wait for rows that others have just inserted. *)
InsertAtOnce(t) ==
    LET row == <<Pending(t)[1], Pending(t)[2], t>>
    IN  /\ tx[t].at = "insert"
        /\ onConflict = "error" => InTheWay(t) = {}
        /\ tx' = [tx EXCEPT
               ![t].at = IF tx[t].next = Len(tx[t].list.list) THEN "commit" ELSE "insert",
               ![t].next = @ + 1,
               ![t].out = IF Skips(t) THEN @ ELSE @ \cup (InTheWay(t) \cap table),
               ![t].in = IF Skips(t) THEN @ ELSE (@ \ InTheWay(t)) \cup {row}]
        /\ UNCHANGED <<onConflict, table>>

Insert(t) ==
    LET row == <<Pending(t)[1], Pending(t)[2], t>>
    IN  /\ tx[t].at = "insert"
        /\ Blockers(t) = {}
        /\ onConflict = "error" => InTheWay(t) = {}
        /\ tx' = [tx EXCEPT
               ![t].at = IF tx[t].next = Len(tx[t].list.list) THEN "commit" ELSE "insert",
               ![t].next = @ + 1,
               ![t].out = IF Skips(t) THEN @ ELSE @ \cup (InTheWay(t) \cap table),
               ![t].in = IF Skips(t) THEN @ ELSE (@ \ InTheWay(t)) \cup {row}]
        /\ UNCHANGED <<onConflict, table>>

EndsAs(t, end) ==
    tx' = [tx EXCEPT ![t] = [at |-> end, list |-> tx[t].list, before |-> tx[t].before]]

(* UNIQUE: the row is there, or the list names it twice. *)
Duplicate(t) ==
    /\ tx[t].at = "insert"
    /\ Blockers(t) = {}
    /\ onConflict = "error"
    /\ InTheWay(t) # {}
    /\ EndsAs(t, "failed")
    /\ UNCHANGED <<onConflict, table>>

(* REFERENCES: what the new row refers to is gone. *)
Missing(t) ==
    /\ Dangling
    /\ tx[t].at = "insert"
    /\ Blockers(t) = {}
    /\ ~Skips(t)
    /\ EndsAs(t, "failed")
    /\ UNCHANGED <<onConflict, table>>

(* Mutant: it lets them wait. *)
DeadlockIgnored(t) == FALSE /\ EndsAs(t, "failed") /\ UNCHANGED <<onConflict, table>>

(* Postgres ends one of the transactions that wait for one another. *)
DeadlockAborts(t) ==
    /\ \E S \in SUBSET Transactions :
          /\ t \in S
          /\ \A u \in S : Blockers(u) \cap S # {} /\ \E w \in S : u \in Blockers(w)
    /\ EndsAs(t, "failed")
    /\ UNCHANGED <<onConflict, table>>

Commit(t) ==
    /\ tx[t].at = "commit"
    /\ table' = (table \ tx[t].out) \cup tx[t].in
    /\ EndsAs(t, "committed")
    /\ UNCHANGED onConflict

Step(t) ==
    \/ DeleteBegins(t) \/ DeleteEnds(t) \/ Insert(t)
    \/ Duplicate(t) \/ Missing(t) \/ DeadlockAborts(t) \/ Commit(t)

Next == \E t \in Transactions : Step(t) \/ \E l \in Lists[onConflict] : Begin(t, l)

(* Statements are carried out, locks that are free are granted, and the    *)
(* deadlock detector runs: each is a promise of Postgres.                  *)
Fairness == \A t \in Transactions : WF_vars(Step(t))

Spec == Init /\ [][Next]_vars
FairSpec == Spec /\ Fairness

-----------------------------------------------------------------------------
(* A replacement removes whatever replacements before it had left under its*)
(* key: no row in the table is older than a committed replacement of its   *)
(* key.  Only replacements that overlapped may leave rows of both.         *)
OlderRowsAreGone ==
    \A r \in table : \A t \in Transactions :
        Committed(t) /\ Covers(tx[t].list, r) => r[3] \notin tx[t].before

(* What a committed replacement asked for is in the table, unless one that *)
(* was committed after its DELETE covers the pair and does not ask for it, *)
(* or has moved the vehicle to another route.                              *)
AskedIsThere ==
    \A t \in Transactions : Committed(t) =>
        \A p \in Wanted(tx[t].list) :
            \/ \E r \in table : Same(r, p)
            \/ \E u \in Transactions \ ({t} \cup tx[t].before) :
                  /\ Committed(u)
                  /\ \/ Covers(tx[u].list, p) /\ p \notin Wanted(tx[u].list)
                     \/ \E w \in Wanted(tx[u].list) : Collides(w, p) /\ w # p

(* Lists that name the same rows in different orders wait for each other;  *)
(* every replacement is committed or fails all the same.                   *)
EveryReplacementEnds ==
    \A t \in Transactions : Active(t) ~> ~Active(t)
=============================================================================
