-------------------------- MODULE TrackingIngest --------------------------
(***************************************************************************)
(* What the writer process promises, without its batches, buffers, timers  *)
(* and crashes: an entry of the tracking stream is acknowledged only when  *)
(* its point is in gps_points, or when there is no vehicle to store it     *)
(* for.  Until then it stays pending.                                      *)
(***************************************************************************)
EXTENDS Integers, Sequences

CONSTANTS
    Reports,   \* what a stream entry may carry
    Storable   \* the well-formed reports of a registered IMEI

VARIABLES
    log,      \* the entries added to the stream
    cursor,   \* the last entry the group delivered or skipped
    pending,  \* delivered, not acknowledged
    done,     \* acknowledged
    table     \* the reports that gps_points has a row for

vars == <<log, cursor, pending, done, table>>

Init ==
    /\ log = <<>>
    /\ cursor = 0
    /\ pending = {}
    /\ done = {}
    /\ table = {}

Publish ==
    /\ \E r \in Reports : log' = Append(log, r)
    /\ UNCHANGED <<cursor, pending, done, table>>

(* The group hands out entries after its cursor; the ones it passes over   *)
(* are never handed out again.                                             *)
Deliver ==
    /\ cursor' \in cursor..Len(log)
    /\ \E ids \in SUBSET ((cursor + 1)..cursor') : pending' = pending \cup ids
    /\ UNCHANGED <<log, done, table>>

Store ==
    /\ \E ids \in SUBSET {i \in pending : log[i] \in Storable} :
          table' = table \cup {log[i] : i \in ids}
    /\ UNCHANGED <<log, cursor, pending, done>>

Acknowledge ==
    /\ \E ids \in SUBSET {i \in pending : log[i] \in Storable \cap table \/ log[i] \notin Storable} :
          /\ pending' = pending \ ids
          /\ done' = done \cup ids
    /\ UNCHANGED <<log, cursor, table>>

Next == Publish \/ Deliver \/ Store \/ Acknowledge

Spec == Init /\ [][Next]_vars
=============================================================================
