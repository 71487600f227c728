-------------------------------- MODULE Zones --------------------------------
(***************************************************************************)
(* Geofences and routes (geofenceRouteController, geofenceModel,           *)
(* routeModel), and the geofences that the location subscriber checks a    *)
(* packet against: those of its vehicle, from a cache that nothing         *)
(* invalidates.  The shape of a zone is a version; a vehicle is assigned to*)
(* a zone by the replacement of the zone's whole list (see Replacement).   *)
(***************************************************************************)
EXTENDS Naturals, FiniteSets

CONSTANTS
    Geofences, Routes,  \* bound: the identifiers that may be handed out
    Vehicles,
    Ttl,                \* CACHE_TTL_MS
    Edits,              \* bound: the changes to zones
    LastTime,           \* bound: the end of time
    None

Rows == [shape : Nat, active : BOOLEAN]

(* Assumed where the constants get their values. *)
ZonesAssumption ==
    /\ Geofences \cap Routes = {}
    /\ None \notin Rows \cup BOOLEAN
    /\ {Ttl, Edits, LastTime} \subseteq Nat /\ Ttl > 0

VARIABLES
    zones,      \* geofences and routes: the row of each identifier, or None
    assigned,   \* vehicle_geofences and vehicle_routes
    cache,      \* geofenceCache, with CACHE_TS
    reader,     \* the packet whose geofences are being read
    checked,    \* the geofences that the last packet was checked against
    time,
    edits,
    history     \* history: what each vehicle's geofences were during each unit of time

zoneVars == <<zones, assigned, cache, reader, checked, time, edits, history>>

Zone == Geofences \cup Routes
Exists(z) == zones[z] # None

ZonesTypeOK ==
    /\ zones \in [Zone -> Rows \cup {None}]
    /\ assigned \subseteq Vehicles \X {z \in Zone : Exists(z)}
    /\ \A v \in Vehicles : cache[v] # None => cache[v].at <= time
    /\ reader.at \in {"idle", "read", "store"}

(* findGeofencesForVehicle *)
GeofencesOf(v, table, pairs) ==
    {<<z, table[z].shape>> : z \in {g \in Geofences : <<v, g>> \in pairs /\ table[g].active}}

ZonesInit ==
    /\ zones = [z \in Zone |-> None]
    /\ assigned = {}
    /\ cache = [v \in Vehicles |-> None]
    /\ reader = [at |-> "idle"]
    /\ checked = None
    /\ time = 0 /\ edits = 0
    /\ history = [t \in 0..LastTime |-> [v \in Vehicles |-> IF t = 0 THEN {{}} ELSE {}]]

-----------------------------------------------------------------------------
(* The controller *)

Edit(table, pairs) ==
    /\ edits < Edits
    /\ edits' = edits + 1
    /\ zones' = table
    /\ assigned' = pairs
    /\ history' = [history EXCEPT ![time] =
                       [v \in Vehicles |-> @[v] \cup {GeofencesOf(v, table, pairs)}]]
    /\ UNCHANGED <<cache, reader, checked, time>>

Create(z) ==
    /\ ~Exists(z)
    /\ Edit([zones EXCEPT ![z] = [shape |-> 0, active |-> TRUE]], assigned)

(* An update names some of the columns. *)
Update(z, reshaped, active) ==
    /\ Exists(z)
    /\ Edit([zones EXCEPT ![z] = [shape |-> IF reshaped THEN @.shape + 1 ELSE @.shape,
                                  active |-> IF active = None THEN @.active ELSE active]], assigned)

(* The assignments go with the row. *)
Delete(z) ==
    /\ Exists(z)
    /\ Edit([zones EXCEPT ![z] = None], {p \in assigned : p[2] # z})

(* assignToVehicles *)
Assign(z, S) ==
    /\ Exists(z)
    /\ Edit(zones, {p \in assigned : p[2] # z} \cup (S \X {z}))

createGeofence == \E z \in Geofences : Create(z)
updateGeofence == \E z \in Geofences, b \in BOOLEAN, a \in BOOLEAN \cup {None} : Update(z, b, a)
deleteGeofence == \E z \in Geofences : Delete(z)
assignGeofence == \E z \in Geofences, S \in SUBSET Vehicles : Assign(z, S)
createRoute == \E z \in Routes : Create(z)
updateRoute == \E z \in Routes, b \in BOOLEAN, a \in BOOLEAN \cup {None} : Update(z, b, a)
deleteRoute == \E z \in Routes : Delete(z)
assignRoute == \E z \in Routes, S \in SUBSET Vehicles : Assign(z, S)

-----------------------------------------------------------------------------
(* resolveGeofences *)

Fresh(v) == cache[v] # None /\ time - cache[v].at < Ttl

(* A packet of a vehicle: it is checked against the cached geofences ... *)
Hit(v) ==
    /\ reader.at = "idle" /\ Fresh(v)
    /\ checked' = [vehicle |-> v, list |-> cache[v].list, from |-> time, to |-> time]
    /\ UNCHANGED <<zones, assigned, cache, reader, time, edits, history>>

(* ... or, when there are none or they are too old, the table is asked.    *)
Miss(v) ==
    /\ reader.at = "idle" /\ ~Fresh(v)
    /\ reader' = [at |-> "read", vehicle |-> v, now |-> time]
    /\ UNCHANGED <<zones, assigned, cache, checked, time, edits, history>>

ReadGeofences ==
    /\ reader.at = "read"
    /\ reader' = [at |-> "store", vehicle |-> reader.vehicle, now |-> reader.now,
                  list |-> GeofencesOf(reader.vehicle, zones, assigned)]
    /\ UNCHANGED <<zones, assigned, cache, checked, time, edits, history>>

(* Mutant: the entry has the time at which it is stored. *)
StoreNow ==
    /\ reader.at = "store"
    /\ cache' = [cache EXCEPT ![reader.vehicle] = [list |-> reader.list, at |-> time]]
    /\ checked' = [vehicle |-> reader.vehicle, list |-> reader.list, from |-> reader.now, to |-> time]
    /\ reader' = [at |-> "idle"]
    /\ UNCHANGED <<zones, assigned, time, edits, history>>

(* The entry has the time at which the packet came. *)
StoreGeofences ==
    /\ reader.at = "store"
    /\ cache' = [cache EXCEPT ![reader.vehicle] = [list |-> reader.list, at |-> reader.now]]
    /\ checked' = [vehicle |-> reader.vehicle, list |-> reader.list, from |-> reader.now, to |-> time]
    /\ reader' = [at |-> "idle"]
    /\ UNCHANGED <<zones, assigned, time, edits, history>>

Tick ==
    /\ time < LastTime
    /\ time' = time + 1
    /\ history' = [history EXCEPT ![time + 1] = [v \in Vehicles |-> {GeofencesOf(v, zones, assigned)}]]
    /\ UNCHANGED <<zones, assigned, cache, reader, checked, edits>>

ZonesNext ==
    \/ createGeofence \/ updateGeofence \/ deleteGeofence \/ assignGeofence
    \/ createRoute \/ updateRoute \/ deleteRoute \/ assignRoute
    \/ \E v \in Vehicles : Hit(v) \/ Miss(v)
    \/ ReadGeofences \/ StoreGeofences \/ Tick

ZonesSpec == ZonesInit /\ [][ZonesNext]_zoneVars

-----------------------------------------------------------------------------
Within(first, last) == {t \in 0..LastTime : first <= t /\ t <= last}

(* resolveGeofences: whatever is created, moved, deleted or assigned, and  *)
(* however long the table takes to answer, a packet is checked against what*)
(* its vehicle's geofences were at some time since Ttl before it came: a   *)
(* change that nobody tells the cache of takes effect within Ttl.          *)
ZonesAreRecent ==
    checked # None =>
        \E t \in Within(IF checked.from > Ttl THEN checked.from - Ttl ELSE 0, checked.to) :
            checked.list \in history[t][checked.vehicle]
=============================================================================
