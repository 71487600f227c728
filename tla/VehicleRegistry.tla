--------------------------- MODULE VehicleRegistry ---------------------------
(***************************************************************************)
(* The table vehicles, the handlers of vehicleController that write it, and*)
(* the caches of IMEI -> vehicle that route packets: the shared Redis hash *)
(* vehicle:imei:<imei>, which never expires, and the map in the memory of  *)
(* the location subscriber, whose entries live five minutes.               *)
(*                                                                         *)
(* A step is one statement, one Redis command, or what a handler does      *)
(* between two awaits.  The API has one Redis connection, which keeps its  *)
(* commands in order: the HSET that follows imeiCache.set, and the DEL of  *)
(* invalidateImei, which nobody awaits, are behind every earlier and before*)
(* every later command of that process, so each is one step with its change*)
(* of the map.  Names and plates, which are cached with the organisation,  *)
(* follow it and are left out; so are the replaced group assignments (see  *)
(* Replacement), but for their failure.                                    *)
(***************************************************************************)
EXTENDS Naturals, FiniteSets

CONSTANTS
    Imeis,
    Orgs,
    Parent,     \* organizations.parent_id: an organisation or None
    Ids,        \* bound: the identifiers that gen_random_uuid may yield
    Users,      \* who asks: "superadmin", or a dealer named by its organisation
    Activity,   \* the isActive that the body of an update may have
    Requests,   \* bound: the requests of a behaviour
    Resolvers,  \* the consumers that resolve an IMEI
    Caching,    \* the one among them that has a map of its own
    Faults,     \* among "redis", "groups", "cascade"
    None

Entries == [id : Ids, org : Orgs]
Rows == [imei : Imeis, org : Orgs, active : BOOLEAN]

(* Assumed where the constants get their values. *)
RegistryAssumption ==
    /\ None \notin Imeis \cup Orgs \cup Ids \cup Rows
    /\ Parent \in [Orgs -> Orgs \cup {None}]
    /\ Users \subseteq Orgs \cup {"superadmin"}
    /\ Activity \subseteq BOOLEAN \cup {None}
    /\ IsFiniteSet(Ids)
    /\ Caching \in Resolvers
    /\ Faults \subseteq {"redis", "groups", "cascade"}

VARIABLES
    rows,     \* vehicles: the row of each identifier in use
    hash,     \* vehicle:imei:<imei>
    cache,    \* imeiCache of the location subscriber
    request,  \* each request: what it asks and how far it is
    fill,     \* each resolver: what the hash or the table has answered and it has not yet stored
    excused   \* history: IMEIs whose entries some known cause may have left stale

vars == <<rows, hash, cache, request, fill, excused>>

Waiting == {"insert", "update", "delete", "migrate", "groups", "warm", "invalidate"}

(* Requests, caches and what the resolvers have in hand; only rows that    *)
(* were there are ever cached.                                             *)
TypeOK ==
    /\ rows \in [Ids -> Rows \cup {None}]
    /\ hash \in [Imeis -> Entries \cup {None}]
    /\ cache \in [Imeis -> Entries \cup {None}]
    /\ \A q \in Requests : request[q].at \in Waiting \cup {"new", "answered"}
    /\ \A p \in Resolvers : fill[p] # None => fill[p].imei \in Imeis /\ fill[p].entry \in Entries \cup {None}
    /\ excused \subseteq Imeis

(* Requests and packets come to a table that earlier ones have filled. *)
Init ==
    /\ rows \in [Ids -> [imei : Imeis, org : Orgs, active : {TRUE}] \cup {None}]
    /\ \A v, w \in Ids : rows[v] # None /\ rows[w] # None /\ rows[v].imei = rows[w].imei => v = w
    /\ hash = [m \in Imeis |-> None]
    /\ cache = [m \in Imeis |-> None]
    /\ request = [q \in Requests |-> [at |-> "new"]]
    /\ fill = [p \in Resolvers |-> None]
    /\ excused = {}

-----------------------------------------------------------------------------
(* The table *)

Exists(v) == rows[v] # None
Holders(m) == {v \in Ids : Exists(v) /\ rows[v].imei = m}
Taken(m) == Holders(m) # {}

(* belongsToOrg: the user's own organisation and its children. *)
BelongsTo(v, user) ==
    Exists(v) /\ (user = "superadmin" \/ rows[v].org = user \/ Parent[rows[v].org] = user)

EntryOf(v) == [id |-> v, org |-> rows[v].org]
Current(m, e) == Exists(e.id) /\ rows[e.id].imei = m /\ rows[e.id].org = e.org

At(q, places) == request[q].at \in places
Go(q, place) == request' = [request EXCEPT ![q].at = place]
Answer(q) == request' = [request EXCEPT ![q] = [at |-> "answered"]]
Known(m) == hash[m] # None \/ cache[m] # None
Excuse(S) == excused' = excused \cup {m \in S : Known(m)}

-----------------------------------------------------------------------------
(* createVehicle *)

Arrive(q, r, permitted) ==
    /\ At(q, {"new"})
    /\ request' = [request EXCEPT ![q] = IF permitted THEN r ELSE [at |-> "answered"]]
    /\ UNCHANGED <<rows, hash, cache, fill, excused>>

(* findByImei, and 409 when there is one. *)
StartCreate(q, m, o) == Arrive(q, [op |-> "create", imei |-> m, org |-> o, at |-> "insert"], ~Taken(m))

(* The transaction of VehicleModel.create; the table's UNIQUE(imei) sends  *)
(* a second insert to the error handler.                                   *)
Insert(q) ==
    /\ At(q, {"insert"})
    /\ \/ /\ Taken(request[q].imei)
          /\ Answer(q)
          /\ UNCHANGED rows
       \/ /\ ~Taken(request[q].imei)
          /\ \E v \in Ids :
                /\ ~Exists(v)
                /\ rows' = [rows EXCEPT ![v] =
                       [imei |-> request[q].imei, org |-> request[q].org, active |-> TRUE]]
                /\ request' = [request EXCEPT ![q] =
                       [op |-> "create", imei |-> request[q].imei, at |-> "groups",
                        entry |-> [id |-> v, org |-> request[q].org]]]
    /\ UNCHANGED <<hash, cache, fill, excused>>

-----------------------------------------------------------------------------
(* updateVehicle: the row it answers with is the one RETURNING gave it. *)

(* A dealer's body must name his own organisation, if any; belongsToOrg   *)
(* and findById come first.                                                *)
StartUpdate(q, user, v, o, active) ==
    /\ user # "superadmin" => o \in {user, None}
    /\ Arrive(q, [op |-> "update", id |-> v, org |-> o, active |-> active, at |-> "update"],
              BelongsTo(v, user))

(* With the row gone in between, `updated` is null: no cache work. *)
Update(q) ==
    LET r == request[q]
        v == r.id
        org == IF r.org = None THEN rows[v].org ELSE r.org
        active == IF r.active = None THEN rows[v].active ELSE r.active
    IN  /\ At(q, {"update"})
        /\ IF Exists(v)
           THEN /\ rows' = [rows EXCEPT ![v].org = org, ![v].active = active]
                /\ request' = [request EXCEPT ![q] =
                       [op |-> "update", imei |-> rows[v].imei, at |-> "groups",
                        entry |-> [id |-> v, org |-> org]]]
           ELSE Answer(q) /\ UNCHANGED rows
        /\ UNCHANGED <<hash, cache, fill, excused>>

(* belongsToOrg of each group, then assignToGroups, when the body has them.*)
AssignGroups(q) ==
    /\ At(q, {"groups"})
    /\ Go(q, "warm")
    /\ UNCHANGED <<rows, hash, cache, fill, excused>>

(* A group that is gone: the assignment rolls back and the handler leaves  *)
(* through next(err), with the row committed and the caches as they were.  *)
AssignGroupsFails(q) ==
    /\ "groups" \in Faults
    /\ At(q, {"groups"})
    /\ Answer(q)
    /\ Excuse({request[q].imei})
    /\ UNCHANGED <<rows, hash, cache, fill>>

(* Mutant: the hash is rewritten and nothing deleted after it. *)
WarmHashOnly(q) ==
    /\ At(q, {"warm"})
    /\ hash' = [hash EXCEPT ![request[q].imei] = request[q].entry]
    /\ Answer(q)
    /\ UNCHANGED <<rows, cache, fill, excused>>

WarmHash(q) ==
    /\ At(q, {"warm"})
    /\ hash' = [hash EXCEPT ![request[q].imei] = request[q].entry]
    /\ Go(q, "invalidate")
    /\ UNCHANGED <<rows, cache, fill, excused>>

(* hset fails, though it may have been carried out: the catch skips the    *)
(* invalidation, too.                                                      *)
WarmHashFails(q) ==
    LET m == request[q].imei
    IN  /\ "redis" \in Faults
        /\ At(q, {"warm"})
        /\ \/ Excuse({m}) /\ UNCHANGED hash
           \/ /\ hash' = [hash EXCEPT ![m] = request[q].entry]
              /\ excused' = excused \cup {m}
        /\ Answer(q)
        /\ UNCHANGED <<rows, cache, fill>>

Forgotten(m) ==
    /\ hash' = [hash EXCEPT ![m] = None]
    /\ cache' = [cache EXCEPT ![m] = None]
    /\ excused' = excused \ {m}

Invalidate(q) ==
    /\ At(q, {"invalidate"})
    /\ Forgotten(request[q].imei)
    /\ Answer(q)
    /\ UNCHANGED <<rows, fill>>

(* redis.del(...).catch(() => {}): the map has forgotten the IMEI, the hash*)
(* keeps what the last writer left there.                                  *)
InvalidateFails(q) ==
    LET m == request[q].imei
    IN  /\ "redis" \in Faults
        /\ At(q, {"invalidate"})
        /\ cache' = [cache EXCEPT ![m] = None]
        /\ excused' = IF hash[m] = None \/ Current(m, hash[m]) THEN excused ELSE excused \cup {m}
        /\ Answer(q)
        /\ UNCHANGED <<rows, hash, fill>>

-----------------------------------------------------------------------------
(* deleteVehicle and migrateVehicle *)

StartDelete(q, user, v) == Arrive(q, [op |-> "delete", id |-> v, at |-> "delete"], BelongsTo(v, user))

(* VehicleModel.delete returns the id alone, so deleted.imei is undefined  *)
(* and the handler's invalidation is never reached.                        *)
Delete(q) ==
    /\ At(q, {"delete"})
    /\ IF Exists(request[q].id)
       THEN rows' = [rows EXCEPT ![request[q].id].active = FALSE]
       ELSE UNCHANGED rows
    /\ Answer(q)
    /\ UNCHANGED <<hash, cache, fill, excused>>

StartMigrate(q, user, v, m) ==
    Arrive(q, [op |-> "migrate", id |-> v, imei |-> m, at |-> "migrate"], BelongsTo(v, user))

(* findByImei(newImei), then the UPDATE, which UNIQUE(imei) may refuse; no *)
(* cache is touched.                                                       *)
Migrate(q) ==
    LET v == request[q].id
        m == request[q].imei
        free == Holders(m) \subseteq {v}
    IN  /\ At(q, {"migrate"})
        /\ IF free /\ Exists(v)
           THEN /\ rows' = [rows EXCEPT ![v].imei = m]
                /\ Excuse({m, rows[v].imei})
           ELSE UNCHANGED <<rows, excused>>
        /\ Answer(q)
        /\ UNCHANGED <<hash, cache, fill>>

(* An organisation is deleted and its vehicles with it (schema.sql).       *)
OrgDeleted(o) ==
    LET gone == {v \in Ids : Exists(v) /\ rows[v].org = o}
    IN  /\ "cascade" \in Faults
        /\ gone # {}
        /\ rows' = [v \in Ids |-> IF v \in gone THEN None ELSE rows[v]]
        /\ Excuse({m \in Imeis : Holders(m) \cap gone # {}})
        /\ UNCHANGED <<hash, cache, request, fill>>

-----------------------------------------------------------------------------
(* resolveVehicle of the three consumers *)

Become(p, f) == fill' = [fill EXCEPT ![p] = f]

(* HGETALL is answered, with nothing when it fails.  Only the subscriber   *)
(* with a map goes on from an entry; the others use it and are done.       *)
ReadHash(p, m) ==
    /\ fill[p] = None
    /\ p = Caching => cache[m] = None
    /\ \E e \in {hash[m]} \cup (IF "redis" \in Faults THEN {None} ELSE {}) :
          /\ e # None => p = Caching
          /\ Become(p, [at |-> "hash", imei |-> m, entry |-> e])
    /\ UNCHANGED <<rows, hash, cache, request, excused>>

(* The entry goes into the map, whatever has been invalidated since.       *)
KeepEntry(p) ==
    LET m == fill[p].imei
        e == fill[p].entry
    IN  /\ fill[p] # None /\ fill[p].at = "hash" /\ e # None
        /\ cache' = [cache EXCEPT ![m] = e]
        /\ excused' = IF Current(m, e) \/ hash[m] = e THEN excused ELSE excused \cup {m}
        /\ Become(p, None)
        /\ UNCHANGED <<rows, hash, request>>

(* Neither knows it: findByImei, which does not ask whether it is active.  *)
ReadRow(p) ==
    LET m == fill[p].imei
    IN  /\ fill[p] # None /\ fill[p].at = "hash" /\ fill[p].entry = None
        /\ \/ Holders(m) = {} /\ Become(p, None)
           \/ \E v \in Holders(m) : Become(p, [at |-> "row", imei |-> m, entry |-> EntryOf(v)])
        /\ UNCHANGED <<rows, hash, cache, request, excused>>

(* The row goes into the map, if there is one, and the hash; the failure of*)
(* the HSET is swallowed.                                                  *)
StoreRow(p) ==
    LET m == fill[p].imei
        e == fill[p].entry
    IN  /\ fill[p] # None /\ fill[p].at = "row"
        /\ \/ hash' = [hash EXCEPT ![m] = e]
           \/ "redis" \in Faults /\ UNCHANGED hash
        /\ cache' = IF p = Caching THEN [cache EXCEPT ![m] = e] ELSE cache
        /\ excused' = IF Current(m, e) THEN excused ELSE excused \cup {m}
        /\ Become(p, None)
        /\ UNCHANGED <<rows, request>>

(* CACHE_TTL_MS is over, or the process restarts. *)
Expire(m) ==
    /\ cache[m] # None
    /\ cache' = [cache EXCEPT ![m] = None]
    /\ UNCHANGED <<rows, hash, request, fill, excused>>

-----------------------------------------------------------------------------
Serving(q, op) == ~At(q, {"new", "answered"}) /\ request[q].op = op

createVehicle(q) ==
    \/ \E m \in Imeis, o \in Orgs : StartCreate(q, m, o)
    \/ /\ Serving(q, "create")
       /\ \/ Insert(q)
          \/ AssignGroups(q) \/ AssignGroupsFails(q)
          \/ WarmHash(q) \/ WarmHashFails(q) \/ Invalidate(q) \/ InvalidateFails(q)

updateVehicle(q) ==
    \/ \E u \in Users, v \in Ids, o \in Orgs \cup {None}, a \in Activity : StartUpdate(q, u, v, o, a)
    \/ /\ Serving(q, "update")
       /\ \/ Update(q)
          \/ AssignGroups(q) \/ AssignGroupsFails(q)
          \/ WarmHash(q) \/ WarmHashFails(q) \/ Invalidate(q) \/ InvalidateFails(q)

deleteVehicle(q) ==
    \/ \E u \in Users, v \in Ids : StartDelete(q, u, v)
    \/ Serving(q, "delete") /\ Delete(q)

migrateVehicle(q) ==
    \/ \E u \in Users, v \in Ids, m \in Imeis : StartMigrate(q, u, v, m)
    \/ Serving(q, "migrate") /\ Migrate(q)

Resolve(p) ==
    \/ \E m \in Imeis : ReadHash(p, m)
    \/ KeepEntry(p) \/ ReadRow(p) \/ StoreRow(p)

Next ==
    \/ \E q \in Requests :
          createVehicle(q) \/ updateVehicle(q) \/ deleteVehicle(q) \/ migrateVehicle(q)
    \/ \E p \in Resolvers : Resolve(p)
    \/ \E m \in Imeis : Expire(m)
    \/ \E o \in Orgs : OrgDeleted(o)

Spec == Init /\ [][Next]_vars

-----------------------------------------------------------------------------
(* A handler has changed the row behind this IMEI and not yet invalidated. *)
Underway(m) ==
    \E q \in Requests : At(q, {"groups", "warm", "invalidate"}) /\ request[q].imei = m

(* An entry that disagrees with the table about who a packet's vehicle is, *)
(* or whose it is, has a known cause: a handler still to invalidate it, a  *)
(* consumer that stored what it had read before the change, a migration, a *)
(* cascade, or a handler that failed after its UPDATE, down to its DEL.    *)
(* While Redis answers, no interleaving of whole handlers leaves one.      *)
StaleHasCause ==
    \A m \in Imeis : \A e \in {hash[m], cache[m]} \ {None} :
        Current(m, e) \/ Underway(m) \/ m \in excused

(* vehicleController.js:404: "invalidate IMEI cache so packets stop being  *)
(* routed to a deleted vehicle".  Once a deletion is answered and nothing  *)
(* else is going on, no cache has the vehicle.                             *)
DeletedIsForgotten ==
    (\A q \in Requests : At(q, {"new", "answered"})) =>
        \A m \in Imeis : \A e \in {hash[m], cache[m]} \ {None} :
            Exists(e.id) => rows[e.id].active
=============================================================================
