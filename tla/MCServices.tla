------------------------------ MODULE MCServices ------------------------------
(***************************************************************************)
(* The parts of the API that share no state with each other, checked in one*)
(* run: a behaviour is one of the model "which".  A model has its variables*)
(* in the first of the places below, in the order in which its module      *)
(* declares them; the other places hold None.                              *)
(***************************************************************************)
EXTENDS Integers, Sequences, FiniteSets, TLC

CONSTANTS
    None, Absent,
    (* Of more than one model: their first two sets, the requests of the    *)
    (* first two, the vehicles.                                             *)
    Ones, Twos, Askers, Vehicles,
    GroupIds, Emails, Bodies, FirstTables, TenancyFaults,
    Imeis, Orgs, Parent, Users, Activity, Resolvers, Caching, CacheFaults,
    Addresses, Capacity, Unit, Rate, MaxKeys, IdleAfter, LastTick,
    Geofences, Routes, Ttl, Edits, LastCheck,
    Places, Browsers, Handlers, Gap, Patience, CacheMax, LastTime, Calls,
    Saves, Keys, Values, Passwords, EnvKey, Restarts,
    Devices, Tiers, Tier, Limits, Batches, Dealings,
    o1, o2, d1, d2   \* members of Orgs and of Devices

(* Values that a configuration file cannot write. *)
(* Of organisation, type and e-mail an update names one at most.           *)
BodiesOfOne ==
    {b \in [org : Ones \cup {None}, type : {"dealer", "customer", None}, email : Emails \cup {None},
            columns : BOOLEAN] :
        Cardinality({f \in {"org", "type", "email"} : b[f] # None}) <= 1}
(* A dealer, alone, with a customer of its own, or beside another dealer;  *)
(* a user with the first e-mail, another or none; a group or none.         *)
DealersAndUsers ==
    LET dealer == [parent |-> None, type |-> "dealer"]
        of(o) == [parent |-> o, type |-> "customer"]
        root == CHOOSE o \in Ones : TRUE
        first == CHOOSE e \in Emails : TRUE
    IN  {t \in [orgs : {f \in [Ones -> {dealer, of(root), Absent}] : f[root] = dealer},
                users : [Twos -> [org : Ones, email : Emails] \cup {Absent}],
                groups : [GroupIds -> Ones \cup {Absent}]] :
            LET there == {o \in Ones : t.orgs[o] # Absent}
            IN  /\ \E u \in Twos : t.users[u] # Absent /\ t.users[u].email = first
                /\ \A u \in Twos : t.users[u] # Absent =>
                      /\ t.users[u].org \in there
                      /\ \A w \in Twos \ {u} : t.users[w] # Absent => t.users[w].email # t.users[u].email
                /\ \A g \in GroupIds : t.groups[g] \in there \cup {Absent}}
DealerAndChild == [o \in {o1, o2} |-> IF o = o2 THEN o1 ELSE None]
OneTier == [d \in {d1, d2} |-> "Starter"]
AloneAndTogether == {<<d1>>, <<d2>>, <<d1, d2>>, <<d2, d1>>, <<d1, d1>>}

VARIABLES which, s1, s2, s3, s4, s5, s6, s7, s8, s9

-----------------------------------------------------------------------------
(* Two organisations and two users at most, two overlapping requests. *)
Tenants == INSTANCE Tenancy WITH
    OrgIds <- Ones, UserIds <- Twos, Requests <- Askers, Faults <- TenancyFaults,
    orgs <- s1, users <- s2, groups <- s3, members <- s4, fleets <- s5, req <- s6, audit <- s7

(* One IMEI, since nothing that is done for one looks at another, and two  *)
(* rows; a dealer and its child, and a superadmin, who also moves vehicles.*)
Registry == INSTANCE VehicleRegistry WITH
    Ids <- Twos, Requests <- Askers, Faults <- CacheFaults,
    rows <- s1, hash <- s2, cache <- s3, request <- s4, fill <- s5, excused <- s6

(* Users or rows of vehicles, and requests; the first states of Tenancy and*)
(* of VehicleRegistry are closed under it, and no other model uses them.   *)
Symmetry == Permutations(Twos) \cup Permutations(Askers)

(* Three addresses and room for two buckets of two tokens. *)
Limit == INSTANCE RateLimit WITH tick <- s1, buckets <- s2, answer <- s3, earned <- s4

Zone == INSTANCE Zones WITH
    LastTime <- LastCheck,
    zones <- s1, assigned <- s2, cache <- s3, reader <- s4, checked <- s5, time <- s6, edits <- s7, history <- s8

(* Two places of one browser, two requests at the API, a cache of one. *)
Geo == INSTANCE Geocode WITH
    now <- s1, addresses <- s2, inflight <- s3, lru <- s4, redis <- s5, handlers <- s6, last <- s7,
    calls <- s8, failed <- s9

(* Two saves, a restart without a key in the environment. *)
Profile == INSTANCE OrgProfile WITH
    Requests <- Saves,
    row <- s1, password <- s2, process <- s3, request <- s4, page <- s5, log <- s6, stored <- s7, overtaken <- s8

(* Two devices of one tier, each alone, together in both orders, one twice.*)
Licence == INSTANCE Licences WITH
    Imeis <- Devices, Requests <- Dealings,
    limits <- s1, devices <- s2, expiry <- s3, task <- s4, excess <- s5, owed <- s6, laps <- s7

ASSUME ServicesAssumption ==
    /\ Tenants!TenancyAssumption /\ Registry!RegistryAssumption /\ Limit!RateAssumption
    /\ Zone!ZonesAssumption /\ Geo!GeocodeAssumption /\ Profile!ProfileAssumption
    /\ Licence!LicencesAssumption

-----------------------------------------------------------------------------
Empty9 == s9 = None
Empty8 == s8 = None /\ Empty9
Empty7 == s7 = None /\ Empty8
Empty5 == s5 = None /\ s6 = None /\ Empty7

Init ==
    \/ which = "tenancy" /\ Tenants!Init /\ Empty8
    \/ which = "registry" /\ Registry!Init /\ Empty7
    \/ which = "limit" /\ Limit!LimitInit /\ Empty5
    \/ which = "zones" /\ Zone!ZonesInit /\ Empty9
    \/ which = "geocode" /\ Geo!GeoInit
    \/ which = "profile" /\ Profile!ProfileInit /\ Empty9
    \/ which = "licences" /\ Licence!Init /\ Empty8

From8 == <<s8, s9>>
From7 == <<s7, From8>>
From5 == <<s5, s6, From7>>

Next ==
    \/ which = "tenancy" /\ Tenants!Next /\ UNCHANGED <<which, From8>>
    \/ which = "registry" /\ Registry!Next /\ UNCHANGED <<which, From7>>
    \/ which = "limit" /\ Limit!LimitNext /\ UNCHANGED <<which, From5>>
    \/ which = "zones" /\ Zone!ZonesNext /\ UNCHANGED <<which, s9>>
    \/ which = "geocode" /\ Geo!GeoNext /\ UNCHANGED which
    \/ which = "profile" /\ Profile!ProfileNext /\ UNCHANGED <<which, s9>>
    \/ which = "licences" /\ Licence!Next /\ UNCHANGED <<which, From8>>

vars == <<which, s1, s2, s3, s4, From5>>
Spec == Init /\ [][Next]_vars
(* The behaviours of one model. *)
RegistrySpec == Init /\ which = "registry" /\ [][Next]_vars

-----------------------------------------------------------------------------
(* Every model keeps to its types. *)
TypeOK ==
    CASE which = "tenancy" -> Tenants!TypeOK
      [] which = "registry" -> Registry!TypeOK
      [] which = "limit" -> Limit!LimitTypeOK
      [] which = "zones" -> Zone!ZonesTypeOK
      [] which = "geocode" -> Geo!GeoTypeOK
      [] which = "profile" -> Profile!ProfileTypeOK
      [] which = "licences" -> Licence!TypeOK

(* adminController, auditService: answers and audit entries say what was   *)
(* written, whatever requests overlap and whichever statement fails.       *)
TenancyHolds == which = "tenancy" => Tenants!EntriesMatchWrites /\ Tenants!AnswerIsTrue

(* vehicleController, resolveVehicle: what the caches say of a vehicle     *)
(* differs from the table only by the causes named in VehicleRegistry.     *)
StaleHasCause == which = "registry" => Registry!StaleHasCause

(* vehicleController.js:404: "invalidate IMEI cache so packets stop being  *)
(* routed to a deleted vehicle".  Once a deletion is answered and nothing  *)
(* else is going on, no cache has the vehicle.                             *)
DeletedIsForgotten == which = "registry" => Registry!DeletedIsForgotten

(* OnboardController, billingController, EditVehiclePage: a tier has more  *)
(* devices than its limit, or a vehicle less time than it paid for, only by*)
(* the overlaps named in Licences.                                         *)
LicencesHold == which = "licences" => Licence!ExcessHasCause /\ Licence!ShortfallHasCause

(* rateLimit, the geofence cache, geocodeController and geocodeUtils,      *)
(* profileService: each keeps what it promises while requests overlap.     *)
ServicesHold ==
    /\ which = "limit" => Limit!LimitIsKept
    /\ which = "zones" => Zone!ZonesAreRecent
    /\ which = "geocode" => Geo!GeocodeHolds
    /\ which = "profile" => Profile!ProfileHolds
=============================================================================
