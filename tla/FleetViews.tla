----------------------------- MODULE FleetViews -----------------------------
(***************************************************************************)
(* What the lists, the counts and the detail requests of the REST API show *)
(* to a superadmin, to the dealer of an organisation and to a customer, who*)
(* sees vehicles through his groups (vehicleModel.findAll, groupModel,     *)
(* orgModel, userModel, gpsModel.getDashboardStats, adminController).  Each*)
(* query has its own idea of who sees what; the rows they read change by   *)
(* deactivation, migration and assignment, none of which looks at the      *)
(* other tables.                                                           *)
(***************************************************************************)
EXTENDS Naturals, FiniteSets, FiniteSetsExt

CONSTANTS
    Orgs,
    Parent,     \* the parent of each organisation, or None
    Vehicles,
    Expired,    \* those whose licence is over
    Onboarded,  \* those that have a device in the beginning
    Groups,
    UserOrg,    \* the organisation of the customer
    None

(* Assumed where the constants get their values. *)
ViewsAssumption ==
    /\ None \notin Orgs /\ Parent \in [Orgs -> Orgs \cup {None}]
    /\ IsFiniteSet(Orgs) /\ IsFiniteSet(Vehicles) /\ IsFiniteSet(Groups)
    /\ Expired \cup Onboarded \subseteq Vehicles /\ UserOrg \in Orgs

VARIABLES
    home,     \* vehicles.org_id
    active,   \* vehicles.is_active
    groupOf,  \* groups.org_id
    inGroup,  \* vehicle_groups, as <<vehicle, group>>
    mine,     \* user_groups of the customer
    devices   \* devices: the organisation of each vehicle's device, None without one

viewVars == <<home, active, groupOf, inGroup, mine, devices>>

Tree(o) == {o} \cup {c \in Orgs : Parent[c] = o}

ViewsTypeOK ==
    /\ home \in [Vehicles -> Orgs] /\ active \subseteq Vehicles
    /\ groupOf \in [Groups -> Orgs]
    /\ inGroup \subseteq Vehicles \X Groups /\ mine \subseteq Groups
    /\ devices \in [Vehicles -> Orgs \cup {None}]

(* Onboarded vehicles and others, in no group yet. *)
ViewsInit ==
    /\ home \in [Vehicles -> Orgs] /\ active = Vehicles
    /\ groupOf \in [Groups -> Orgs]
    /\ inGroup = {} /\ mine = {}
    /\ devices = [v \in Vehicles |-> IF v \in Onboarded THEN home[v] ELSE None]

-----------------------------------------------------------------------------
(* The changes, see VehicleRegistry and Tenancy for how they are made: none*)
(* of them touches what belongs to the vehicle elsewhere.                  *)

SetActive(v, on) ==
    /\ active' = IF on THEN active \cup {v} ELSE active \ {v}
    /\ UNCHANGED <<home, groupOf, inGroup, mine, devices>>

Move(v, o) ==
    /\ home' = [home EXCEPT ![v] = o]
    /\ UNCHANGED <<active, groupOf, inGroup, mine, devices>>

AssignVehicle(v, G) ==
    /\ inGroup' = {p \in inGroup : p[1] # v} \cup ({v} \X G)
    /\ UNCHANGED <<home, active, groupOf, mine, devices>>

AssignUser(G) ==
    /\ mine' = G
    /\ UNCHANGED <<home, active, groupOf, inGroup, devices>>

DeleteDevice(v) ==
    /\ devices[v] # None
    /\ devices' = [devices EXCEPT ![v] = None]
    /\ UNCHANGED <<home, active, groupOf, inGroup, mine>>

ViewsNext ==
    \/ \E v \in Vehicles :
        \/ \E on \in BOOLEAN : SetActive(v, on)
        \/ \E o \in Orgs : Move(v, o)
        \/ \E G \in SUBSET Groups : AssignVehicle(v, G)
        \/ DeleteDevice(v)
    \/ \E G \in SUBSET Groups : AssignUser(G)

ViewsSpec == ViewsInit /\ [][ViewsNext]_viewVars

-----------------------------------------------------------------------------
(* Who asks *)

Superadmin == [role |-> "superadmin", org |-> None]
Dealer(o) == [role |-> "dealer", org |-> o]
Customer == [role |-> "customer", org |-> UserOrg]

(* The organisations that a request is about: all, or the caller's own and *)
(* those right below it.                                                   *)
Reach(a) == IF a.role = "superadmin" THEN Orgs ELSE Tree(a.org)

(* Vehicles *)

OfGroup(g) == {v \in Vehicles : <<v, g>> \in inGroup}

(* Mutant: the list forgets that vehicles can be deactivated. *)
ListedWithInactive(a) ==
    {v \in Vehicles : IF a.role = "customer" THEN \E g \in mine : v \in OfGroup(g) ELSE home[v] \in Reach(a)}

(* VehicleModel.findAll *)
Listed(a) ==
    {v \in active : IF a.role = "customer" THEN \E g \in mine : v \in OfGroup(g) ELSE home[v] \in Reach(a)}

(* getAllVehicles with a group: who may filter by it, and what he gets. *)
MayFilter(a, g) == groupOf[g] \in Reach(a)
ListedIn(a, g) == Listed(a) \cap OfGroup(g)

(* getVehicleById and the requests below it: belongsToOrg. *)
Opens(a, v) == home[v] \in Reach(a)

(* getUserVehicles: a row for each of the customer's groups that it is in. *)
UserRows(v) == IF v \in active THEN Cardinality({g \in mine : v \in OfGroup(g)}) ELSE 0

(* getExpiredBillingLicenses *)
Overdue(a) == {v \in active \cap Expired : home[v] \in Reach(a)}

(* Groups, organisations, devices, totals *)

GroupsListed(a) == IF a.role = "customer" THEN mine ELSE {g \in Groups : groupOf[g] \in Reach(a)}
GroupSize(g) == Cardinality(OfGroup(g))

OrgsListed(a) == Reach(a)
OpensOrg(a, o) == a.role = "superadmin" \/ o = a.org \/ Parent[o] = a.org
OrgSize(o) == Cardinality({v \in active : home[v] = o})

(* getDashboardStats: one query that joins organisations and vehicles. *)
Total(a) == Cardinality({p \in Reach(a) \X active : home[p[2]] = p[1]})

(* getDevices: those of the caller's own organisation, of no other. *)
DevicesListed(a) ==
    {v \in Vehicles : devices[v] # None /\ (a.role = "superadmin" \/ devices[v] = a.org)}

-----------------------------------------------------------------------------
Staff == {Superadmin} \cup {Dealer(o) : o \in Orgs}

(* vehicleModel, orgModel: what a list shows to a superadmin or a dealer is*)
(* what he can open, but for deactivated vehicles, which only open; and the*)
(* licences that he has to renew are of vehicles on his list.              *)
ListsMatchDetails ==
    \A a \in Staff :
        /\ Listed(a) = {v \in active : Opens(a, v)}
        /\ OrgsListed(a) = {o \in Orgs : OpensOrg(a, o)}
        /\ Overdue(a) \subseteq Listed(a)

(* A customer, whose list goes by groups and whose details go by           *)
(* organisation, can open what he is shown, and filter by a group of his,  *)
(* as long as his groups and the vehicles in them are all within reach of  *)
(* his organisation: nothing keeps them there when a vehicle moves.        *)
CustomerSeesWhatHeOpens ==
    LET kept == \A g \in mine : groupOf[g] \in Tree(UserOrg) /\ \A v \in OfGroup(g) : home[v] \in Tree(UserOrg)
    IN  /\ {v \in Vehicles : UserRows(v) > 0} = Listed(Customer)
        /\ Listed(Customer) = UNION {ListedIn(Customer, g) : g \in GroupsListed(Customer)}
        /\ kept => /\ \A v \in Listed(Customer) : Opens(Customer, v)
                   /\ \A g \in GroupsListed(Customer) : MayFilter(Customer, g)

(* gpsModel, orgModel, groupModel: the total of the dashboard is the length*)
(* of the list and the sum of the organisations listed; the number shown   *)
(* with a group is that of its vehicles on the list, but for deactivated   *)
(* ones and for those that moved out of reach.                             *)
CountsMatchLists ==
    \A a \in Staff :
        /\ Total(a) = Cardinality(Listed(a))
        /\ Total(a) = MapThenSumSet(OrgSize, OrgsListed(a))
        /\ \A g \in GroupsListed(a) :
            /\ MayFilter(a, g)
            /\ GroupSize(g) = Cardinality(ListedIn(a, g))
                                + Cardinality({v \in OfGroup(g) : v \notin active \/ ~Opens(a, v)})

(* adminController.getDevices: the device of a vehicle that a dealer sees  *)
(* is on his list of devices, unless it was onboarded for an organisation  *)
(* below his own, or the vehicle has moved since.                          *)
DevicesFollowVehicles ==
    \A o \in Orgs : \A v \in Listed(Dealer(o)) :
        devices[v] # None /\ devices[v] = home[v] => v \in DevicesListed(Dealer(o)) \/ home[v] \in Tree(o) \ {o}

ViewsHold == ListsMatchDetails /\ CustomerSeesWhatHeOpens /\ CountsMatchLists /\ DevicesFollowVehicles
=============================================================================
