---------------------------- MODULE LiveDashboard ----------------------------
(***************************************************************************)
(* One browser and what it shows of its vehicles: the list, which is       *)
(* fetched and then kept up to date over Socket.io (useVehicles), the page *)
(* of one vehicle with its map (VehicleDetailPage, VehicleMap), and the    *)
(* rooms of its socket on the server (SocketContext, trackingSocket).      *)
(*                                                                         *)
(* What a vehicle reports is a version.  locationSubscriber stores it, and *)
(* sends location:update to the room of the vehicle and fleet:update to the*)
(* room of its organisation, which a socket joins when it connects; a      *)
(* dealer also sees the vehicles of organisations below his, whose rooms   *)
(* he is not in.                                                           *)
(***************************************************************************)
EXTENDS Naturals, Sequences, FiniteSets

CONSTANTS
    Shown,       \* the vehicles of the list
    OwnOrg,      \* those of the socket's own organisation
    Superadmin,  \* whether the user is one: joins are not checked
    Versions,    \* bound: the last version of a vehicle
    Cuts,        \* bound: how often the connection breaks
    Visits,      \* bound: how many pages are opened
    InFlight,    \* bound: the messages under way in each direction
    NoPage       \* the list; also: nothing shown

(* Assumed where the constants get their values. *)
DashboardAssumption ==
    /\ OwnOrg \subseteq Shown /\ NoPage \notin Shown
    /\ Superadmin \in BOOLEAN
    /\ {Versions, Cuts, Visits, InFlight} \subseteq Nat
    /\ NoPage \notin [Shown -> 0..Versions]

VARIABLES
    latest,     \* vehicle_latest_state: the version of each vehicle
    connected,  \* whether the socket is connected
    toServer,   \* join:vehicle and leave:vehicle under way
    toBrowser,  \* updates under way: [vehicle, version]
    checking,   \* joins that wait for belongsToOrg
    rooms,      \* the vehicle rooms of the socket
    page,       \* the vehicle of the page, NoPage for the list
    fetch,      \* the request for the vehicles: its answer, if any
    list,       \* the version shown of each vehicle, NoPage before the first answer
    missed,     \* history: vehicles shown with a version that a known cause left behind
    astray,     \* history: rooms entered although the page was left meanwhile
    deaf,       \* history: whether the page's map did not join, or lost its room
    cuts, visits

dashVars == <<latest, connected, toServer, toBrowser, checking, rooms, page, fetch, list,
              missed, astray, deaf, cuts, visits>>

DashTypeOK ==
    /\ latest \in [Shown -> 0..Versions]
    /\ connected \in BOOLEAN
    /\ \A n \in DOMAIN toServer : toServer[n] \in {"join", "leave"} \X Shown
    /\ \A n \in DOMAIN toBrowser : toBrowser[n].version <= latest[toBrowser[n].vehicle]
    /\ checking \subseteq Shown /\ rooms \subseteq Shown /\ missed \subseteq Shown
    /\ ~connected => rooms = {} /\ toServer = <<>> /\ toBrowser = <<>>
    /\ page \in Shown \cup {NoPage}
    /\ fetch.at \in {"idle", "asked", "answered"}
    /\ list \in [Shown -> 0..Versions] \cup {NoPage}

DashInit ==
    /\ latest = [v \in Shown |-> 0]
    /\ connected = FALSE
    /\ toServer = <<>> /\ toBrowser = <<>>
    /\ checking = {} /\ rooms = {}
    /\ page = NoPage
    /\ fetch = [at |-> "asked"]
    /\ list = NoPage
    /\ missed = {} /\ astray = {} /\ deaf = FALSE
    /\ cuts = 0 /\ visits = 0

-----------------------------------------------------------------------------
(* The server *)

(* The rooms of a vehicle that the socket is in, each with its event. *)
Heard(v) == (IF v \in rooms THEN {"location:update"} ELSE {})
              \cup (IF connected /\ v \in OwnOrg THEN {"fleet:update"} ELSE {})

(* The subscriber has stored a version, and emits it to both rooms. *)
Publish(v) ==
    LET update == [vehicle |-> v, version |-> latest[v] + 1]
        copies == [n \in 1..Cardinality(Heard(v)) |-> update]
    IN  /\ latest[v] < Versions
        /\ Len(toBrowser) + Cardinality(Heard(v)) <= InFlight
        /\ latest' = [latest EXCEPT ![v] = @ + 1]
        /\ toBrowser' = toBrowser \o copies
        /\ missed' = IF Heard(v) = {} THEN missed \cup {v} ELSE missed
        /\ UNCHANGED <<connected, toServer, checking, rooms, page, fetch, list, astray, deaf, cuts, visits>>

(* A join of a superadmin takes effect at once, one of another user after  *)
(* the database has answered; a leave takes effect at once.                *)
HandleJoin ==
    /\ toServer # <<>> /\ Head(toServer)[1] = "join"
    /\ LET v == Head(toServer)[2]
       IN  IF Superadmin
           THEN rooms' = rooms \cup {v} /\ UNCHANGED checking
           ELSE checking' = checking \cup {v} /\ UNCHANGED rooms
    /\ toServer' = Tail(toServer)
    /\ UNCHANGED <<latest, connected, toBrowser, page, fetch, list, missed, astray, deaf, cuts, visits>>

HandleLeave ==
    /\ toServer # <<>> /\ Head(toServer)[1] = "leave"
    /\ LET v == Head(toServer)[2]
       IN  /\ rooms' = rooms \ {v}
           /\ astray' = IF v \in checking THEN astray \cup {v} ELSE astray \ {v}
    /\ toServer' = Tail(toServer)
    /\ UNCHANGED <<latest, connected, toBrowser, checking, page, fetch, list, missed, deaf, cuts, visits>>

(* belongsToOrg has said yes. *)
Join(v) ==
    /\ v \in checking
    /\ checking' = checking \ {v}
    /\ rooms' = rooms \cup {v}
    /\ UNCHANGED <<latest, connected, toServer, toBrowser, page, fetch, list, missed, astray, deaf, cuts, visits>>

(* It has said no, or failed. *)
JoinFails(v) ==
    /\ v \in checking
    /\ checking' = checking \ {v}
    /\ deaf' = IF v = page THEN TRUE ELSE deaf
    /\ astray' = astray \ {v}
    /\ UNCHANGED <<latest, connected, toServer, toBrowser, rooms, page, fetch, list, missed, cuts, visits>>

AnswerFetch ==
    /\ fetch.at = "asked"
    /\ fetch' = [at |-> "answered", versions |-> latest]
    /\ UNCHANGED <<latest, connected, toServer, toBrowser, checking, rooms, page, list, missed, astray, deaf,
                   cuts, visits>>

-----------------------------------------------------------------------------
(* The browser *)

(* A message is sent when the socket is connected, and is dropped if not. *)
Sending(messages) ==
    toServer' = IF connected THEN toServer \o messages ELSE toServer

(* The socket connects; the server puts it into the room of its            *)
(* organisation, and the vehicle page does not join again.                 *)
Connect ==
    /\ ~connected
    /\ connected' = TRUE
    /\ UNCHANGED <<latest, toServer, toBrowser, checking, rooms, page, fetch, list, missed, astray, deaf, cuts,
                   visits>>

(* What is under way is lost; a join that waits for the database joins a   *)
(* socket that is gone.                                                    *)
Disconnect ==
    /\ connected
    /\ cuts < Cuts
    /\ cuts' = cuts + 1
    /\ connected' = FALSE
    /\ toServer' = <<>> /\ toBrowser' = <<>>
    /\ checking' = {} /\ rooms' = {} /\ astray' = {}
    /\ missed' = missed \cup {toBrowser[n].vehicle : n \in DOMAIN toBrowser}
    /\ deaf' = (page # NoPage)
    /\ UNCHANGED <<latest, page, fetch, list, visits>>

(* Mutant: updates that come before the list are kept out of it. *)
DropUpdate ==
    /\ toBrowser # <<>>
    /\ toBrowser' = Tail(toBrowser)
    /\ UNCHANGED <<latest, connected, toServer, checking, rooms, page, fetch, list, missed, astray, deaf, cuts,
                   visits>>

(* handleFleetUpdate maps over the vehicles there are: none before the     *)
(* first answer, so that an update between the reading of that answer and  *)
(* its arrival is lost.  It compares no times: an update from before the   *)
(* answer overwrites the newer version that the answer brought.            *)
HandleUpdate ==
    LET update == Head(toBrowser)
        v == update.vehicle
    IN  /\ toBrowser # <<>>
        /\ toBrowser' = Tail(toBrowser)
        /\ IF list = NoPage
           THEN UNCHANGED list /\ missed' = missed \cup {v}
           ELSE /\ list' = [list EXCEPT ![v] = update.version]
                /\ missed' = IF update.version = latest[v] THEN missed \ {v}
                             ELSE IF update.version < list[v] THEN missed \cup {v} ELSE missed
        /\ UNCHANGED <<latest, connected, toServer, checking, rooms, page, fetch, astray, deaf, cuts, visits>>

(* The answer replaces the list, newer updates and all.  The vehicle page  *)
(* shows its map when the vehicle has been loaded, and the map joins.      *)
ReceiveFetch ==
    LET versions == fetch.versions
    IN  /\ fetch.at = "answered"
        /\ Len(toServer) < InFlight
        /\ fetch' = [at |-> "idle"]
        /\ list' = versions
        /\ missed' = {v \in Shown : versions[v] # latest[v]}
        /\ IF page # NoPage /\ list = NoPage
           THEN Sending(<< <<"join", page>> >>) /\ deaf' = ~connected
           ELSE UNCHANGED <<toServer, deaf>>
        /\ UNCHANGED <<latest, connected, toBrowser, checking, rooms, page, astray, cuts, visits>>

FetchFails ==
    /\ fetch.at \in {"asked", "answered"}
    /\ fetch' = [at |-> "idle"]
    /\ UNCHANGED <<latest, connected, toServer, toBrowser, checking, rooms, page, list, missed, astray, deaf, cuts,
                   visits>>

(* refetch, or another set of parameters *)
Refetch ==
    /\ fetch.at = "idle"
    /\ visits < Visits
    /\ visits' = visits + 1
    /\ fetch' = [at |-> "asked"]
    /\ UNCHANGED <<latest, connected, toServer, toBrowser, checking, rooms, page, list, missed, astray, deaf, cuts>>

(* Another page: its hooks begin with nothing and ask again; the map of the*)
(* last one, if it was there, leaves its room.                             *)
OpenPage(v) ==
    /\ v # page
    /\ visits < Visits
    /\ Len(toServer) < InFlight
    /\ visits' = visits + 1
    /\ page' = v
    /\ list' = NoPage
    /\ fetch' = [at |-> "asked"]
    /\ missed' = {}
    /\ deaf' = FALSE
    /\ IF page # NoPage /\ list # NoPage
       THEN Sending(<< <<"leave", page>> >>) ELSE UNCHANGED toServer
    /\ UNCHANGED <<latest, connected, toBrowser, checking, rooms, astray, cuts>>

DashNext ==
    \/ \E v \in Shown : Publish(v) \/ Join(v) \/ JoinFails(v)
    \/ HandleJoin \/ HandleLeave \/ AnswerFetch
    \/ Connect \/ Disconnect \/ HandleUpdate \/ ReceiveFetch \/ FetchFails \/ Refetch
    \/ \E v \in Shown \cup {NoPage} : OpenPage(v)

DashSpec == DashInit /\ [][DashNext]_dashVars

-----------------------------------------------------------------------------
Delivered == toBrowser = <<>>
Settled == toServer = <<>> /\ checking = {} /\ fetch.at = "idle" /\ connected

(* useVehicles: when nothing is under way, the list shows the latest of    *)
(* each vehicle, unless its last change was published while the socket was *)
(* in none of its rooms, was lost with the connection, came before the     *)
(* list, or was overwritten by an answer read before it or by an update    *)
(* from before the answer; and the next update or answer makes up for each.*)
ListIsCurrent ==
    Delivered /\ list # NoPage => \A v \in Shown : list[v] = latest[v] \/ v \in missed

(* VehicleMap and trackingSocket: once joins and leaves are settled, the   *)
(* socket is in the room of the vehicle that the page shows and in no      *)
(* other, but for a join that was granted after its leave, and for a map   *)
(* that appeared, or was there, while the socket was not connected.        *)
RoomsFollowPage ==
    Settled =>
        /\ rooms \subseteq {page} \cup astray
        /\ page # NoPage /\ list # NoPage => page \in rooms \/ deaf

DashboardHolds == ListIsCurrent /\ RoomsFollowPage
=============================================================================
