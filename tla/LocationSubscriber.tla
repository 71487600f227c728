------------------------- MODULE LocationSubscriber -------------------------
(***************************************************************************)
(* The location consumer of the API process                                *)
(* (backend/subscribers/locationSubscriber.js) next to the publisher of    *)
(* the TCP server (tcp-server/publisher.js), with which it shares the key  *)
(* vehicle:state:<imei>.  For each entry of the tracking stream it reads   *)
(* the previous state, stores the point and the latest state, raises       *)
(* alerts by comparing states, and shows the vehicle on the dashboard.     *)
(*                                                                         *)
(* A report is what the alert checks look at.  A vehicle has one geofence. *)
(* Time is abstract: a key with a time to live may be gone whenever it is  *)
(* read, when "expiry" is among the faults, and an idle period may or may  *)
(* not have lasted long enough.                                            *)
(***************************************************************************)
EXTENDS SubscriberLoop

CONSTANTS
    Imeis,       \* the IMEIs that devices report with
    Registered   \* those the vehicles table knows

Reports ==
    [imei : Imeis, live : BOOLEAN, ignition : BOOLEAN, moving : BOOLEAN, inside : BOOLEAN]

ASSUME LocationAssumption ==
    /\ Steps = {"resolve", "previous", "point", "state", "check", "fence", "publish"}
    /\ Registered \subseteq Imeis
    /\ Payloads \subseteq Reports
    /\ Faults \subseteq {"redis", "db", "xack", "crash", "expiry"}

VARIABLES
    unset,         \* the publisher has added this entry and not yet SET its state key
    stateKey,      \* vehicle:state:<imei>: the entry it was made from, 0 when absent
    gpsPoints,     \* entries with a row in gps_points
    latestState,   \* the entry behind each row of vehicle_latest_state, 0 for none
    rawPackets,    \* entries recorded in raw_packets
    idleStart,     \* vehicles with a key vehicle:idle_start
    idleFired,     \* vehicles with a key vehicle:idle_alert_fired
    insideKey,     \* vehicles whose geofence key says 'inside'
    prevState,     \* the local variable of processBatch, 0 for null
    queue,         \* alertsToTrigger
    raised,        \* the alerts added to alerts:stream, as <<type, entry>>
    fenceAlert,    \* the last geofence alert of each vehicle: "none", "in" or "out"
    shown,         \* the entry of the last location:update of each vehicle, 0 for none
    crossed,       \* history: entries at which the geofence key was changed
    lost,          \* history: entries that were given up with a geofence alert still in the queue
    astray         \* history: vehicles whose key and alerts were parted by that or by a failing SET

publisherVars == <<unset, stateKey>>
tableVars == <<gpsPoints, latestState, rawPackets>>
keyVars == <<idleStart, idleFired, insideKey>>
localVars == <<prevState, queue>>
cutVars == <<lost, astray>>
alertVars == <<raised, fenceAlert, crossed, lost, astray>>
vars == <<readerVars, publisherVars, tableVars, keyVars, localVars, alertVars, shown>>

AlertTypes == {"ignition_on", "trip_started", "stoppage", "excessive_idle", "in", "out"}

TypeOK ==
    /\ ReaderTypeOK
    /\ unset \in 0..Len(stream)
    /\ stateKey \in [Imeis -> 0..Len(stream)]
    /\ gpsPoints \subseteq Ids
    /\ latestState \in [Registered -> 0..Len(stream)]
    /\ rawPackets \subseteq Ids
    /\ idleStart \subseteq Registered
    /\ idleFired \subseteq Registered
    /\ insideKey \subseteq Registered
    /\ prevState \in 0..Len(stream)
    /\ queue \in Seq(AlertTypes)
    /\ raised \subseteq AlertTypes \X Ids
    /\ fenceAlert \in [Registered -> {"none", "in", "out"}]
    /\ shown \in [Registered -> 0..Len(stream)]
    /\ crossed \subseteq Ids
    /\ lost \subseteq Ids
    /\ astray \subseteq Registered

Init ==
    /\ ReaderInit
    /\ unset = 0
    /\ stateKey = [m \in Imeis |-> 0]
    /\ gpsPoints = {}
    /\ latestState = [v \in Registered |-> 0]
    /\ rawPackets = {}
    /\ idleStart = {}
    /\ idleFired = {}
    /\ insideKey = {}
    /\ prevState = 0
    /\ queue = <<>>
    /\ raised = {}
    /\ fenceAlert = [v \in Registered |-> "none"]
    /\ shown = [v \in Registered |-> 0]
    /\ crossed = {}
    /\ lost = {}
    /\ astray = {}

-----------------------------------------------------------------------------
(* publishLocation: the XADD, and after it the SET, go down one connection *)
(* but another client may run between them.                                *)
Publish ==
    /\ unset = 0
    /\ \E p \in Payloads : XAdd(p)
    /\ unset' = Len(stream')
    /\ UNCHANGED <<loopVars, at, stateKey, tableVars, keyVars, localVars, alertVars, shown>>

SetStateKey ==
    /\ unset # 0
    /\ unset' = 0
    /\ \/ stateKey' = [stateKey EXCEPT ![stream[unset].imei] = unset]
       \/ "redis" \in Faults /\ UNCHANGED stateKey
    /\ UNCHANGED <<readerVars, tableVars, keyVars, localVars, alertVars, shown>>

(* Each of the keys has a time to live, which matters when one is read.    *)
MayBeGone == "expiry" \in Faults

-----------------------------------------------------------------------------
(* processBatch, one entry *)

(* The local variables go out of scope. *)
Forget ==
    /\ prevState' = 0
    /\ queue' = <<>>

(* No vehicle: the row in raw_packets is awaited, then acknowledged. *)
DropUnknown(i) ==
    /\ stream[i].imei \notin Registered
    /\ Handled(i, "resolve")
    /\ rawPackets' = rawPackets \cup {i}
    /\ UNCHANGED <<publisherVars, gpsPoints, latestState, keyVars, localVars, alertVars, shown>>

Resolve(i) ==
    /\ stream[i].imei \in Registered
    /\ Advance(i, "resolve", "previous")
    /\ UNCHANGED <<publisherVars, tableVars, keyVars, localVars, alertVars, shown>>

ReadPrevious(i) ==
    /\ Advance(i, "previous", "point")
    /\ \/ UNCHANGED stateKey
       \/ MayBeGone /\ stateKey' = [stateKey EXCEPT ![stream[i].imei] = 0]
    /\ prevState' = stateKey'[stream[i].imei]
    /\ UNCHANGED <<unset, tableVars, keyVars, queue, alertVars, shown>>

SavePoint(i) ==
    /\ Advance(i, "point", "state")
    /\ gpsPoints' = gpsPoints \cup {i}
    /\ UNCHANGED <<publisherVars, latestState, rawPackets, keyVars, localVars, alertVars, shown>>

(* Mutant: the upsert of the latest state is not awaited. *)
UpdateLatestStateUnawaited(i) ==
    /\ Advance(i, "state", "check")
    /\ \/ latestState' = [latestState EXCEPT ![stream[i].imei] = i]
       \/ UNCHANGED latestState
    /\ UNCHANGED <<publisherVars, gpsPoints, rawPackets, keyVars, localVars, alertVars, shown>>

UpdateLatestState(i) ==
    /\ Advance(i, "state", "check")
    /\ latestState' = [latestState EXCEPT ![stream[i].imei] = i]
    /\ UNCHANGED <<publisherVars, gpsPoints, rawPackets, keyVars, localVars, alertVars, shown>>

(* What the comparison with the previous state raises. *)
Raise(condition, type) == IF condition THEN <<type>> ELSE <<>>

IgnitionAlerts(r, prev) ==
    LET none == prev = 0
        old == stream[prev]
    IN Raise(r.ignition /\ (none \/ ~old.ignition), "ignition_on")
       \o Raise(r.ignition /\ r.moving /\ (none \/ ~old.moving \/ ~old.ignition), "trip_started")
       \o Raise(~r.ignition /\ ~none /\ old.ignition, "stoppage")

(* The comparison and the idle check; a report that is not live is done    *)
(* with.                                                                   *)
Check(i) ==
    LET r == stream[i]
        v == r.imei
        found == IgnitionAlerts(r, prevState)
    IN /\ r.live
       /\ Advance(i, "check", "fence")
       /\ IF r.ignition /\ ~r.moving
          THEN \/ /\ v \notin idleStart \/ MayBeGone
                  /\ idleStart' = idleStart \cup {v}
                  /\ queue' = found
                  /\ UNCHANGED idleFired
               \/ /\ v \in idleStart
                  /\ queue' = found
                  /\ UNCHANGED <<idleStart, idleFired>>
               \/ /\ v \in idleStart
                  /\ v \notin idleFired \/ MayBeGone
                  /\ queue' = found \o <<"excessive_idle">>
                  /\ idleFired' = idleFired \cup {v}
                  /\ UNCHANGED idleStart
          ELSE /\ idleStart' = idleStart \ {v}
               /\ idleFired' = idleFired \ {v}
               /\ queue' = found
       /\ UNCHANGED <<publisherVars, tableVars, insideKey, prevState, alertVars, shown>>

(* Mutant: the key is written before it is read. *)
CheckFenceLate(i) ==
    LET v == stream[i].imei
    IN /\ Advance(i, "fence", "publish")
       /\ insideKey' = IF stream[i].inside THEN insideKey \cup {v} ELSE insideKey \ {v}
       /\ crossed' = IF insideKey' = insideKey THEN crossed ELSE crossed \cup {i}
       /\ UNCHANGED <<queue, publisherVars, tableVars, idleStart, idleFired, prevState, raised,
                      fenceAlert, cutVars, shown>>

(* The geofence check: the key is written here, the alert only queued.     *)
(* Any error of it is swallowed by its own try block; if it is the SET     *)
(* that fails, the alert is in the queue already.                          *)
CheckFence(i) ==
    LET v == stream[i].imei
        isInside == stream[i].inside
    IN /\ Advance(i, "fence", "publish")
       /\ \E key \in {insideKey} \cup (IF MayBeGone THEN {insideKey \ {v}} ELSE {}) :
            LET wasInside == v \in key IN
            \/ /\ isInside /\ ~wasInside
               /\ queue' = Append(queue, "in")
               /\ insideKey' = key \cup {v}
               /\ crossed' = crossed \cup {i}
               /\ astray' = astray \ {v}
            \/ /\ ~isInside /\ wasInside
               /\ queue' = Append(queue, "out")
               /\ insideKey' = key \ {v}
               /\ crossed' = crossed \cup {i}
               /\ astray' = astray \ {v}
            \/ /\ isInside # wasInside
               /\ "redis" \in Faults
               /\ queue' = Append(queue, IF isInside THEN "in" ELSE "out")
               /\ astray' = astray \cup {v}
               /\ insideKey' = key
               /\ UNCHANGED crossed
            \/ /\ isInside = wasInside \/ Faults \cap {"redis", "db"} # {}
               /\ insideKey' = key
               /\ UNCHANGED <<queue, crossed, astray>>
       /\ UNCHANGED <<publisherVars, tableVars, idleStart, idleFired, prevState, raised,
                      fenceAlert, lost, shown>>

AddAlert(i) ==
    /\ raised' = raised \cup {<<Head(queue), i>>}
    /\ fenceAlert' = IF Head(queue) \in {"in", "out"}
                     THEN [fenceAlert EXCEPT ![stream[i].imei] = Head(queue)]
                     ELSE fenceAlert

(* One XADD to alerts:stream per alert in the queue. *)
PublishAlert(i) ==
    /\ queue # <<>>
    /\ Advance(i, "publish", "publish")
    /\ queue' = Tail(queue)
    /\ AddAlert(i)
    /\ UNCHANGED <<publisherVars, tableVars, keyVars, prevState, crossed, cutVars, shown>>

(* The broadcast, for a live report, and acked.push. *)
Finish(i) ==
    /\ \/ /\ stream[i].live
          /\ queue = <<>>
          /\ Handled(i, "publish")
          /\ shown' = [shown EXCEPT ![stream[i].imei] = i]
       \/ /\ ~stream[i].live
          /\ Handled(i, "check")
          /\ UNCHANGED shown
    /\ Forget
    /\ UNCHANGED <<publisherVars, tableVars, keyVars, alertVars>>

-----------------------------------------------------------------------------
(* An awaited call is rejected and the catch block takes over.  The call   *)
(* may have taken effect or not.                                           *)
DbFails(i) ==
    /\ "db" \in Faults
    /\ \/ /\ Failed(i, "resolve")
          /\ \/ UNCHANGED rawPackets
             \/ stream[i].imei \notin Registered /\ rawPackets' = rawPackets \cup {i}
          /\ UNCHANGED <<gpsPoints, latestState>>
       \/ /\ Failed(i, "point")
          /\ gpsPoints' \in {gpsPoints, gpsPoints \cup {i}}
          /\ UNCHANGED <<latestState, rawPackets>>
       \/ /\ Failed(i, "state")
          /\ latestState' \in {latestState, [latestState EXCEPT ![stream[i].imei] = i]}
          /\ UNCHANGED <<gpsPoints, rawPackets>>
    /\ Forget
    /\ UNCHANGED <<publisherVars, keyVars, alertVars, shown>>

(* The entry is left before the loop that publishes is through: these      *)
(* alerts of its queue are gone.                                           *)
GiveUp(i, rest) ==
    IF \E n \in DOMAIN rest : rest[n] \in {"in", "out"}
    THEN lost' = lost \cup {i} /\ astray' = astray \cup {stream[i].imei}
    ELSE UNCHANGED cutVars

RedisFails(i) ==
    /\ "redis" \in Faults
    /\ \/ Failed(i, "previous") /\ UNCHANGED <<keyVars, raised, fenceAlert, cutVars>>
       \/ /\ stream[i].live
          /\ Failed(i, "check")
          /\ \/ UNCHANGED keyVars
             \/ /\ idleStart' = idleStart \cup {stream[i].imei}
                /\ UNCHANGED <<idleFired, insideKey>>
             \/ /\ stream[i].imei \in idleStart
                /\ idleFired' = idleFired \cup {stream[i].imei}
                /\ UNCHANGED <<idleStart, insideKey>>
          /\ UNCHANGED <<raised, fenceAlert, cutVars>>
       \/ /\ queue # <<>>
          /\ Failed(i, "publish")
          /\ \/ AddAlert(i) /\ GiveUp(i, Tail(queue))
             \/ GiveUp(i, queue) /\ UNCHANGED <<raised, fenceAlert>>
          /\ UNCHANGED keyVars
    /\ Forget
    /\ UNCHANGED <<publisherVars, tableVars, crossed, shown>>

-----------------------------------------------------------------------------
Loop ==
    /\ LoopStep
    /\ UNCHANGED <<publisherVars, tableVars, keyVars, localVars, alertVars, shown>>

Fault ==
    /\ \/ (ReplyLost \/ Signal) /\ UNCHANGED <<localVars, cutVars>>
       \/ /\ ProcessDies
          /\ Forget
          /\ \/ at # "publish" /\ UNCHANGED cutVars
             \/ at = "publish" /\ \E i \in batch : AtEntry(i) /\ GiveUp(i, queue)
    /\ UNCHANGED <<publisherVars, tableVars, keyVars, raised, fenceAlert, crossed, shown>>

ProcessEntry ==
    \E i \in batch :
        \/ DropUnknown(i) \/ Resolve(i) \/ ReadPrevious(i) \/ SavePoint(i)
        \/ UpdateLatestState(i) \/ Check(i) \/ CheckFence(i) \/ PublishAlert(i) \/ Finish(i)

EntryFails == \E i \in batch : DbFails(i) \/ RedisFails(i)

Next ==
    \/ Publish \/ SetStateKey
    \/ Loop \/ ProcessEntry \/ EntryFails \/ Fault

Spec == Init /\ [][Next]_vars

-----------------------------------------------------------------------------
(* Safety *)

Stored(i) == i \in gpsPoints /\ latestState[stream[i].imei] # 0
Known(i) == stream[i].imei \in Registered

(* A report of a known vehicle is acknowledged only after its point and a  *)
(* latest state are in the database (145-154 before 258).                  *)
AckedIsStored == \A i \in acknowledged : Known(i) => Stored(i)

(* What the dashboard was last told of a vehicle is a report of that       *)
(* vehicle that the database has (the emit at 248 follows both awaits).    *)
ShownIsStored ==
    \A v \in Registered :
        shown[v] # 0 => stream[shown[v]].imei = v /\ Stored(shown[v])

(* An acknowledged report is never handled again: it raises no further     *)
(* alert and is not shown a second time, through restarts and recovery.    *)
AckedIsFinal ==
    [][/\ \A a \in raised' \ raised : a[2] \notin acknowledged
       /\ \A v \in Registered : shown'[v] # shown[v] => shown'[v] \notin acknowledged]_vars

(* While its key says a vehicle is inside its geofence, the last alert     *)
(* about it is that it came in, except between the two writes (212-221 and *)
(* 230-240), whatever expires and whatever is retried.  The two part only  *)
(* when the alert was in the queue while an XADD failed or the process     *)
(* died, or when the SET failed with the alert already queued, and meet    *)
(* again at the next crossing.                                             *)
FenceAlertFollowsKey ==
    at # "publish" => \A v \in insideKey : fenceAlert[v] = "in" \/ v \in astray

(* The strengthening for the first two: the step says what has been done   *)
(* for the lowest entry of the batch.                                      *)
Done(i) ==
    /\ at # "resolve" => Known(i)
    /\ at \in {"state", "check", "fence", "publish"} => i \in gpsPoints
    /\ at \in {"check", "fence", "publish"} => latestState[stream[i].imei] # 0

CurrentIsDone == \A i \in batch : (\A j \in batch : i <= j) => Done(i)

ListedIsStored == \A i \in acked : Known(i) => Stored(i)

LocationInv ==
    /\ TypeOK
    /\ LoopHolds
    /\ CurrentIsDone
    /\ ListedIsStored
    /\ AckedIsStored
    /\ ShownIsStored

-----------------------------------------------------------------------------
(* What the alert checks are for *)

(* A report at which the vehicle crossed the geofence is acknowledged only *)
(* after its alert is on the stream (240 before 258), unless it was left   *)
(* between the SET of the key and the XADD: the retry finds the key        *)
(* changed already.  Nothing else costs a crossing its alert, neither a    *)
(* failing database nor a lost reply, a redelivery or a key that expires.  *)
CrossingRaised ==
    \A i \in crossed \cap acknowledged :
        <<"in", i>> \in raised \/ <<"out", i>> \in raised \/ i \in lost

(* locationSubscriber.js:261-263: entries that were not acknowledged "get  *)
(* retried indefinitely which is safe": once the retry is acknowledged,    *)
(* the crossing has its alert.                                             *)
AlertsSurviveRetry ==
    \A i \in crossed \cap acknowledged : <<"in", i>> \in raised \/ <<"out", i>> \in raised
=============================================================================
