------------------------------- MODULE Writer -------------------------------
(***************************************************************************)
(* The writer process (writer/server.js): it reads the tracking stream     *)
(* through its consumer group, buffers the rows of known vehicles and      *)
(* flushes them to gps_points and vehicle_latest_state.                    *)
(*                                                                         *)
(* One action is the code between two awaits of one chain of callbacks.    *)
(* The chains are the consumer loop (with processBatch inside it), the     *)
(* callbacks of the flush timer, of which several may be waiting at once,  *)
(* and the signal handler.  A buffer is the set of the stream IDs of its   *)
(* rows: the arrays are only appended to, taken whole and put back whole.  *)
(* A vehicle is named by its IMEI.  Time is abstract: wherever the code    *)
(* compares the clock with lastFlushAt, both outcomes are possible.        *)
(***************************************************************************)
EXTENDS ConsumerLoop

CONSTANTS
    Imeis,         \* the IMEIs that devices report with
    Registered,    \* those the vehicles table knows
    Times,         \* device times
    Malformed,     \* the payload of an entry whose data is not JSON
    BatchMaxRows,  \* BATCH_MAX_ROWS
    Timers         \* bound: timer callbacks that may be inside flushNow at once

Points == [imei : Registered, time : Times]

ASSUME WriterAssumption ==
    /\ Registered \subseteq Imeis
    /\ Payloads = [imei : Imeis, time : Times] \cup {Malformed}
    /\ Malformed \notin [imei : Imeis, time : Times]
    /\ BatchMaxRows \in Nat \ {0}
    /\ Timers \cap {"loop", "exit"} = {}
    /\ Faults \subseteq {"redis", "resolve", "db", "xack", "crash", "signal"}

VARIABLES
    pointBuffer, stateBuffer, pendingAcks,  \* the three arrays of the module
    flight,       \* for each caller of flushNow, what it has taken and its phase
    gpsPoints,    \* rows of gps_points, one per (vehicle, device_time)
    latestState,  \* the entry behind each row of vehicle_latest_state, 0 for none
    rawPackets    \* entries recorded in raw_packets

bufferVars == <<pointBuffer, stateBuffer, pendingAcks>>
dbVars == <<gpsPoints, latestState, rawPackets>>
vars == <<streamVars, loopVars, bufferVars, flight, dbVars>>

Flushers == Timers \cup {"loop", "exit"}
NoFlight == [phase |-> "none", points |-> {}, states |-> {}, acks |-> {}]
Flights ==
    [phase : {"none", "points", "states", "backoff", "xack"},
     points : SUBSET Ids, states : SUBSET Ids, acks : SUBSET Ids]

Stopping == flight["exit"].phase # "none"

TypeOK ==
    /\ StreamTypeOK
    /\ pc \in {"down", "starting", "batch", "flushing", "idle", "ended"}
    /\ mode \in {"recovering", "reading", "stopped"}
    /\ batch \subseteq Ids
    /\ acked \subseteq Ids
    /\ pointBuffer \subseteq Ids
    /\ stateBuffer \subseteq Ids
    /\ pendingAcks \subseteq Ids
    /\ flight \in [Flushers -> Flights]
    /\ gpsPoints \subseteq Payloads
    /\ latestState \in [Registered -> 0..Len(stream)]
    /\ rawPackets \subseteq Ids

Init ==
    /\ LoopInit
    /\ pointBuffer = {}
    /\ stateBuffer = {}
    /\ pendingAcks = {}
    /\ flight = [f \in Flushers |-> NoFlight]
    /\ gpsPoints = {}
    /\ latestState = [v \in Registered |-> 0]
    /\ rawPackets = {}

-----------------------------------------------------------------------------
(* flushNow *)

(* Mutant: the IDs are not reset with the rows. *)
TakeBuffersKeepingAcks(f, added) ==
    /\ flight' = [flight EXCEPT ![f] =
                    [phase |-> "points", points |-> pointBuffer \cup added,
                     states |-> stateBuffer \cup added, acks |-> pendingAcks \cup added]]
    /\ pointBuffer' = {}
    /\ stateBuffer' = {}
    /\ pendingAcks' = pendingAcks \cup added

(* The synchronous head of flushNow, once `added` has been pushed: the     *)
(* caller f takes the three arrays and leaves them empty.                  *)
TakeBuffers(f, added) ==
    /\ flight' = [flight EXCEPT ![f] =
                    [phase |-> "points", points |-> pointBuffer \cup added,
                     states |-> stateBuffer \cup added, acks |-> pendingAcks \cup added]]
    /\ pointBuffer' = {}
    /\ stateBuffer' = {}
    /\ pendingAcks' = {}

(* savePointsBatch: a row whose (vehicle_id, device_time) exists already   *)
(* is skipped.                                                             *)
InsertPoints(ids) == gpsPoints' = gpsPoints \cup {stream[i] : i \in ids}

(* updateLatestStatesBatch: the row of each vehicle is overwritten, with   *)
(* no comparison of times.                                                 *)
UpsertRows(ids) ==
    latestState' = [v \in Registered |->
        IF \E i \in ids : stream[i].imei = v
        THEN CHOOSE i \in ids : stream[i].imei = v
        ELSE latestState[v]]

(* Postgres refuses an INSERT ... ON CONFLICT DO UPDATE that has two rows  *)
(* for one vehicle ("cannot affect row a second time").                    *)
Upsertable(ids) == \A i, j \in ids : stream[i].imei = stream[j].imei => i = j

(* Mutant: the first statement is not awaited, and may come to nothing. *)
SavePointsUnawaited(f) ==
    /\ flight[f].phase = "points"
    /\ InsertPoints(flight[f].points) \/ UNCHANGED gpsPoints
    /\ flight' = [flight EXCEPT ![f].phase = "states"]
    /\ UNCHANGED <<streamVars, loopVars, bufferVars, latestState, rawPackets>>

SavePoints(f) ==
    /\ flight[f].phase = "points"
    /\ InsertPoints(flight[f].points)
    /\ flight' = [flight EXCEPT ![f].phase = "states"]
    /\ UNCHANGED <<streamVars, loopVars, bufferVars, latestState, rawPackets>>

(* The second statement succeeds, and the process that called flushNow     *)
(* gets its IDs back.                                                      *)
UpsertStates(f) ==
    /\ flight[f].phase = "states"
    /\ Upsertable(flight[f].states)
    /\ UpsertRows(flight[f].states)
    /\ UNCHANGED <<gpsPoints, rawPackets>>

(* Mutant: the catch block forgets the IDs. *)
RequeueWithoutAcks(f) ==
    /\ pointBuffer' = flight[f].points \cup pointBuffer
    /\ stateBuffer' = flight[f].states \cup stateBuffer
    /\ UNCHANGED pendingAcks

(* The catch block puts the three arrays back in front of the buffer. *)
Requeue(f) ==
    /\ pointBuffer' = flight[f].points \cup pointBuffer
    /\ stateBuffer' = flight[f].states \cup stateBuffer
    /\ pendingAcks' = flight[f].acks \cup pendingAcks

(* flushNow fails: either statement is rejected, always when Postgres refuses   *)
(* the rows and otherwise by a database fault.  After a fault the          *)
(* statement may have taken effect or not.  The caller then waits 500 ms.  *)
FlushFails(f) ==
    /\ \/ /\ flight[f].phase = "points"
          /\ "db" \in Faults
          /\ InsertPoints(flight[f].points) \/ UNCHANGED gpsPoints
          /\ UNCHANGED latestState
       \/ /\ flight[f].phase = "states"
          /\ \/ "db" \in Faults /\ Upsertable(flight[f].states) /\ UpsertRows(flight[f].states)
             \/ "db" \in Faults /\ UNCHANGED latestState
             \/ ~Upsertable(flight[f].states) /\ UNCHANGED latestState
          /\ UNCHANGED gpsPoints
    /\ Requeue(f)
    /\ flight' = [flight EXCEPT ![f] = [NoFlight EXCEPT !.phase = "backoff"]]
    /\ UNCHANGED <<streamVars, loopVars, rawPackets>>

-----------------------------------------------------------------------------
(* The life of the process *)

(* Everything in memory is gone. *)
ProcessEnds ==
    /\ LoopDies
    /\ pointBuffer' = {}
    /\ stateBuffer' = {}
    /\ pendingAcks' = {}
    /\ flight' = [f \in Flushers |-> NoFlight]

(* PM2 starts the process; start() and runConsumerLoop ensure the group. *)
Start ==
    /\ Ensure
    /\ UNCHANGED <<bufferVars, flight, dbVars>>

(* A crash at any point.  A statement that still takes effect after its    *)
(* sender is gone is FlushFails followed by Crash.                         *)
Crash ==
    /\ "crash" \in Faults
    /\ pc # "down"
    /\ ProcessEnds
    /\ UNCHANGED <<streamVars, dbVars>>

(* SIGINT or SIGTERM: shutdown() stops the timer and flushes the buffer;   *)
(* with nothing in it the process exits at once, whatever is in flight.    *)
(* Once the loop is reading it has its own handler, which ends it after    *)
(* the current batch and closes its connection.                            *)
Signal ==
    /\ "signal" \in Faults
    /\ pc # "down"
    /\ ~Stopping
    /\ \/ /\ pointBuffer = {} /\ stateBuffer = {}
          /\ ProcessEnds
       \/ /\ ~(pointBuffer = {} /\ stateBuffer = {})
          /\ TakeBuffers("exit", {})
          /\ StopLoop
    /\ UNCHANGED <<streamVars, dbVars>>

ExitFlushed ==
    /\ UpsertStates("exit")
    /\ ProcessEnds
    /\ UNCHANGED streamVars

ExitUnflushed ==
    /\ flight["exit"].phase = "backoff"
    /\ ProcessEnds
    /\ UNCHANGED <<streamVars, dbVars>>

-----------------------------------------------------------------------------
(* The consumer loop: runConsumerLoop with processBatch as onBatch *)

ReadPending ==
    /\ Recover
    /\ UNCHANGED <<bufferVars, flight, dbVars>>

ReadNew ==
    /\ Poll
    /\ UNCHANGED <<bufferVars, flight, dbVars>>

ReadNewLost ==
    /\ PollLost
    /\ UNCHANGED <<bufferVars, flight, dbVars>>

LoopEnds ==
    /\ EndLoop
    /\ UNCHANGED <<bufferVars, flight, dbVars>>

DropMalformed(i) ==
    /\ AtEntry(i)
    /\ stream[i] = Malformed
    /\ acked' = acked \cup {i}
    /\ batch' = batch \ {i}
    /\ UNCHANGED <<streamVars, pc, mode, bufferVars, flight, dbVars>>

(* resolveVehicle finds no vehicle; saveRawPacket is best-effort. *)
RecordUnknown(i) ==
    /\ AtEntry(i)
    /\ stream[i] # Malformed
    /\ stream[i].imei \notin Registered
    /\ rawPackets' \in {rawPackets, rawPackets \cup {i}}
    /\ acked' = acked \cup {i}
    /\ batch' = batch \ {i}
    /\ UNCHANGED <<streamVars, pc, mode, bufferVars, flight, gpsPoints, latestState>>

(* Mutant: processBatch returns the ID of a row it has only buffered. *)
BufferRowAcked(i) ==
    /\ AtEntry(i)
    /\ stream[i] \in Points
    /\ batch' = batch \ {i}
    /\ acked' = acked \cup {i}
    /\ Cardinality(pointBuffer \cup {i}) < BatchMaxRows
    /\ pointBuffer' = pointBuffer \cup {i}
    /\ stateBuffer' = stateBuffer \cup {i}
    /\ pendingAcks' = pendingAcks
    /\ UNCHANGED <<streamVars, pc, mode, flight, dbVars>>

(* resolveVehicle finds the vehicle: the row is pushed and, if the buffer  *)
(* is full or old enough, flushNow is called in the same turn.             *)
BufferRow(i) ==
    /\ AtEntry(i)
    /\ stream[i] \in Points
    /\ batch' = batch \ {i}
    /\ \/ /\ TakeBuffers("loop", {i})
          /\ pc' = "flushing"
       \/ /\ Cardinality(pointBuffer \cup {i}) < BatchMaxRows
          /\ pointBuffer' = pointBuffer \cup {i}
          /\ stateBuffer' = stateBuffer \cup {i}
          /\ pendingAcks' = pendingAcks \cup {i}
          /\ UNCHANGED <<pc, flight>>
    /\ UNCHANGED <<streamVars, mode, acked, dbVars>>

(* Mutant: the loop XACKs the whole batch when processBatch throws. *)
ResolveThrowsAcked(i) ==
    /\ "resolve" \in Faults
    /\ AtEntry(i)
    /\ stream[i] # Malformed
    /\ XAck(batch)
    /\ NextRead
    /\ UNCHANGED <<bufferVars, flight, dbVars>>

(* resolveVehicle rejects: processBatch throws, its acked list is lost     *)
(* and the rest of the batch is left in the PEL.                           *)
ResolveThrows(i) ==
    /\ "resolve" \in Faults
    /\ AtEntry(i)
    /\ stream[i] # Malformed
    /\ NextRead
    /\ UNCHANGED <<streamVars, bufferVars, flight, dbVars>>

LoopFlushed ==
    /\ UpsertStates("loop")
    /\ acked' = acked \cup flight["loop"].acks
    /\ pc' = "batch"
    /\ flight' = [flight EXCEPT !["loop"] = NoFlight]
    /\ UNCHANGED <<streamVars, mode, batch, bufferVars>>

LoopFlushFailed ==
    /\ flight["loop"].phase = "backoff"
    /\ pc' = "batch"
    /\ flight' = [flight EXCEPT !["loop"] = NoFlight]
    /\ UNCHANGED <<streamVars, mode, batch, acked, bufferVars, dbVars>>

FinishBatch ==
    /\ Return
    /\ UNCHANGED <<bufferVars, flight, dbVars>>

-----------------------------------------------------------------------------
(* The flush timer *)

TimerFlush(t) ==
    /\ pc # "down"
    /\ ~Stopping
    /\ flight[t].phase = "none"
    /\ pointBuffer # {} \/ stateBuffer # {}
    /\ TakeBuffers(t, {})
    /\ UNCHANGED <<streamVars, loopVars, dbVars>>

TimerFlushed(t) ==
    /\ UpsertStates(t)
    /\ flight' = [flight EXCEPT ![t] =
                    [NoFlight EXCEPT !.phase = "xack", !.acks = flight[t].acks]]
    /\ UNCHANGED <<streamVars, loopVars, bufferVars>>

TimerFlushFailed(t) ==
    /\ flight[t].phase = "backoff"
    /\ flight' = [flight EXCEPT ![t] = NoFlight]
    /\ UNCHANGED <<streamVars, loopVars, bufferVars, dbVars>>

(* The timer XACKs on a connection of its own; a failure is swallowed. *)
TimerXAck(t) ==
    /\ flight[t].phase = "xack"
    /\ XAck(flight[t].acks) \/ ("xack" \in Faults /\ UNCHANGED streamVars)
    /\ flight' = [flight EXCEPT ![t] = NoFlight]
    /\ UNCHANGED <<loopVars, bufferVars, dbVars>>

-----------------------------------------------------------------------------
Publish ==
    /\ \E p \in Payloads : XAdd(p)
    /\ UNCHANGED <<loopVars, bufferVars, flight, dbVars>>

LoopStep ==
    \/ ReadPending \/ ReadNew \/ LoopEnds \/ FinishBatch
    \/ LoopFlushed \/ LoopFlushFailed
    \/ \E i \in batch : DropMalformed(i) \/ RecordUnknown(i) \/ BufferRow(i)

Next ==
    \/ Publish
    \/ Start \/ Crash \/ Signal \/ ExitFlushed \/ ExitUnflushed
    \/ LoopStep
    \/ ReadNewLost
    \/ \E i \in batch : ResolveThrows(i)
    \/ \E f \in Flushers : SavePoints(f) \/ FlushFails(f)
    \/ \E t \in Timers : TimerFlush(t) \/ TimerFlushed(t) \/ TimerFlushFailed(t) \/ TimerXAck(t)

Spec == Init /\ [][Next]_vars
-----------------------------------------------------------------------------
(* Safety *)

(* What an entry must have become before it may be forgotten. *)
Settled(i) ==
    stream[i] \in Points =>
        /\ stream[i] \in gpsPoints
        /\ latestState[stream[i].imei] # 0

(* At-least-once: the writer never XACKs an entry before the point is in   *)
(* gps_points and its vehicle has a state row (writer/server.js:47: "to    *)
(* XACK after successful flush"), through failed flushes, overlapping      *)
(* flushes, crashes and redelivery.                                        *)
AckedIsStored == \A i \in acknowledged : Settled(i)

(* The places in memory that hold entries not yet XACKed. *)
Buffered == pointBuffer \cup stateBuffer \cup pendingAcks
InFlight(f) == flight[f].points \cup flight[f].states \cup flight[f].acks
Held == batch \cup acked \cup Buffered \cup UNION {InFlight(f) : f \in Flushers}

(* Whatever the writer holds in memory is pending under its own name, and  *)
(* is held in one place: no row is flushed by two callers of flushNow or   *)
(* XACKed while another of them may still put it back (168-172, 194-196).  *)
HeldOnce ==
    /\ Held \subseteq owned
    /\ batch \cap (acked \cup Buffered) = {}
    /\ acked \cap Buffered = {}
    /\ \A f \in Flushers : InFlight(f) \cap (batch \cup acked \cup Buffered) = {}
    /\ \A f, g \in Flushers : f # g => InFlight(f) \cap InFlight(g) = {}

(* The dashboard's table never shows a report that the history table does  *)
(* not have: gps_points is written before vehicle_latest_state (175-181).  *)
StateHasPoint ==
    \A v \in Registered : latestState[v] # 0 =>
        /\ stream[latestState[v]] \in gpsPoints
        /\ stream[latestState[v]].imei = v

-----------------------------------------------------------------------------
(* The inductive invariant behind the properties above *)

(* The three arrays go together: the rows that f has taken are the same in *)
(* all of them while it writes, and only the IDs are left for the XACK.    *)
Aligned(f) ==
    /\ flight[f].phase \in {"points", "states"} =>
          flight[f].points = flight[f].acks /\ flight[f].states = flight[f].acks
    /\ flight[f].phase \notin {"points", "states"} =>
          flight[f].points = {} /\ flight[f].states = {}
    /\ flight[f].phase \in {"none", "backoff"} => flight[f].acks = {}

BuffersAligned ==
    /\ pointBuffer = pendingAcks /\ stateBuffer = pendingAcks
    /\ \A f \in Flushers : Aligned(f)

(* HeldOnce, in terms of the IDs alone. *)
OnePlace ==
    /\ batch \cup acked \cup pendingAcks \subseteq owned
    /\ batch \cap acked = {} /\ batch \cap pendingAcks = {} /\ acked \cap pendingAcks = {}
    /\ \A f \in Flushers :
          /\ flight[f].acks \subseteq owned
          /\ flight[f].acks \cap (batch \cup acked \cup pendingAcks) = {}
    /\ \A f, g \in Flushers : f # g => flight[f].acks \cap flight[g].acks = {}
    /\ pc \in {"down", "starting"} =>
          /\ batch \cup acked \cup pendingAcks = {}
          /\ \A f \in Flushers : flight[f].acks = {}

(* Only reports of known vehicles are buffered and stored. *)
RowsKnown ==
    /\ \A i \in pendingAcks : stream[i] \in Points
    /\ \A f \in Flushers : \A i \in flight[f].acks : stream[i] \in Points
    /\ gpsPoints \subseteq Points

(* A caller of flushNow has done what its phase says. *)
Progress ==
    \A f \in Flushers : \A i \in flight[f].acks :
        /\ flight[f].phase = "states" => stream[i] \in gpsPoints
        /\ flight[f].phase = "xack" => Settled(i)

AckedSettled == \A i \in acked : Settled(i)

WriterInv ==
    /\ TypeOK
    /\ BuffersAligned
    /\ OnePlace
    /\ RowsKnown
    /\ Progress
    /\ AckedSettled
    /\ AckedIsStored
    /\ StateHasPoint

-----------------------------------------------------------------------------
(* What the writer implements *)

Ingest == INSTANCE TrackingIngest WITH
    Reports <- Payloads, Storable <- Points, log <- stream, cursor <- lastDelivered,
    pending <- pel, done <- acknowledged, table <- gpsPoints

(* Every behaviour of the writer, with its buffers, overlapping flushes,   *)
(* failures and restarts, is one of the promise: an entry stays pending    *)
(* until its point is stored or it turns out to have no vehicle.           *)
ImplementsIngest == Ingest!Spec

-----------------------------------------------------------------------------
(* Promises that depend on the deployment *)

(* redisStreams.js:8-9: a consumer replays the entries it had read but not *)
(* yet XACKed "so we never lose data".  Once past recovery, every pending  *)
(* entry is in the writer's hands.  It holds when the name is stable, the  *)
(* PEL fits in one XPENDING, nothing was trimmed and no Redis or resolve   *)
(* call fails, whatever the crashes and the database do.                   *)
PendingIsHeld ==
    pc \in {"batch", "flushing", "idle"} /\ mode # "stopped" => pel \subseteq Held

-----------------------------------------------------------------------------
(* Liveness *)

(* The event loop keeps running what is ready, PM2 restarts the process,   *)
(* and a database that is tried again and again does not fail for ever.    *)
(* Nobody has to publish, and no fault has to happen.                      *)
Fairness ==
    /\ WF_vars(Start) /\ WF_vars(LoopStep) /\ WF_vars(ExitUnflushed)
    /\ SF_vars(LoopFlushed) /\ SF_vars(ExitFlushed)
    /\ \A f \in Flushers : SF_vars(SavePoints(f)) /\ WF_vars(FlushFails(f))
    /\ \A t \in Timers :
          /\ WF_vars(TimerFlush(t)) /\ WF_vars(TimerFlushFailed(t)) /\ WF_vars(TimerXAck(t))
          /\ SF_vars(TimerFlushed(t))

FairSpec == Spec /\ Fairness

StaysUp == <>[](pc # "down" /\ ~Stopping)

(* Once the process stops being restarted, every entry that was delivered  *)
(* to it, in this life or an earlier one, is stored and acknowledged: the  *)
(* database's failures delay it and lose nothing.                          *)
EventuallyAcked ==
    StaysUp => \A i \in 1..MaxEntries : i \in pel ~> i \in acknowledged
=============================================================================
