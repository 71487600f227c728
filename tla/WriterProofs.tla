---------------------------- MODULE WriterProofs ----------------------------
(* Type correctness and safety of Writer, and that it implements           *)
(* TrackingIngest, for every value of its constants.                       *)
EXTENDS Writer, FiniteSetTheorems, TLAPS

-----------------------------------------------------------------------------
(* The stream and its group: every operation on them keeps StreamTypeOK.  *)

(* XADD makes the log longer, and the entries already there stay as they   *)
(* are.                                                                    *)
LEMMA XAddGrows ==
    ASSUME StreamTypeOK, NEW p \in Payloads, XAdd(p)
    PROVE  /\ stream' \in Seq(Payloads)
           /\ Len(stream') = Len(stream) + 1
           /\ \A i \in Ids : i \in Ids' /\ stream'[i] = stream[i]
  BY DEF StreamTypeOK, XAdd, Ids

LEMMA XAddType ==
    ASSUME StreamTypeOK, NEW p \in Payloads, XAdd(p)
    PROVE  StreamTypeOK'
  <1>1. stream' \in Seq(Payloads) /\ Len(stream') = Len(stream) + 1
    BY XAddGrows
  <1>2. trimmed' \in Nat
    BY DEF XAdd, StreamTypeOK
  <1>3. lastDelivered' \in 0..Len(stream')
    BY <1>1 DEF XAdd, StreamTypeOK
  <1> QED
    BY <1>1, <1>2, <1>3 DEF XAdd, StreamTypeOK

LEMMA EnsureGroupType ==
    ASSUME StreamTypeOK, EnsureGroup
    PROVE  StreamTypeOK' /\ lastDelivered' >= lastDelivered
  BY DEF StreamTypeOK, EnsureGroup

(* A fresh read returns entries that were never delivered before. *)
LEMMA NewEntriesAreNew == NewEntries \subseteq {i \in Ids : i > lastDelivered}
  BY DEF NewEntries, Lowest

LEMMA DeliverType ==
    ASSUME StreamTypeOK, Deliver(NewEntries)
    PROVE  /\ StreamTypeOK'
           /\ lastDelivered' >= lastDelivered
           /\ NewEntries \subseteq (lastDelivered + 1)..lastDelivered'
  <1> PICK last \in NewEntries : (\A i \in NewEntries : i <= last) /\ lastDelivered' = last
    BY DEF Deliver
  <1>1. lastDelivered \in 0..Len(stream) /\ Len(stream) \in Nat
    BY DEF StreamTypeOK
  <1>2. last \in Ids /\ last > lastDelivered
    BY NewEntriesAreNew
  <1>3. NewEntries \subseteq (lastDelivered + 1)..last
    BY <1>1, <1>2, NewEntriesAreNew DEF Ids
  <1>4. NewEntries \subseteq (lastDelivered + 1)..lastDelivered'
    BY <1>3
  <1>5. lastDelivered' \in 0..Len(stream) /\ lastDelivered' > lastDelivered
    BY <1>1, <1>2 DEF Ids
  <1>6. /\ stream' = stream /\ trimmed' = trimmed /\ groupExists' = groupExists
        /\ acknowledged' = acknowledged
        /\ pel' = pel \cup NewEntries /\ owned' = owned \cup NewEntries
    BY DEF Deliver
  <1>7. pel' \subseteq 1..lastDelivered'
    BY <1>1, <1>4, <1>5, <1>6 DEF StreamTypeOK
  <1>8. acknowledged' \subseteq (1..lastDelivered') \ pel'
    BY <1>1, <1>4, <1>5, <1>6 DEF StreamTypeOK
  <1> QED
    BY <1>1, <1>4, <1>5, <1>6, <1>7, <1>8 DEF StreamTypeOK

(* Recovery returns entries this consumer still owes an XACK. *)
LEMMA PendingEntriesAreOwned == PendingEntries \subseteq owned
  BY DEF PendingEntries, Lowest

LEMMA XAckType ==
    ASSUME StreamTypeOK, NEW ids, XAck(ids)
    PROVE  StreamTypeOK'
  BY DEF StreamTypeOK, XAck

-----------------------------------------------------------------------------
(* Type correctness *)

LEMMA NoFlightType == NoFlight \in Flights
  BY DEF NoFlight, Flights

(* What the actions leave alone keeps its type when the log is unchanged. *)
LEMMA SameLog ==
    ASSUME stream' = stream
    PROVE  Ids' = Ids /\ Flights' = Flights
  BY DEF Ids, Flights

LEMMA TakeBuffersType ==
    ASSUME TypeOK, stream' = stream, NEW f \in Flushers,
           NEW added \in SUBSET Ids, TakeBuffers(f, added)
    PROVE  /\ flight' \in [Flushers -> Flights']
           /\ pointBuffer' = {} /\ stateBuffer' = {} /\ pendingAcks' = {}
  BY SameLog DEF TypeOK, TakeBuffers, Flights

LEMMA UpsertRowsType ==
    ASSUME TypeOK, NEW ids \in SUBSET Ids, UpsertRows(ids)
    PROVE  latestState' \in [Registered -> 0..Len(stream)]
  <1>1. ASSUME NEW v \in Registered
        PROVE  (IF \E i \in ids : stream[i].imei = v
                THEN CHOOSE i \in ids : stream[i].imei = v
                ELSE latestState[v]) \in 0..Len(stream)
    <2>1. CASE \E i \in ids : stream[i].imei = v
      <3>1. (CHOOSE i \in ids : stream[i].imei = v) \in ids
        BY <2>1
      <3>2. \A i \in ids : i \in 0..Len(stream)
        BY DEF Ids, TypeOK, StreamTypeOK
      <3> QED
        BY <2>1, <3>1, <3>2
    <2>2. CASE ~ \E i \in ids : stream[i].imei = v
      BY <2>2 DEF TypeOK
    <2> QED
      BY <2>1, <2>2
  <1> QED
    BY <1>1 DEF UpsertRows

LEMMA InsertPointsType ==
    ASSUME TypeOK, NEW ids \in SUBSET Ids, InsertPoints(ids)
    PROVE  gpsPoints' \subseteq Payloads
  BY DEF InsertPoints, TypeOK, StreamTypeOK, Ids

LEMMA ProcessEndsType ==
    ASSUME ProcessEnds, stream' = stream, StreamTypeOK',
           gpsPoints' \subseteq Payloads, latestState' \in [Registered -> 0..Len(stream)],
           rawPackets' \subseteq Ids
    PROVE  TypeOK'
  <1>1. Ids' = Ids /\ Flights' = Flights
    BY SameLog
  <1>2. flight' \in [Flushers -> Flights']
    BY <1>1, NoFlightType DEF ProcessEnds, LoopDies
  <1>3. latestState' \in [Registered -> 0..Len(stream')]
    OBVIOUS
  <1>4. rawPackets' \subseteq Ids'
    BY <1>1
  <1> QED
    BY <1>2, <1>3, <1>4 DEF ProcessEnds, LoopDies, TypeOK

LEMMA TypeInit == Init => TypeOK
  <1> SUFFICES ASSUME Init PROVE TypeOK
    OBVIOUS
  <1>1. StreamTypeOK
    <2>1. stream \in Seq(Payloads) /\ Len(stream) = 0
      BY DEF Init, LoopInit, StreamInit
    <2>2. /\ trimmed = 0 /\ lastDelivered = 0
          /\ pel = {} /\ owned = {} /\ acknowledged = {}
      BY DEF Init, LoopInit, StreamInit
    <2>3. groupExists \in BOOLEAN
      BY Zenon DEF Init, LoopInit, StreamInit
    <2> QED
      BY <2>1, <2>2, <2>3 DEF StreamTypeOK
  <1>2. latestState \in [Registered -> 0..Len(stream)]
    BY DEF Init, LoopInit, StreamInit
  <1>3. flight \in [Flushers -> Flights]
    BY NoFlightType DEF Init, LoopInit
  <1> QED
    BY <1>1, <1>2, <1>3 DEF Init, LoopInit, TypeOK

LEMMA TypeStep == TypeOK /\ [Next]_vars => TypeOK'
  <1> SUFFICES ASSUME TypeOK, [Next]_vars PROVE TypeOK'
    OBVIOUS
  <1>1. CASE UNCHANGED vars
    BY <1>1 DEF vars, streamVars, loopVars, bufferVars, dbVars, TypeOK, StreamTypeOK, Ids, Flights
  <1>2. CASE Publish
    <2>1. PICK p \in Payloads : XAdd(p)
      BY <1>2 DEF Publish
    <2>2. Ids \subseteq Ids' /\ Len(stream) <= Len(stream') /\ StreamTypeOK'
      BY <2>1, XAddGrows, XAddType DEF TypeOK, StreamTypeOK
    <2>3. Flights \subseteq Flights'
      BY <2>2 DEF Flights
    <2>4. UNCHANGED <<loopVars, bufferVars, flight, dbVars>>
      BY <1>2 DEF Publish
    <2>5. latestState' \in [Registered -> 0..Len(stream')]
      BY <2>1, <2>2, <2>4 DEF TypeOK, StreamTypeOK, dbVars
    <2> QED
      BY <2>2, <2>3, <2>4, <2>5 DEF TypeOK, loopVars, bufferVars, dbVars
  <1>3. CASE Start
    BY <1>3, EnsureGroupType, SameLog
       DEF Start, Ensure, EnsureGroup, TypeOK, bufferVars, dbVars
  <1>4. CASE Crash
    BY <1>4, ProcessEndsType DEF Crash, TypeOK, StreamTypeOK, streamVars, dbVars
  <1>5. CASE Signal
    <2>1. CASE ProcessEnds
      BY <1>5, <2>1, ProcessEndsType
         DEF Signal, StopLoop, TypeOK, StreamTypeOK, streamVars, dbVars
    <2>2. CASE ~ProcessEnds
      <3>1. stream' = stream /\ TakeBuffers("exit", {}) /\ "exit" \in Flushers
        BY <1>5, <2>2 DEF Signal, StopLoop, streamVars, Flushers
      <3>2. /\ flight' \in [Flushers -> Flights']
            /\ pointBuffer' = {} /\ stateBuffer' = {} /\ pendingAcks' = {}
        BY <3>1, TakeBuffersType
      <3> QED
        BY <1>5, <2>2, <3>1, <3>2, SameLog
           DEF Signal, StopLoop, TypeOK, StreamTypeOK, streamVars, dbVars
    <2> QED
      BY <2>1, <2>2
  <1>6. CASE ExitFlushed
    <2>1. flight["exit"].states \in SUBSET Ids
      BY DEF TypeOK, Flushers, Flights
    <2>2. latestState' \in [Registered -> 0..Len(stream)]
      BY <1>6, <2>1, UpsertRowsType DEF ExitFlushed, UpsertStates
    <2> QED
      BY <1>6, <2>2, ProcessEndsType
         DEF ExitFlushed, UpsertStates, TypeOK, StreamTypeOK, streamVars
  <1>7. CASE ExitUnflushed
    BY <1>7, ProcessEndsType DEF ExitUnflushed, TypeOK, StreamTypeOK, streamVars, dbVars
  <1>8. CASE ReadPending
    <2>1. PendingEntries \subseteq Ids
      BY PendingEntriesAreOwned DEF TypeOK, StreamTypeOK, Ids
    <2> QED
      BY <1>8, <2>1, SameLog
         DEF ReadPending, Recover, TypeOK, StreamTypeOK, streamVars, bufferVars, dbVars
  <1>24. CASE LoopEnds
    BY <1>24, SameLog
       DEF LoopEnds, EndLoop, TypeOK, StreamTypeOK, streamVars, bufferVars, dbVars
  <1>9. CASE ReadNew
    <2>1. StreamTypeOK' /\ stream' = stream /\ NewEntries \subseteq Ids
      BY <1>9, DeliverType, NewEntriesAreNew DEF ReadNew, Poll, TypeOK, Deliver
    <2> QED
      BY <1>9, <2>1, SameLog DEF ReadNew, Poll, TypeOK, bufferVars, dbVars
  <1>10. CASE FinishBatch
    <2>1. StreamTypeOK' /\ stream' = stream
      BY <1>10, XAckType DEF FinishBatch, Return, TypeOK, StreamTypeOK, streamVars, XAck
    <2> QED
      BY <1>10, <2>1, SameLog DEF FinishBatch, Return, NextRead, TypeOK, bufferVars, dbVars
  <1>11. CASE LoopFlushed
    <2>1. "loop" \in Flushers /\ flight["loop"] \in Flights
      BY DEF TypeOK, Flushers
    <2>2. flight["loop"].states \in SUBSET Ids /\ flight["loop"].acks \in SUBSET Ids
      BY <2>1 DEF Flights
    <2>3. latestState' \in [Registered -> 0..Len(stream)]
      BY <1>11, <2>2, UpsertRowsType DEF LoopFlushed, UpsertStates
    <2>4. flight' \in [Flushers -> Flights]
      BY <1>11, <2>1, NoFlightType DEF LoopFlushed, TypeOK
    <2> QED
      BY <1>11, <2>2, <2>3, <2>4, SameLog
         DEF LoopFlushed, UpsertStates, TypeOK, StreamTypeOK, streamVars, bufferVars
  <1>12. CASE LoopFlushFailed
    BY <1>12, NoFlightType, SameLog
       DEF LoopFlushFailed, TypeOK, StreamTypeOK, streamVars, bufferVars, dbVars
  <1>13. ASSUME NEW i \in batch, DropMalformed(i) PROVE TypeOK'
    BY <1>13, SameLog
       DEF DropMalformed, TypeOK, StreamTypeOK, streamVars, bufferVars, dbVars
  <1>14. ASSUME NEW i \in batch, RecordUnknown(i) PROVE TypeOK'
    BY <1>14, SameLog
       DEF RecordUnknown, TypeOK, StreamTypeOK, streamVars, bufferVars
  <1>15. ASSUME NEW i \in batch, BufferRow(i) PROVE TypeOK'
    <2>1. stream' = stream /\ i \in Ids /\ "loop" \in Flushers
      BY <1>15 DEF BufferRow, streamVars, TypeOK, Flushers
    <2>2. CASE TakeBuffers("loop", {i}) /\ pc' = "flushing"
      <3>1. /\ flight' \in [Flushers -> Flights']
            /\ pointBuffer' = {} /\ stateBuffer' = {} /\ pendingAcks' = {}
        BY <2>1, <2>2, TakeBuffersType
      <3> QED
        BY <1>15, <2>1, <2>2, <3>1, SameLog
           DEF BufferRow, TypeOK, StreamTypeOK, streamVars, dbVars
    <2>3. CASE ~(TakeBuffers("loop", {i}) /\ pc' = "flushing")
      BY <1>15, <2>1, <2>3, SameLog
         DEF BufferRow, TypeOK, StreamTypeOK, streamVars, dbVars
    <2> QED
      BY <2>2, <2>3
  <1>16. CASE ReadNewLost
    <2>1. StreamTypeOK' /\ stream' = stream
      BY <1>16, DeliverType DEF ReadNewLost, PollLost, TypeOK, Deliver
    <2> QED
      BY <1>16, <2>1, SameLog
         DEF ReadNewLost, PollLost, TypeOK, loopVars, bufferVars, dbVars
  <1>17. ASSUME NEW i \in batch, ResolveThrows(i) PROVE TypeOK'
    BY <1>17, SameLog
       DEF ResolveThrows, NextRead, TypeOK, StreamTypeOK, streamVars, bufferVars, dbVars
  <1>18. ASSUME NEW f \in Flushers, SavePoints(f) PROVE TypeOK'
    <2>1. flight[f] \in Flights
      BY <1>18 DEF TypeOK
    <2>2. flight' \in [Flushers -> Flights]
      BY <1>18, <2>1 DEF SavePoints, TypeOK, Flights
    <2>3. gpsPoints' \subseteq Payloads
      BY <1>18, <2>1, InsertPointsType DEF SavePoints, Flights
    <2> QED
      BY <1>18, <2>2, <2>3, SameLog
         DEF SavePoints, TypeOK, StreamTypeOK, streamVars, loopVars, bufferVars
  <1>19. ASSUME NEW f \in Flushers, FlushFails(f) PROVE TypeOK'
    <2>1. flight[f] \in Flights
      BY DEF TypeOK
    <2>2. /\ flight[f].points \in SUBSET Ids
          /\ flight[f].states \in SUBSET Ids
          /\ flight[f].acks \in SUBSET Ids
      BY <2>1 DEF Flights
    <2>3. stream' = stream /\ StreamTypeOK'
      BY <1>19 DEF FlushFails, streamVars, TypeOK, StreamTypeOK
    <2>4. flight' \in [Flushers -> Flights]
      BY <1>19, NoFlightType DEF FlushFails, TypeOK, NoFlight, Flights
    <2>5. gpsPoints' \subseteq Payloads
      BY <1>19, <2>2, InsertPointsType DEF FlushFails, TypeOK
    <2>6. latestState' \in [Registered -> 0..Len(stream)]
      BY <1>19, <2>2, UpsertRowsType DEF FlushFails, TypeOK
    <2>7. /\ pointBuffer' \subseteq Ids /\ stateBuffer' \subseteq Ids
          /\ pendingAcks' \subseteq Ids
      BY <1>19, <2>2 DEF FlushFails, Requeue, TypeOK
    <2> QED
      BY <1>19, <2>3, <2>4, <2>5, <2>6, <2>7, SameLog DEF FlushFails, loopVars, TypeOK
  <1>20. ASSUME NEW t \in Timers, TimerFlush(t) PROVE TypeOK'
    <2>1. stream' = stream /\ t \in Flushers
      BY <1>20 DEF TimerFlush, streamVars, Flushers
    <2>2. /\ flight' \in [Flushers -> Flights']
          /\ pointBuffer' = {} /\ stateBuffer' = {} /\ pendingAcks' = {}
      BY <1>20, <2>1, TakeBuffersType DEF TimerFlush
    <2> QED
      BY <1>20, <2>1, <2>2, SameLog
         DEF TimerFlush, TypeOK, StreamTypeOK, streamVars, loopVars, dbVars
  <1>21. ASSUME NEW t \in Timers, TimerFlushed(t) PROVE TypeOK'
    <2>1. t \in Flushers /\ flight[t] \in Flights
      BY DEF TypeOK, Flushers
    <2>2. flight[t].states \in SUBSET Ids /\ flight[t].acks \in SUBSET Ids
      BY <2>1 DEF Flights
    <2>3. latestState' \in [Registered -> 0..Len(stream)]
      BY <1>21, <2>2, UpsertRowsType DEF TimerFlushed, UpsertStates
    <2>4. flight' \in [Flushers -> Flights]
      BY <1>21, <2>1, <2>2 DEF TimerFlushed, TypeOK, NoFlight, Flights
    <2> QED
      BY <1>21, <2>3, <2>4, SameLog
         DEF TimerFlushed, UpsertStates, TypeOK, StreamTypeOK, streamVars, loopVars, bufferVars
  <1>22. ASSUME NEW t \in Timers, TimerFlushFailed(t) PROVE TypeOK'
    BY <1>22, NoFlightType, SameLog
       DEF TimerFlushFailed, TypeOK, StreamTypeOK, streamVars, loopVars, bufferVars, dbVars
  <1>23. ASSUME NEW t \in Timers, TimerXAck(t) PROVE TypeOK'
    <2>1. StreamTypeOK' /\ stream' = stream
      BY <1>23, XAckType DEF TimerXAck, TypeOK, StreamTypeOK, streamVars, XAck
    <2> QED
      BY <1>23, <2>1, NoFlightType, SameLog
         DEF TimerXAck, TypeOK, loopVars, bufferVars, dbVars
  <1> QED
    BY <1>1, <1>2, <1>3, <1>4, <1>5, <1>6, <1>7, <1>8, <1>9, <1>10, <1>11, <1>12, <1>13,
       <1>14, <1>15, <1>16, <1>17, <1>18, <1>19, <1>20, <1>21, <1>22, <1>23, <1>24
       DEF Next, LoopStep

(* Every variable keeps its type, whatever the interleaving and faults. *)
THEOREM TypeCorrect == Spec => []TypeOK
  BY TypeInit, TypeStep, PTL DEF Spec

-----------------------------------------------------------------------------
(* The arrays of the flush go together *)

LEMMA TakeBuffersAligned ==
    ASSUME TypeOK, BuffersAligned, NEW f \in Flushers, NEW added, TakeBuffers(f, added)
    PROVE  BuffersAligned'
  BY DEF TypeOK, BuffersAligned, Aligned, TakeBuffers

(* pointBuffer, stateBuffer and pendingAcks are pushed to, taken and put   *)
(* back together.                                                          *)
LEMMA AlignedStep ==
    ASSUME TypeOK, BuffersAligned, [Next]_vars
    PROVE  BuffersAligned'
  <1> USE DEF BuffersAligned, Aligned
  <1>1. CASE UNCHANGED <<bufferVars, flight>>
    BY <1>1 DEF bufferVars
  <1>2. CASE ProcessEnds
    BY <1>2 DEF ProcessEnds, LoopDies, NoFlight
  <1>3. ASSUME NEW f \in Flushers, NEW added, TakeBuffers(f, added)
        PROVE  BuffersAligned'
    BY <1>3, TakeBuffersAligned
  <1>4. CASE Signal
    BY <1>2, <1>3, <1>4 DEF Signal, StopLoop, Flushers
  <1>5. ASSUME NEW i \in batch, BufferRow(i) PROVE BuffersAligned'
    <2>1. CASE UNCHANGED flight
      BY <1>5, <2>1, <1>3 DEF BufferRow, Flushers
    <2>2. CASE TakeBuffers("loop", {i})
      BY <2>2, <1>3 DEF Flushers
    <2> QED
      BY <1>5, <2>1, <2>2 DEF BufferRow
  <1>6. ASSUME NEW f \in Flushers, SavePoints(f) PROVE BuffersAligned'
    BY <1>6 DEF SavePoints, bufferVars, TypeOK, Flights
  <1>7. ASSUME NEW f \in Flushers, FlushFails(f) PROVE BuffersAligned'
    BY <1>7 DEF FlushFails, Requeue, NoFlight, TypeOK, Flights
  <1>8. CASE LoopFlushed \/ LoopFlushFailed
    BY <1>8 DEF LoopFlushed, LoopFlushFailed, bufferVars, NoFlight, TypeOK
  <1>9. ASSUME NEW t \in Timers, TimerFlush(t) PROVE BuffersAligned'
    BY <1>3, <1>9 DEF TimerFlush, Flushers
  <1>10. ASSUME NEW t \in Timers, TimerFlushed(t) PROVE BuffersAligned'
    BY <1>10 DEF TimerFlushed, bufferVars, NoFlight, TypeOK
  <1>11. ASSUME NEW t \in Timers, TimerFlushFailed(t) \/ TimerXAck(t) PROVE BuffersAligned'
    BY <1>11 DEF TimerFlushFailed, TimerXAck, bufferVars, NoFlight, TypeOK
  <1> QED
    BY <1>1, <1>2, <1>4, <1>5, <1>6, <1>7, <1>8, <1>9, <1>10, <1>11
       DEF Next, LoopStep, vars, Publish, Start, Ensure, Crash, ExitFlushed, ExitUnflushed,
           ReadPending, Recover, ReadNew, Poll, LoopEnds, EndLoop, ReadNewLost, PollLost,
           FinishBatch, Return, DropMalformed, RecordUnknown, ResolveThrows

-----------------------------------------------------------------------------
(* Every entry is held in one place *)

(* Taking the buffer moves its rows, and the one just read, to the caller. *)
LEMMA TakeBuffersOnePlace ==
    ASSUME TypeOK, OnePlace, NEW f \in Flushers, NEW added \in SUBSET batch,
           TakeBuffers(f, added), batch' = batch \ added,
           UNCHANGED <<acked, owned>>, pc' \notin {"down", "starting"}
    PROVE  OnePlace'
  <1>1. \A g \in Flushers : flight'[g].acks =
            IF g = f THEN pendingAcks \cup added ELSE flight[g].acks
    BY DEF TakeBuffers, TypeOK
  <1>2. pendingAcks' = {}
    BY DEF TakeBuffers
  <1> QED
    BY <1>1, <1>2 DEF OnePlace

LEMMA OnePlaceStep ==
    ASSUME TypeOK, OnePlace, BuffersAligned, [Next]_vars
    PROVE  OnePlace'
  <1> USE DEF OnePlace
  <1>1. CASE UNCHANGED <<pc, batch, acked, pendingAcks, flight, owned>>
    BY <1>1
  <1>2. ASSUME ProcessEnds, owned' = owned PROVE OnePlace'
    BY <1>2 DEF ProcessEnds, LoopDies, NoFlight
  <1>3. CASE Start
    BY <1>3 DEF Start, Ensure, EnsureGroup, bufferVars
  <1>4. CASE Crash \/ ExitFlushed \/ ExitUnflushed
    BY <1>2, <1>4 DEF Crash, ExitFlushed, ExitUnflushed, streamVars
  <1>5. CASE Signal
    <2>1. CASE ProcessEnds
      BY <1>2, <1>5, <2>1 DEF Signal, StopLoop, streamVars
    <2>2. CASE ~ProcessEnds
      <3>1. /\ TakeBuffers("exit", {}) /\ "exit" \in Flushers
            /\ UNCHANGED <<pc, batch, acked, owned>>
            /\ ~(pointBuffer = {} /\ stateBuffer = {})
        BY <1>5, <2>2 DEF Signal, StopLoop, streamVars, Flushers
      <3>2. pc \notin {"down", "starting"}
        BY <3>1 DEF BuffersAligned
      <3> QED
        BY <3>1, <3>2, TakeBuffersOnePlace
    <2> QED
      BY <2>1, <2>2
  <1>6. CASE ReadPending \/ LoopEnds
    BY <1>6, PendingEntriesAreOwned
       DEF ReadPending, Recover, LoopEnds, EndLoop, streamVars, bufferVars
  <1>7. CASE ReadNew \/ ReadNewLost
    <2>1. NewEntries \cap owned = {}
      <3> SUFFICES ASSUME NEW i \in NewEntries, i \in owned PROVE FALSE
        OBVIOUS
      <3>1. i \in Ids /\ i > lastDelivered
        BY NewEntriesAreNew
      <3>2. i \in 1..lastDelivered /\ lastDelivered \in Int
        BY DEF TypeOK, StreamTypeOK
      <3> QED
        BY <3>1, <3>2
    <2>2. /\ owned' = owned \cup NewEntries
          /\ UNCHANGED <<acked, pendingAcks, flight>>
          /\ \/ batch' = NewEntries /\ pc' = "batch"
             \/ batch' = batch /\ pc' = pc
      BY <1>7 DEF ReadNew, Poll, ReadNewLost, PollLost, Deliver, loopVars, bufferVars
    <2> QED
      BY <2>1, <2>2
  <1>8. CASE FinishBatch
    <2>1. /\ \/ owned' = owned \ acked
             \/ owned' = owned
          /\ batch' = {} /\ acked' = {}
          /\ UNCHANGED <<pendingAcks, flight>>
          /\ pc' \notin {"down", "starting"}
      BY <1>8 DEF FinishBatch, Return, NextRead, XAck, streamVars, bufferVars
    <2> QED
      BY <2>1
  <1>9. ASSUME NEW i \in batch, DropMalformed(i) \/ RecordUnknown(i) PROVE OnePlace'
    BY <1>9 DEF DropMalformed, RecordUnknown, AtEntry, streamVars, bufferVars
  <1>10. ASSUME NEW i \in batch, BufferRow(i) PROVE OnePlace'
    <2>1. /\ batch' = batch \ {i} /\ UNCHANGED <<acked, owned>>
          /\ pc = "batch"
      BY <1>10 DEF BufferRow, AtEntry, streamVars
    <2>2. CASE TakeBuffers("loop", {i}) /\ pc' = "flushing"
      BY <2>1, <2>2, TakeBuffersOnePlace DEF Flushers
    <2>3. CASE pendingAcks' = pendingAcks \cup {i} /\ UNCHANGED <<pc, flight>>
      BY <2>1, <2>3
    <2> QED
      BY <1>10, <2>2, <2>3 DEF BufferRow
  <1>11. ASSUME NEW i \in batch, ResolveThrows(i) PROVE OnePlace'
    BY <1>11 DEF ResolveThrows, NextRead, streamVars, bufferVars
  <1>12. ASSUME NEW f \in Flushers, SavePoints(f) PROVE OnePlace'
    <2>1. \A g \in Flushers : flight'[g].acks = flight[g].acks
      BY <1>12 DEF SavePoints, TypeOK, Flights
    <2> QED
      BY <1>12, <2>1 DEF SavePoints, streamVars, loopVars, bufferVars
  <1>13. ASSUME NEW f \in Flushers, FlushFails(f) PROVE OnePlace'
    <2>1. \A g \in Flushers : flight'[g].acks = IF g = f THEN {} ELSE flight[g].acks
      BY <1>13 DEF FlushFails, Requeue, TypeOK, NoFlight
    <2>2. /\ pendingAcks' = flight[f].acks \cup pendingAcks
          /\ UNCHANGED <<pc, batch, acked, owned>>
      BY <1>13 DEF FlushFails, Requeue, streamVars, loopVars
    <2> QED
      BY <2>1, <2>2
  <1>14. CASE LoopFlushed \/ LoopFlushFailed
    <2>0. flight' = [flight EXCEPT !["loop"] = NoFlight]
      BY <1>14 DEF LoopFlushed, LoopFlushFailed
    <2>1. \A g \in Flushers : flight'[g].acks = IF g = "loop" THEN {} ELSE flight[g].acks
      BY <2>0 DEF TypeOK, NoFlight
    <2>2. /\ \/ acked' = acked \cup flight["loop"].acks
             \/ acked' = acked
          /\ "loop" \in Flushers
          /\ pc' = "batch" /\ UNCHANGED <<batch, pendingAcks, owned>>
      BY <1>14 DEF LoopFlushed, LoopFlushFailed, streamVars, bufferVars, Flushers
    <2> QED
      BY <2>1, <2>2
  <1>15. ASSUME NEW t \in Timers, TimerFlush(t) PROVE OnePlace'
    <2>1. /\ TakeBuffers(t, {}) /\ t \in Flushers
          /\ UNCHANGED <<pc, batch, acked, owned>>
          /\ ~(pointBuffer = {} /\ stateBuffer = {})
      BY <1>15 DEF TimerFlush, streamVars, loopVars, Flushers
    <2>2. pc \notin {"down", "starting"}
      BY <2>1 DEF BuffersAligned
    <2> QED
      BY <2>1, <2>2, TakeBuffersOnePlace
  <1>16. ASSUME NEW t \in Timers, TimerFlushed(t) PROVE OnePlace'
    <2>1. \A g \in Flushers : flight'[g].acks = flight[g].acks
      BY <1>16 DEF TimerFlushed, TypeOK, NoFlight, Flushers
    <2> QED
      BY <1>16, <2>1 DEF TimerFlushed, streamVars, loopVars, bufferVars
  <1>17. ASSUME NEW t \in Timers, TimerFlushFailed(t) \/ TimerXAck(t) PROVE OnePlace'
    <2>0. flight' = [flight EXCEPT ![t] = NoFlight]
      BY <1>17 DEF TimerFlushFailed, TimerXAck
    <2>1. \A g \in Flushers : flight'[g].acks = IF g = t THEN {} ELSE flight[g].acks
      BY <2>0 DEF TypeOK, NoFlight
    <2>2. /\ owned' = owned \ flight[t].acks \/ owned' = owned
          /\ t \in Flushers
          /\ UNCHANGED <<pc, batch, acked, pendingAcks>>
      BY <1>17 DEF TimerFlushFailed, TimerXAck, XAck, streamVars, loopVars, bufferVars, Flushers
    <2> QED
      BY <2>1, <2>2
  <1>18. CASE Publish \/ UNCHANGED vars
    BY <1>1, <1>18 DEF Publish, XAdd, vars, streamVars, loopVars, bufferVars
  <1> QED
    BY <1>3, <1>4, <1>5, <1>6, <1>7, <1>8, <1>9, <1>10, <1>11, <1>12, <1>13, <1>14, <1>15,
       <1>16, <1>17, <1>18 DEF Next, LoopStep

-----------------------------------------------------------------------------
(* The log and the tables only grow *)

LEMMA LogStable ==
    ASSUME TypeOK, [Next]_vars
    PROVE  \A i \in Ids : i \in Ids' /\ stream'[i] = stream[i]
  <1>1. CASE Publish
    BY <1>1, XAddGrows DEF Publish, TypeOK
  <1>2. CASE stream' = stream
    BY <1>2 DEF Ids
  <1> QED
    BY <1>1, <1>2
       DEF Next, LoopStep, vars, streamVars, Start, Ensure, EnsureGroup, Crash, Signal,
           StopLoop, ExitFlushed, ExitUnflushed, ReadPending, Recover, LoopEnds, EndLoop,
           ReadNew, Poll, ReadNewLost, PollLost, Deliver, FinishBatch, Return, XAck,
           DropMalformed, RecordUnknown, BufferRow, ResolveThrows, LoopFlushed,
           LoopFlushFailed, SavePoints, FlushFails, TimerFlush, TimerFlushed,
           TimerFlushFailed, TimerXAck

(* The second statement of a flush is the only step that changes           *)
(* vehicle_latest_state, and it writes rows that are in flight.            *)
LEMMA LatestStep ==
    ASSUME TypeOK, [Next]_vars
    PROVE  \/ latestState' = latestState
           \/ \E f \in Flushers : flight[f].phase = "states" /\ UpsertRows(flight[f].states)
  <1>1. CASE latestState' = latestState
    BY <1>1
  <1>2. ASSUME NEW f \in Flushers, UpsertStates(f)
        PROVE  flight[f].phase = "states" /\ UpsertRows(flight[f].states)
    BY <1>2 DEF UpsertStates
  <1>3. CASE LoopFlushed \/ ExitFlushed
    BY <1>2, <1>3 DEF LoopFlushed, ExitFlushed, Flushers
  <1>4. ASSUME NEW t \in Timers, TimerFlushed(t)
        PROVE  \E f \in Flushers : flight[f].phase = "states" /\ UpsertRows(flight[f].states)
    BY <1>2, <1>4 DEF TimerFlushed, Flushers
  <1>5. ASSUME NEW f \in Flushers, FlushFails(f)
        PROVE  \/ latestState' = latestState
               \/ flight[f].phase = "states" /\ UpsertRows(flight[f].states)
    BY <1>5 DEF FlushFails
  <1> QED
    BY <1>1, <1>3, <1>4, <1>5
       DEF Next, LoopStep, vars, dbVars, Publish, Start, Ensure, Crash, Signal, StopLoop,
           ExitUnflushed, ReadPending, Recover, ReadNew, Poll, LoopEnds, EndLoop,
           ReadNewLost, PollLost, FinishBatch, Return, DropMalformed, RecordUnknown,
           BufferRow, ResolveThrows, LoopFlushFailed, SavePoints, TimerFlush,
           TimerFlushFailed, TimerXAck

(* The first statement is the only one that changes gps_points. *)
LEMMA GpsStep ==
    ASSUME TypeOK, [Next]_vars
    PROVE  \/ gpsPoints' = gpsPoints
           \/ \E f \in Flushers : flight[f].phase = "points" /\ InsertPoints(flight[f].points)
  <1>1. CASE gpsPoints' = gpsPoints
    BY <1>1
  <1>2. ASSUME NEW f \in Flushers, SavePoints(f) \/ FlushFails(f)
        PROVE  \/ gpsPoints' = gpsPoints
               \/ flight[f].phase = "points" /\ InsertPoints(flight[f].points)
    BY <1>2 DEF SavePoints, FlushFails
  <1> QED
    BY <1>1, <1>2
       DEF Next, LoopStep, vars, dbVars, Publish, Start, Ensure, Crash, Signal, StopLoop,
           ExitFlushed, ExitUnflushed, ReadPending, Recover, LoopEnds, EndLoop, ReadNew,
           Poll, ReadNewLost, PollLost, FinishBatch, Return, DropMalformed, RecordUnknown,
           BufferRow, ResolveThrows, LoopFlushed, LoopFlushFailed, TimerFlush,
           TimerFlushed, TimerFlushFailed, TimerXAck, UpsertStates

LEMMA GpsGrows ==
    ASSUME TypeOK, [Next]_vars
    PROVE  gpsPoints \subseteq gpsPoints'
  BY GpsStep DEF InsertPoints

(* A row of the upsert is the entry of its vehicle that it writes. *)
LEMMA UpsertedRow ==
    ASSUME NEW ids, UpsertRows(ids), NEW v \in Registered
    PROVE  \/ latestState'[v] = latestState[v]
           \/ latestState'[v] \in ids /\ stream[latestState'[v]].imei = v
  BY DEF UpsertRows

LEMMA LatestGrows ==
    ASSUME TypeOK, [Next]_vars
    PROVE  \A v \in Registered : latestState[v] # 0 => latestState'[v] # 0
  <1>1. CASE latestState' = latestState
    BY <1>1
  <1>2. ASSUME NEW f \in Flushers, UpsertRows(flight[f].states)
        PROVE  \A v \in Registered : latestState[v] # 0 => latestState'[v] # 0
    <2>1. flight[f].states \subseteq Ids
      BY DEF TypeOK, Flights
    <2>2. 0 \notin Ids
      BY DEF TypeOK, StreamTypeOK, Ids
    <2> QED
      BY <1>2, <2>1, <2>2, UpsertedRow
  <1> QED
    BY <1>1, <1>2, LatestStep

(* What has settled stays settled. *)
LEMMA SettledStable ==
    ASSUME TypeOK, [Next]_vars, NEW i \in Ids, Settled(i)
    PROVE  Settled(i)'
  <1>1. stream'[i] = stream[i]
    BY LogStable
  <1>2. stream[i] \in Points => stream[i].imei \in Registered
    BY DEF Points
  <1> QED
    BY <1>1, <1>2, GpsGrows, LatestGrows DEF Settled

-----------------------------------------------------------------------------
(* Only rows of known vehicles are buffered *)

LEMMA TakeBuffersKnown ==
    ASSUME TypeOK, RowsKnown, stream' = stream, gpsPoints' = gpsPoints,
           NEW f \in Flushers, NEW added, \A i \in added : stream[i] \in Points,
           TakeBuffers(f, added)
    PROVE  RowsKnown'
  <1>1. \A g \in Flushers : flight'[g].acks =
            IF g = f THEN pendingAcks \cup added ELSE flight[g].acks
    BY DEF TakeBuffers, TypeOK
  <1> QED
    BY <1>1 DEF RowsKnown, TakeBuffers

LEMMA RowsKnownStep ==
    ASSUME TypeOK, BuffersAligned, RowsKnown, [Next]_vars
    PROVE  RowsKnown'
  <1> USE DEF RowsKnown
  <1>1. CASE UNCHANGED <<pendingAcks, flight, gpsPoints>>
    <2>1. \A i \in pendingAcks : i \in Ids
      BY DEF TypeOK
    <2>2. \A f \in Flushers : \A i \in flight[f].acks : i \in Ids
      BY DEF TypeOK, Flights
    <2> QED
      BY <1>1, <2>1, <2>2, LogStable
  <1>2. ASSUME ProcessEnds, gpsPoints' = gpsPoints PROVE RowsKnown'
    BY <1>2 DEF ProcessEnds, LoopDies, NoFlight
  <1>3. CASE Crash \/ ExitFlushed \/ ExitUnflushed
    BY <1>2, <1>3 DEF Crash, ExitFlushed, UpsertStates, ExitUnflushed, dbVars
  <1>4. CASE Signal
    BY <1>2, <1>4, TakeBuffersKnown DEF Signal, StopLoop, Flushers, dbVars, streamVars
  <1>5. ASSUME NEW i \in batch, BufferRow(i) PROVE RowsKnown'
    <2>1. stream[i] \in Points /\ stream' = stream /\ gpsPoints' = gpsPoints
      BY <1>5 DEF BufferRow, streamVars, dbVars
    <2>2. CASE TakeBuffers("loop", {i})
      BY <2>1, <2>2, TakeBuffersKnown DEF Flushers
    <2>3. CASE pendingAcks' = pendingAcks \cup {i} /\ UNCHANGED <<pc, flight>>
      BY <2>1, <2>3
    <2> QED
      BY <1>5, <2>2, <2>3 DEF BufferRow
  <1>6. ASSUME NEW f \in Flushers, SavePoints(f) PROVE RowsKnown'
    <2>1. \A g \in Flushers : flight'[g].acks = flight[g].acks
      BY <1>6 DEF SavePoints, TypeOK, Flights
    <2>2. \A i \in flight[f].points : stream[i] \in Points
      BY <1>6 DEF SavePoints, BuffersAligned, Aligned
    <2> QED
      BY <1>6, <2>1, <2>2 DEF SavePoints, InsertPoints, streamVars, bufferVars
  <1>7. ASSUME NEW f \in Flushers, FlushFails(f) PROVE RowsKnown'
    <2>1. \A g \in Flushers : flight'[g].acks = IF g = f THEN {} ELSE flight[g].acks
      BY <1>7 DEF FlushFails, Requeue, TypeOK, NoFlight
    <2>2. pendingAcks' = flight[f].acks \cup pendingAcks /\ stream' = stream
      BY <1>7 DEF FlushFails, Requeue, streamVars
    <2>3. gpsPoints' \subseteq gpsPoints \cup {stream[i] : i \in flight[f].acks}
      BY <1>7 DEF FlushFails, InsertPoints, BuffersAligned, Aligned
    <2> QED
      BY <2>1, <2>2, <2>3
  <1>8. CASE LoopFlushed \/ LoopFlushFailed
    <2>1. flight' = [flight EXCEPT !["loop"] = NoFlight]
      BY <1>8 DEF LoopFlushed, LoopFlushFailed
    <2>2. \A g \in Flushers : flight'[g].acks \subseteq flight[g].acks
      BY <2>1 DEF TypeOK, NoFlight
    <2>3. UNCHANGED <<stream, pendingAcks, gpsPoints>>
      BY <1>8 DEF LoopFlushed, LoopFlushFailed, UpsertStates, streamVars, bufferVars, dbVars
    <2> QED
      BY <2>2, <2>3
  <1>9. ASSUME NEW t \in Timers, TimerFlush(t) PROVE RowsKnown'
    BY <1>9, TakeBuffersKnown DEF TimerFlush, Flushers, streamVars, dbVars
  <1>10. ASSUME NEW t \in Timers, TimerFlushed(t) PROVE RowsKnown'
    <2>1. \A g \in Flushers : flight'[g].acks = flight[g].acks
      BY <1>10 DEF TimerFlushed, TypeOK, NoFlight, Flushers
    <2> QED
      BY <1>10, <2>1 DEF TimerFlushed, UpsertStates, streamVars, bufferVars
  <1>11. ASSUME NEW t \in Timers, TimerFlushFailed(t) \/ TimerXAck(t) PROVE RowsKnown'
    <2>1. flight' = [flight EXCEPT ![t] = NoFlight]
      BY <1>11 DEF TimerFlushFailed, TimerXAck
    <2>2. \A g \in Flushers : flight'[g].acks \subseteq flight[g].acks
      BY <2>1 DEF TypeOK, NoFlight
    <2>3. UNCHANGED <<stream, pendingAcks, gpsPoints>>
      BY <1>11 DEF TimerFlushFailed, TimerXAck, XAck, streamVars, bufferVars, dbVars
    <2> QED
      BY <2>2, <2>3
  <1> QED
    BY <1>1, <1>3, <1>4, <1>5, <1>6, <1>7, <1>8, <1>9, <1>10, <1>11
       DEF Next, LoopStep, vars, bufferVars, dbVars, Publish, Start, Ensure, ReadPending,
           Recover, LoopEnds, EndLoop, ReadNew, Poll, ReadNewLost, PollLost, FinishBatch,
           Return, DropMalformed, RecordUnknown, ResolveThrows

-----------------------------------------------------------------------------
(* A flush is as far as its phase says *)

(* After a successful second statement the entries of f have settled. *)
LEMMA UpsertSettles ==
    ASSUME TypeOK, BuffersAligned, RowsKnown, Progress, NEW f \in Flushers, UpsertStates(f),
           stream' = stream
    PROVE  \A i \in flight[f].acks : Settled(i)'
  <1> SUFFICES ASSUME NEW i \in flight[f].acks PROVE Settled(i)'
    OBVIOUS
  <1>1. flight[f].states = flight[f].acks /\ stream[i] \in gpsPoints
    BY DEF UpsertStates, BuffersAligned, Aligned, Progress
  <1>2. stream[i].imei \in Registered
    BY DEF RowsKnown, Points
  <1>3. flight[f].acks \subseteq Ids /\ 0 \notin Ids
    BY DEF TypeOK, Flights, StreamTypeOK, Ids
  <1>4. latestState'[stream[i].imei] \in flight[f].acks
    BY <1>1, <1>2 DEF UpsertStates, UpsertRows
  <1> QED
    BY <1>1, <1>3, <1>4 DEF Settled, UpsertStates

LEMMA ProgressStep ==
    ASSUME TypeOK, BuffersAligned, RowsKnown, Progress, [Next]_vars
    PROVE  Progress'
  <1> SUFFICES ASSUME NEW f \in Flushers, NEW i \in flight'[f].acks
               PROVE  /\ flight'[f].phase = "states" => stream'[i] \in gpsPoints'
                      /\ flight'[f].phase = "xack" => Settled(i)'
    BY DEF Progress
  <1> DEFINE Goal == /\ flight'[f].phase = "states" => stream'[i] \in gpsPoints'
                     /\ flight'[f].phase = "xack" => Settled(i)'
  <1>1. CASE flight'[f] = flight[f]
    <2>1. i \in Ids
      BY <1>1 DEF TypeOK, Flights
    <2> QED
      BY <1>1, <2>1, LogStable, GpsGrows, SettledStable DEF Progress
  <1>2. CASE flight'[f].phase \notin {"states", "xack"}
    BY <1>2
  <1>3. ASSUME NEW g \in Flushers, SavePoints(g) PROVE Goal
    <2>1. CASE g = f
      <3>1. flight'[f].phase = "states" /\ i \in flight[f].points /\ stream' = stream
        BY <1>3, <2>1 DEF SavePoints, TypeOK, Flights, BuffersAligned, Aligned, streamVars
      <3> QED
        BY <1>3, <2>1, <3>1 DEF SavePoints, InsertPoints
    <2>2. CASE g # f
      BY <1>1, <1>3, <2>2 DEF SavePoints, TypeOK
    <2> QED
      BY <2>1, <2>2
  <1>4. ASSUME NEW t \in Timers, TimerFlushed(t) PROVE Goal
    <2>1. CASE t = f
      <3>1. flight'[f].phase = "xack" /\ i \in flight[f].acks /\ stream' = stream
        BY <1>4, <2>1 DEF TimerFlushed, TypeOK, NoFlight, streamVars
      <3> QED
        BY <1>4, <2>1, <3>1, UpsertSettles DEF TimerFlushed
    <2>2. CASE t # f
      BY <1>1, <1>4, <2>2 DEF TimerFlushed, TypeOK
    <2> QED
      BY <2>1, <2>2
  <1>5. ASSUME NEW g \in Flushers, NEW new, new.phase \notin {"states", "xack"},
               flight' = [flight EXCEPT ![g] = new]
        PROVE  Goal
    BY <1>1, <1>2, <1>5 DEF TypeOK
  <1>6. ASSUME NEW g \in Flushers, NEW added, TakeBuffers(g, added) PROVE Goal
    BY <1>5, <1>6 DEF TakeBuffers
  <1>7. CASE ProcessEnds
    BY <1>2, <1>7 DEF ProcessEnds, LoopDies, NoFlight
  <1>8. CASE Signal
    BY <1>6, <1>7, <1>8 DEF Signal, StopLoop, Flushers
  <1>9. ASSUME NEW j \in batch, BufferRow(j) PROVE Goal
    BY <1>1, <1>6, <1>9 DEF BufferRow, Flushers
  <1>10. ASSUME NEW g \in Flushers, FlushFails(g) PROVE Goal
    BY <1>5, <1>10 DEF FlushFails, NoFlight
  <1>11. CASE LoopFlushed \/ LoopFlushFailed
    BY <1>5, <1>11 DEF LoopFlushed, LoopFlushFailed, NoFlight, Flushers
  <1>12. ASSUME NEW t \in Timers, TimerFlush(t) \/ TimerFlushFailed(t) \/ TimerXAck(t)
         PROVE  Goal
    BY <1>5, <1>6, <1>12 DEF TimerFlush, TimerFlushFailed, TimerXAck, NoFlight, Flushers
  <1> QED
    BY <1>1, <1>3, <1>4, <1>7, <1>8, <1>9, <1>10, <1>11, <1>12
       DEF Next, LoopStep, vars, Publish, Start, Ensure, Crash, ExitFlushed, ExitUnflushed,
           ReadPending, Recover, ReadNew, Poll, LoopEnds, EndLoop, ReadNewLost, PollLost,
           FinishBatch, Return, DropMalformed, RecordUnknown, ResolveThrows

-----------------------------------------------------------------------------
(* What the loop is about to XACK has settled *)

LEMMA AckedSettledStep ==
    ASSUME TypeOK, BuffersAligned, RowsKnown, Progress, AckedSettled, [Next]_vars
    PROVE  AckedSettled'
  <1>1. \A i \in acked : Settled(i)'
    BY SettledStable DEF AckedSettled, TypeOK
  <1>2. CASE acked' \subseteq acked
    BY <1>1, <1>2 DEF AckedSettled
  <1>3. ASSUME NEW i \in batch, DropMalformed(i) \/ RecordUnknown(i)
        PROVE  AckedSettled'
    <2>1. acked' = acked \cup {i} /\ stream' = stream
      BY <1>3 DEF DropMalformed, RecordUnknown, streamVars
    <2>2. stream[i] \notin Points
      BY <1>3, WriterAssumption DEF DropMalformed, RecordUnknown, Points
    <2> QED
      BY <1>1, <2>1, <2>2 DEF AckedSettled, Settled
  <1>4. CASE LoopFlushed
    <2>1. \A i \in flight["loop"].acks : Settled(i)'
      BY <1>4, UpsertSettles DEF LoopFlushed, Flushers, streamVars
    <2> QED
      BY <1>1, <1>4, <2>1 DEF LoopFlushed, AckedSettled
  <1>5. ASSUME ProcessEnds \/ NextRead PROVE acked' = {}
    BY <1>5 DEF ProcessEnds, LoopDies, NextRead
  <1>6. CASE Crash \/ Signal \/ ExitFlushed \/ ExitUnflushed \/ FinishBatch
    BY <1>2, <1>5, <1>6
       DEF Crash, Signal, StopLoop, ExitFlushed, ExitUnflushed, FinishBatch, Return
  <1>7. ASSUME NEW i \in batch, ResolveThrows(i) PROVE AckedSettled'
    BY <1>2, <1>5, <1>7 DEF ResolveThrows
  <1>8. CASE acked' = acked
    BY <1>2, <1>8
  <1> QED
    BY <1>3, <1>4, <1>6, <1>7, <1>8
       DEF Next, LoopStep, vars, loopVars, Publish, Start, Ensure, ReadPending, Recover,
           LoopEnds, EndLoop, ReadNew, Poll, ReadNewLost, PollLost, BufferRow,
           LoopFlushFailed, SavePoints, FlushFails, TimerFlush, TimerFlushed,
           TimerFlushFailed, TimerXAck

(* An XACK is of entries that the loop or a timer knows to be settled. *)
LEMMA XAckStep ==
    ASSUME TypeOK, [Next]_vars
    PROVE  \/ UNCHANGED acknowledged
           \/ XAck(acked)
           \/ \E t \in Timers : flight[t].phase = "xack" /\ XAck(flight[t].acks)
  <1>1. ASSUME NEW t \in Timers, TimerXAck(t)
        PROVE  \/ UNCHANGED streamVars
               \/ flight[t].phase = "xack" /\ XAck(flight[t].acks)
    BY <1>1 DEF TimerXAck
  <1> QED
    BY <1>1
       DEF Next, LoopStep, vars, streamVars, Publish, XAdd, Start, Ensure, EnsureGroup,
           ReadNew, Poll, ReadNewLost, PollLost, Deliver, Crash, Signal, StopLoop,
           ExitFlushed, ExitUnflushed, ReadPending, Recover, LoopEnds, EndLoop,
           FinishBatch, Return, DropMalformed, RecordUnknown, BufferRow, ResolveThrows,
           LoopFlushed, LoopFlushFailed, SavePoints, FlushFails, TimerFlush, TimerFlushed,
           TimerFlushFailed

LEMMA AckedIsStoredStep ==
    ASSUME TypeOK, Progress, AckedSettled, AckedIsStored, [Next]_vars
    PROVE  AckedIsStored'
  <1>1. acknowledged \subseteq Ids /\ acked \subseteq Ids
    BY DEF TypeOK, StreamTypeOK, Ids
  <1>2. \A i \in acknowledged \cup acked : Settled(i)'
    BY <1>1, SettledStable DEF AckedIsStored, AckedSettled
  <1>3. ASSUME NEW t \in Timers, flight[t].phase = "xack"
        PROVE  \A i \in flight[t].acks : Settled(i)'
    <2>1. t \in Flushers /\ flight[t].acks \subseteq Ids
      BY DEF TypeOK, Flights, Flushers
    <2> QED
      BY <1>3, <2>1, SettledStable DEF Progress
  <1>4. \/ acknowledged' \subseteq acknowledged \cup acked
        \/ \E t \in Timers : /\ flight[t].phase = "xack"
                             /\ acknowledged' \subseteq acknowledged \cup flight[t].acks
    BY XAckStep DEF XAck
  <1> QED
    BY <1>2, <1>3, <1>4 DEF AckedIsStored

-----------------------------------------------------------------------------
(* The history table is written before the state table *)

LEMMA StateHasPointStep ==
    ASSUME TypeOK, BuffersAligned, Progress, StateHasPoint, [Next]_vars
    PROVE  StateHasPoint'
  <1> SUFFICES ASSUME NEW v \in Registered, latestState'[v] # 0
               PROVE  /\ stream'[latestState'[v]] \in gpsPoints'
                      /\ stream'[latestState'[v]].imei = v
    BY DEF StateHasPoint
  <1>1. CASE latestState'[v] = latestState[v]
    <2>1. latestState[v] \in Ids
      BY <1>1 DEF TypeOK, StreamTypeOK, Ids
    <2> QED
      BY <1>1, <2>1, LogStable, GpsGrows DEF StateHasPoint
  <1>2. CASE latestState'[v] # latestState[v]
    <2>1. PICK f \in Flushers : flight[f].phase = "states" /\ UpsertRows(flight[f].states)
      BY <1>2, LatestStep
    <2>2. latestState'[v] \in flight[f].states /\ stream[latestState'[v]].imei = v
      BY <1>2, <2>1, UpsertedRow
    <2>3. latestState'[v] \in Ids
      BY <2>2 DEF TypeOK, Flights
    <2>4. stream[latestState'[v]] \in gpsPoints
      BY <2>1, <2>2 DEF BuffersAligned, Aligned, Progress
    <2> QED
      BY <2>2, <2>3, <2>4, LogStable, GpsGrows
  <1> QED
    BY <1>1, <1>2

-----------------------------------------------------------------------------
(* The inductive invariant *)

LEMMA InvInit == Init => WriterInv
  <1> SUFFICES ASSUME Init PROVE WriterInv
    OBVIOUS
  <1>1. TypeOK
    BY TypeInit
  <1>2. \A f \in Flushers : flight[f] = NoFlight
    BY DEF Init, LoopInit
  <1>3. /\ batch = {} /\ acked = {} /\ pointBuffer = {} /\ stateBuffer = {}
        /\ pendingAcks = {} /\ gpsPoints = {} /\ acknowledged = {}
        /\ \A v \in Registered : latestState[v] = 0
    BY DEF Init, LoopInit, StreamInit
  <1>4. BuffersAligned /\ OnePlace
    BY <1>2, <1>3 DEF BuffersAligned, Aligned, OnePlace, NoFlight
  <1>5. RowsKnown /\ Progress
    BY <1>2, <1>3 DEF RowsKnown, Progress, NoFlight
  <1> QED
    BY <1>1, <1>3, <1>4, <1>5 DEF WriterInv, AckedSettled, AckedIsStored, StateHasPoint

LEMMA InvStep == WriterInv /\ [Next]_vars => WriterInv'
  BY TypeStep, AlignedStep, OnePlaceStep, RowsKnownStep, ProgressStep, AckedSettledStep,
     AckedIsStoredStep, StateHasPointStep DEF WriterInv

(* The inductive invariant holds of every behaviour of the writer. *)
THEOREM Invariance == Spec => []WriterInv
  BY InvInit, InvStep, PTL DEF Spec

(* An entry that has been XACKed is in gps_points, and its vehicle has a   *)
(* state row, through every interleaving of flushes, faults and restarts.  *)
THEOREM AckedStored == Spec => []AckedIsStored
  <1>1. WriterInv => AckedIsStored
    BY DEF WriterInv
  <1> QED
    BY <1>1, Invariance, PTL

(* An entry in the writer's memory is pending under the writer's name and  *)
(* is in one place: one flush owns it, or the buffer, or the loop.         *)
THEOREM HeldInOnePlace == Spec => []HeldOnce
  <1>1. ASSUME WriterInv PROVE HeldOnce
    <2>1. Buffered = pendingAcks
      BY <1>1 DEF WriterInv, BuffersAligned, Buffered
    <2>2. \A f \in Flushers : InFlight(f) = flight[f].acks
      BY <1>1 DEF WriterInv, TypeOK, Flights, BuffersAligned, Aligned, InFlight
    <2>3. OnePlace
      BY <1>1 DEF WriterInv
    <2>4. UNION {InFlight(f) : f \in Flushers} \subseteq owned
      BY <2>2, <2>3 DEF OnePlace
    <2> QED
      BY <2>1, <2>2, <2>3, <2>4 DEF HeldOnce, Held, OnePlace
  <1> QED
    BY <1>1, Invariance, PTL

(* A row of vehicle_latest_state is a report that gps_points also has.     *)
THEOREM StateRowHasPoint == Spec => []StateHasPoint
  <1>1. WriterInv => StateHasPoint
    BY DEF WriterInv
  <1> QED
    BY <1>1, Invariance, PTL

-----------------------------------------------------------------------------
(* Writer implements TrackingIngest *)

LEMMA IngestInit == Init => Ingest!Init
  BY DEF Init, LoopInit, StreamInit, Ingest!Init

(* What a flush inserts is pending and storable. *)
LEMMA StoreStep ==
    ASSUME WriterInv, NEW f \in Flushers, flight[f].phase = "points",
           InsertPoints(flight[f].points),
           UNCHANGED <<stream, lastDelivered, pel, acknowledged>>
    PROVE  Ingest!Store
  <1>1. flight[f].points = flight[f].acks
    BY DEF WriterInv, BuffersAligned, Aligned
  <1>2. flight[f].acks \subseteq pel
    BY DEF WriterInv, OnePlace, TypeOK, StreamTypeOK
  <1>3. \A i \in flight[f].acks : stream[i] \in Points
    BY DEF WriterInv, RowsKnown
  <1> QED
    BY <1>1, <1>2, <1>3 DEF InsertPoints, Ingest!Store

(* What has settled may be acknowledged. *)
LEMMA AcknowledgeStep ==
    ASSUME WriterInv, NEW ids \in SUBSET pel, \A i \in ids : Settled(i), XAck(ids),
           UNCHANGED gpsPoints
    PROVE  Ingest!Acknowledge
  <1>1. ids \in SUBSET {i \in pel : stream[i] \in Points \cap gpsPoints \/ stream[i] \notin Points}
    BY DEF Settled
  <1>2. pel' = pel \ ids /\ acknowledged' = acknowledged \cup ids
    BY DEF XAck
  <1> QED
    BY <1>1, <1>2 DEF XAck, Ingest!Acknowledge

LEMMA DeliverStep ==
    ASSUME TypeOK, Deliver(NewEntries), UNCHANGED gpsPoints
    PROVE  Ingest!Deliver
  <1>1. PICK last \in NewEntries : (\A i \in NewEntries : i <= last) /\ lastDelivered' = last
    BY DEF Deliver
  <1>2. /\ \A i \in NewEntries : i \in Ids /\ i > lastDelivered
        /\ lastDelivered \in Nat /\ Len(stream) \in Nat
    BY DEF NewEntries, Lowest, TypeOK, StreamTypeOK
  <1>3. last \in lastDelivered..Len(stream)
    BY <1>1, <1>2 DEF Ids
  <1>4. NewEntries \in SUBSET ((lastDelivered + 1)..last)
    BY <1>1, <1>2 DEF Ids
  <1> QED
    BY <1>1, <1>3, <1>4 DEF Deliver, Ingest!Deliver

(* Every step of the writer is a step of the promise or leaves it alone. *)
LEMMA IngestStep == WriterInv /\ [Next]_vars => [Ingest!Next]_(Ingest!vars)
  <1> SUFFICES ASSUME WriterInv, [Next]_vars PROVE [Ingest!Next]_(Ingest!vars)
    OBVIOUS
  <1> USE DEF Ingest!Next
  <1>1. TypeOK
    BY DEF WriterInv
  <1>2. CASE UNCHANGED <<stream, lastDelivered, pel, acknowledged, gpsPoints>>
    BY <1>2 DEF Ingest!vars
  <1>3. CASE Publish
    BY <1>3 DEF Publish, XAdd, dbVars, Ingest!Publish
  <1>4. CASE Start
    <2>1. lastDelivered' \in lastDelivered..Len(stream)
      BY <1>1, <1>4 DEF Start, Ensure, EnsureGroup, TypeOK, StreamTypeOK
    <2>2. UNCHANGED <<stream, pel, acknowledged, gpsPoints>> /\ pel' = pel \cup {}
      BY <1>4 DEF Start, Ensure, EnsureGroup, dbVars
    <2> QED
      BY <2>1, <2>2 DEF Ingest!Deliver
  <1>5. CASE ReadNew \/ ReadNewLost
    BY <1>1, <1>5, DeliverStep DEF ReadNew, Poll, ReadNewLost, PollLost, dbVars
  <1>6. ASSUME NEW f \in Flushers, SavePoints(f) \/ FlushFails(f)
        PROVE  [Ingest!Next]_(Ingest!vars)
    <2>1. UNCHANGED <<stream, lastDelivered, pel, acknowledged>>
      BY <1>6 DEF SavePoints, FlushFails, streamVars
    <2>2. \/ flight[f].phase = "points" /\ InsertPoints(flight[f].points)
          \/ UNCHANGED gpsPoints
      BY <1>6 DEF SavePoints, FlushFails
    <2> QED
      BY <1>2, <2>1, <2>2, StoreStep
  <1>7. CASE FinishBatch
    <2>1. acked \in SUBSET pel /\ \A i \in acked : Settled(i)
      BY DEF WriterInv, OnePlace, AckedSettled, TypeOK, StreamTypeOK
    <2>2. UNCHANGED gpsPoints /\ (XAck(acked) \/ UNCHANGED streamVars)
      BY <1>7 DEF FinishBatch, Return, dbVars
    <2> QED
      BY <1>2, <2>1, <2>2, AcknowledgeStep DEF streamVars
  <1>8. ASSUME NEW t \in Timers, TimerXAck(t)
        PROVE  [Ingest!Next]_(Ingest!vars)
    <2>1. flight[t].acks \in SUBSET pel /\ \A i \in flight[t].acks : Settled(i)
      BY <1>8 DEF TimerXAck, Flushers, WriterInv, OnePlace, Progress, TypeOK, StreamTypeOK
    <2>2. UNCHANGED gpsPoints /\ (XAck(flight[t].acks) \/ UNCHANGED streamVars)
      BY <1>8 DEF TimerXAck, dbVars
    <2> QED
      BY <1>2, <2>1, <2>2, AcknowledgeStep DEF streamVars
  <1> QED
    BY <1>2, <1>3, <1>4, <1>5, <1>6, <1>7, <1>8
       DEF Next, LoopStep, vars, streamVars, dbVars, Crash, Signal, StopLoop, ExitFlushed,
           ExitUnflushed, ReadPending, Recover, LoopEnds, EndLoop, DropMalformed,
           RecordUnknown, BufferRow, ResolveThrows, LoopFlushed, LoopFlushFailed,
           TimerFlush, TimerFlushed, TimerFlushFailed, UpsertStates

(* Every behaviour of the writer, read through the stream, the group's     *)
(* pending list and gps_points, is a behaviour of TrackingIngest.          *)
THEOREM Implementation == Spec => ImplementsIngest
  BY IngestInit, IngestStep, Invariance, PTL DEF Spec, ImplementsIngest, Ingest!Spec

-----------------------------------------------------------------------------
(* What is pending is in the process *)

HeldIds == batch \cup acked \cup pendingAcks \cup UNION {flight[f].acks : f \in Flushers}

PendingInv ==
    /\ pel = owned
    /\ pc = "idle" => batch = {}
    /\ pc # "flushing" => flight["loop"].phase = "none"
    /\ pc \in {"batch", "flushing", "idle"} /\ mode # "stopped" => pel \subseteq HeldIds

(* Nothing was evicted, and the PEL fits in one XPENDING. *)
Roomy == trimmed = 0 /\ Cardinality(pel) <= PendingCount

(* Every Redis call and every lookup of a vehicle is answered. *)
Quiet == Faults \cap {"redis", "resolve", "xack"} = {}

LEMMA PendingInit == Init => PendingInv
  BY DEF Init, LoopInit, StreamInit, PendingInv, NoFlight, Flushers

(* One XPENDING page then lists the whole PEL. *)
LEMMA PageIsWhole ==
    ASSUME TypeOK, Roomy, pel = owned PROVE PendingEntries = pel
  <1>1. pel \in SUBSET Nat /\ IsFiniteSet(pel) /\ Cardinality(pel) \in Nat
    <2>1. pel \in SUBSET (1..lastDelivered) /\ lastDelivered \in Nat
      BY DEF TypeOK, StreamTypeOK
    <2>2. IsFiniteSet(1..lastDelivered)
      BY <2>1, FS_Interval
    <2>3. IsFiniteSet(pel)
      BY <2>1, <2>2, FS_Subset
    <2>4. pel \in SUBSET Nat
      BY <2>1
    <2> QED
      BY <2>3, <2>4, FS_CardinalityType
  <1>2. ASSUME NEW i \in pel PROVE Cardinality({j \in pel : j < i}) < PendingCount
    <2> DEFINE before == {j \in pel : j < i}
    <2>1. before \subseteq pel /\ i \notin before
      BY <1>1
    <2> HIDE DEF before
    <2>2. IsFiniteSet(before) /\ Cardinality(before) \in Nat /\ Cardinality(before) <= Cardinality(pel)
          /\ (Cardinality(before) = Cardinality(pel) => before = pel)
      BY <1>1, <2>1, FS_Subset, FS_CardinalityType
    <2>3. Cardinality(before) < PendingCount
      BY <1>1, <1>2, <2>1, <2>2, StreamAssumption DEF StreamAssumption, Roomy
    <2> QED
      BY <2>3 DEF before
  <1>3. \A i \in pel : i > 0
    BY DEF TypeOK, StreamTypeOK
  <1> QED
    BY <1>2, <1>3 DEF PendingEntries, Lowest, Roomy

(* A caller of flushNow that was at rest takes the buffer. *)
LEMMA TakenIsHeld ==
    ASSUME WriterInv, NEW f \in Flushers, flight[f].phase = "none",
           NEW added \in SUBSET batch, TakeBuffers(f, added), batch \subseteq batch' \cup added,
           acked' = acked
    PROVE  HeldIds \subseteq HeldIds'
  <1>1. flight[f].acks = {} /\ flight \in [Flushers -> Flights]
    BY DEF WriterInv, BuffersAligned, Aligned, TypeOK
  <1>2. flight'[f].acks = pendingAcks \cup added
        /\ \A g \in Flushers : g # f => flight'[g].acks = flight[g].acks
    BY <1>1 DEF TakeBuffers
  <1>3. ASSUME NEW i \in HeldIds PROVE i \in HeldIds'
    <2>1. CASE i \in pendingAcks \cup added
      BY <1>2, <2>1 DEF HeldIds
    <2>2. CASE \E g \in Flushers : i \in flight[g].acks
      BY <1>1, <1>2, <2>2 DEF HeldIds
    <2>3. CASE i \in acked \cup (batch \ added)
      BY <2>3 DEF HeldIds
    <2> QED
      BY <1>3, <2>1, <2>2, <2>3 DEF HeldIds
  <1> QED
    BY <1>3

LEMMA PendingStep ==
    ASSUME StableName, Quiet
    PROVE  WriterInv /\ Roomy /\ PendingInv /\ [Next]_vars => PendingInv'
  <1> SUFFICES ASSUME WriterInv, Roomy, PendingInv, [Next]_vars PROVE PendingInv'
    OBVIOUS
  <1>a. flight \in [Flushers -> Flights] /\ {"loop", "exit"} \subseteq Flushers
        /\ Timers \subseteq Flushers /\ {"loop", "exit"} \cap Timers = {}
    BY WriterAssumption DEF WriterInv, TypeOK, Flushers, WriterAssumption
  <1>b. \A f \in Flushers : flight[f].phase \in {"none", "backoff"} => flight[f].acks = {}
    BY DEF WriterInv, BuffersAligned, Aligned
  (* What ends the process or leaves the loop ended. *)
  <1>c. ASSUME ProcessEnds, pel' = pel, owned' = owned PROVE PendingInv'
    BY <1>c, <1>a DEF ProcessEnds, LoopDies, PendingInv, NoFlight
  <1>1. CASE UNCHANGED vars
    BY <1>1 DEF vars, streamVars, loopVars, bufferVars, PendingInv, HeldIds
  <1>2. CASE Publish
    BY <1>2 DEF Publish, XAdd, loopVars, bufferVars, PendingInv, HeldIds
  <1>3. CASE Start
    BY <1>3 DEF Start, Ensure, EnsureGroup, bufferVars, PendingInv, HeldIds
  <1>4. CASE Crash
    BY <1>4, <1>c DEF Crash, streamVars
  <1>5. CASE Signal
    <2>1. CASE ProcessEnds
      BY <1>5, <2>1, <1>c DEF Signal, streamVars
    <2>2. CASE ~ProcessEnds
      <3>1. /\ TakeBuffers("exit", {}) /\ flight["exit"].phase = "none"
            /\ UNCHANGED <<pc, batch, acked, pel, owned>>
            /\ mode' # "stopped" => mode # "stopped"
        BY <1>5, <2>2 DEF Signal, StopLoop, streamVars, Stopping
      <3>2. flight'["loop"] = flight["loop"]
        BY <1>a, <3>1 DEF TakeBuffers
      <3>3. HeldIds \subseteq HeldIds'
        BY <1>a, <3>1, TakenIsHeld
      <3> QED
        BY <3>1, <3>2, <3>3 DEF PendingInv
    <2> QED
      BY <2>1, <2>2
  <1>6. CASE ExitFlushed \/ ExitUnflushed
    BY <1>6, <1>c DEF ExitFlushed, ExitUnflushed, streamVars
  <1>7. CASE ReadPending
    <2>1. /\ UNCHANGED <<pel, owned, flight, pendingAcks, acked>> /\ pc = "starting"
      BY <1>7 DEF ReadPending, Recover, streamVars, bufferVars
    <2>2. \/ pc' = "batch" /\ batch' = pel
          \/ pc' = "idle" /\ pel = {} /\ batch' = batch
      BY <1>7, PageIsWhole DEF ReadPending, Recover, Quiet, WriterInv, PendingInv
    <2>3. batch = {}
      BY <2>1 DEF WriterInv, OnePlace
    <2> QED
      BY <2>1, <2>2, <2>3 DEF PendingInv, HeldIds
  <1>8. CASE ReadNew
    <2>1. /\ UNCHANGED <<mode, acked, flight, pendingAcks>> /\ pc = "idle" /\ pc' = "batch"
          /\ pel' = pel \cup batch' /\ owned' = owned \cup batch'
      BY <1>8 DEF ReadNew, Poll, Deliver, bufferVars
    <2>2. batch = {}
      BY <2>1 DEF PendingInv
    <2> QED
      BY <2>1, <2>2 DEF PendingInv, HeldIds
  <1>9. CASE ReadNewLost
    BY <1>9 DEF ReadNewLost, PollLost, Quiet
  <1>10. CASE LoopEnds
    BY <1>10 DEF LoopEnds, EndLoop, streamVars, bufferVars, PendingInv
  <1>11. CASE FinishBatch
    <2>1. UNCHANGED <<flight, pendingAcks>> /\ batch = {} /\ batch' = {} /\ pc = "batch"
          /\ pc' \in {"ended", "idle"} /\ (mode' # "stopped" => mode # "stopped")
      BY <1>11 DEF FinishBatch, Return, NextRead, bufferVars
    <2>2. mode # "stopped" => pel' = pel \ acked
      BY <1>11 DEF FinishBatch, Return, XAck, Quiet
    <2>3. pel' = owned'
      BY <1>11 DEF FinishBatch, Return, XAck, streamVars, PendingInv
    <2> QED
      BY <2>1, <2>2, <2>3 DEF PendingInv, HeldIds
  <1>12. CASE LoopFlushed
    <2>1. UNCHANGED <<pel, owned, mode, batch, pendingAcks>> /\ pc' = "batch"
          /\ acked' = acked \cup flight["loop"].acks
          /\ flight' = [flight EXCEPT !["loop"] = NoFlight]
          /\ flight["loop"].phase = "states"
      BY <1>12 DEF LoopFlushed, UpsertStates, streamVars, bufferVars
    <2>2. pc = "flushing" /\ flight'["loop"].phase = "none"
      BY <2>1, <1>a DEF PendingInv, NoFlight
    <2>3. HeldIds \subseteq HeldIds'
      <3>1. \A f \in Flushers : f = "loop" \/ flight'[f].acks = flight[f].acks
        BY <1>a, <2>1
      <3> QED
        BY <2>1, <3>1 DEF HeldIds
    <2> QED
      BY <2>1, <2>2, <2>3 DEF PendingInv
  <1>13. CASE LoopFlushFailed
    <2>1. UNCHANGED <<pel, owned, mode, batch, acked, pendingAcks>> /\ pc' = "batch"
          /\ flight' = [flight EXCEPT !["loop"] = NoFlight]
          /\ flight["loop"].phase = "backoff"
      BY <1>13 DEF LoopFlushFailed, streamVars, bufferVars
    <2>2. pc = "flushing" /\ flight'["loop"].phase = "none" /\ flight["loop"].acks = {}
      BY <2>1, <1>a, <1>b DEF PendingInv, NoFlight
    <2>3. HeldIds \subseteq HeldIds'
      <3>1. \A f \in Flushers : f = "loop" \/ flight'[f].acks = flight[f].acks
        BY <1>a, <2>1
      <3> QED
        BY <2>1, <2>2, <3>1 DEF HeldIds
    <2> QED
      BY <2>1, <2>2, <2>3 DEF PendingInv
  <1>14. ASSUME NEW i \in batch, DropMalformed(i) \/ RecordUnknown(i) PROVE PendingInv'
    BY <1>14 DEF DropMalformed, RecordUnknown, streamVars, bufferVars, PendingInv, HeldIds
  <1>15. ASSUME NEW i \in batch, BufferRow(i) PROVE PendingInv'
    <2>1. UNCHANGED <<pel, owned, mode, acked>> /\ pc = "batch" /\ batch' = batch \ {i}
      BY <1>15 DEF BufferRow, AtEntry, streamVars
    <2>2. CASE TakeBuffers("loop", {i}) /\ pc' = "flushing"
      <3>1. flight["loop"].phase = "none"
        BY <2>1 DEF PendingInv
      <3>2. HeldIds \subseteq HeldIds'
        <4>1. {i} \in SUBSET batch /\ batch \subseteq batch' \cup {i} /\ acked' = acked
          BY <2>1
        <4> QED
          BY <1>a, <2>2, <3>1, <4>1, TakenIsHeld
      <3> QED
        BY <2>1, <2>2, <3>2 DEF PendingInv
    <2>3. CASE pendingAcks' = pendingAcks \cup {i} /\ UNCHANGED <<pc, flight>>
      BY <2>1, <2>3 DEF PendingInv, HeldIds
    <2> QED
      BY <1>15, <2>2, <2>3 DEF BufferRow
  <1>16. ASSUME NEW i \in batch, ResolveThrows(i) PROVE PendingInv'
    BY <1>16 DEF ResolveThrows, Quiet
  <1>17. ASSUME NEW f \in Flushers, SavePoints(f) PROVE PendingInv'
    <2>1. UNCHANGED <<pel, owned, pc, mode, batch, acked, pendingAcks>>
          /\ flight' = [flight EXCEPT ![f].phase = "states"] /\ flight[f].phase = "points"
      BY <1>17 DEF SavePoints, streamVars, loopVars, bufferVars
    <2>2. \A g \in Flushers : flight'[g].acks = flight[g].acks
          /\ (flight[g].phase = "none" => flight'[g].phase = "none")
      BY <2>1, <1>a DEF Flights
    <2> QED
      BY <2>1, <2>2, <1>a DEF PendingInv, HeldIds
  <1>18. ASSUME NEW f \in Flushers, FlushFails(f) PROVE PendingInv'
    <2>1. UNCHANGED <<pel, owned, pc, mode, batch, acked>>
          /\ flight' = [flight EXCEPT ![f] = [NoFlight EXCEPT !.phase = "backoff"]]
          /\ pendingAcks' = flight[f].acks \cup pendingAcks
          /\ flight[f].phase # "none"
      BY <1>18 DEF FlushFails, Requeue, streamVars, loopVars
    <2>2. \A g \in Flushers : g = f \/ flight'[g] = flight[g]
      BY <2>1, <1>a
    <2>3. flight["loop"].phase = "none" => flight'["loop"].phase = "none"
      BY <2>1, <2>2, <1>a
    <2>4. HeldIds \subseteq HeldIds'
      BY <2>1, <2>2 DEF HeldIds
    <2> QED
      BY <2>1, <2>3, <2>4 DEF PendingInv
  <1>19. ASSUME NEW t \in Timers, TimerFlush(t) PROVE PendingInv'
    <2>1. UNCHANGED <<pel, owned, pc, mode, batch, acked>> /\ TakeBuffers(t, {})
          /\ flight[t].phase = "none"
      BY <1>19 DEF TimerFlush, streamVars, loopVars
    <2>2. flight'["loop"] = flight["loop"]
      BY <2>1, <1>a DEF TakeBuffers
    <2>3. HeldIds \subseteq HeldIds'
      BY <2>1, <1>a, TakenIsHeld
    <2> QED
      BY <2>1, <2>2, <2>3 DEF PendingInv
  <1>20. ASSUME NEW t \in Timers, TimerFlushed(t) PROVE PendingInv'
    <2>1. UNCHANGED <<pel, owned, pc, mode, batch, acked, pendingAcks>>
          /\ flight' = [flight EXCEPT ![t] = [NoFlight EXCEPT !.phase = "xack", !.acks = flight[t].acks]]
      BY <1>20 DEF TimerFlushed, UpsertStates, streamVars, loopVars, bufferVars
    <2>2. flight'["loop"] = flight["loop"] /\ \A g \in Flushers : flight'[g].acks = flight[g].acks
      BY <2>1, <1>a DEF NoFlight
    <2>3. HeldIds \subseteq HeldIds'
      BY <2>1, <2>2 DEF HeldIds
    <2> QED
      BY <2>1, <2>2, <2>3 DEF PendingInv
  <1>21. ASSUME NEW t \in Timers, TimerFlushFailed(t) PROVE PendingInv'
    <2>1. UNCHANGED <<pel, owned, pc, mode, batch, acked, pendingAcks>>
          /\ flight' = [flight EXCEPT ![t] = NoFlight] /\ flight[t].phase = "backoff"
      BY <1>21 DEF TimerFlushFailed, streamVars, loopVars, bufferVars
    <2>2. flight'["loop"] = flight["loop"] /\ \A g \in Flushers : flight'[g].acks = flight[g].acks
      BY <2>1, <1>a, <1>b DEF NoFlight
    <2>3. HeldIds \subseteq HeldIds'
      BY <2>1, <2>2 DEF HeldIds
    <2> QED
      BY <2>1, <2>2, <2>3 DEF PendingInv
  <1>22. ASSUME NEW t \in Timers, TimerXAck(t) PROVE PendingInv'
    <2>1. UNCHANGED <<pc, mode, batch, acked, pendingAcks>> /\ XAck(flight[t].acks)
          /\ flight' = [flight EXCEPT ![t] = NoFlight]
      BY <1>22 DEF TimerXAck, loopVars, bufferVars, Quiet
    <2>2. flight'["loop"] = flight["loop"]
          /\ \A g \in Flushers : g = t \/ flight'[g].acks = flight[g].acks
      BY <2>1, <1>a
    <2>3. pel' = pel \ flight[t].acks /\ owned' = owned \ flight[t].acks
      BY <2>1 DEF XAck
    <2>4. \A i \in pel' : i \in HeldIds => i \in HeldIds'
      BY <2>1, <2>2, <2>3 DEF HeldIds
    <2> QED
      BY <2>1, <2>2, <2>3, <2>4 DEF PendingInv
  <1> QED
    BY <1>1, <1>2, <1>3, <1>4, <1>5, <1>6, <1>7, <1>8, <1>9, <1>10, <1>11, <1>12, <1>13, <1>14,
       <1>15, <1>16, <1>17, <1>18, <1>19, <1>20, <1>21, <1>22 DEF Next, LoopStep

(* A writer with a stable name, on a Redis that answers, forgets nothing   *)
(* of what was delivered to it: while nothing is evicted and the PEL fits  *)
(* in one XPENDING, every pending entry is in its hands once it is past    *)
(* recovery, whatever the crashes, signals and database failures.          *)
THEOREM PendingHeld ==
    ASSUME StableName, Quiet
    PROVE  Spec /\ [](trimmed = 0 /\ Cardinality(pel) <= PendingCount) => []PendingIsHeld
  <1>1. PendingInv => PendingIsHeld
    BY DEF PendingInv, PendingIsHeld, HeldIds, Held, Buffered, InFlight
  <1>2. WriterInv /\ Roomy /\ PendingInv /\ [Next]_vars => PendingInv'
    BY PendingStep
  <1>3. Roomy <=> (trimmed = 0 /\ Cardinality(pel) <= PendingCount)
    BY DEF Roomy
  <1> QED
    BY PendingInit, <1>1, <1>2, <1>3, Invariance, PTL DEF Spec
=============================================================================
