--------------------------- MODULE LocationProofs ---------------------------
(* Safety of LocationSubscriber, for every fleet, number of reports, batch *)
(* size and set of faults.                                                 *)
EXTENDS LocationSubscriber, TLAPS

-----------------------------------------------------------------------------
(* The stream and its group: every operation on them keeps StreamTypeOK.  *)

(* XADD makes the log longer, and the entries already there stay as they   *)
(* are.                                                                    *)
LEMMA XAddGrows ==
    ASSUME StreamTypeOK, NEW p \in Payloads, XAdd(p)
    PROVE  /\ stream' \in Seq(Payloads)
           /\ Len(stream') = Len(stream) + 1
           /\ \A i \in Ids : i \in Ids' /\ stream'[i] = stream[i]
  BY DEF StreamTypeOK, XAdd, Ids

LEMMA XAddType ==
    ASSUME StreamTypeOK, NEW p \in Payloads, XAdd(p)
    PROVE  StreamTypeOK'
  <1>1. stream' \in Seq(Payloads) /\ Len(stream') = Len(stream) + 1
    BY XAddGrows
  <1>2. trimmed' \in Nat
    BY DEF XAdd, StreamTypeOK
  <1>3. lastDelivered' \in 0..Len(stream')
    BY <1>1 DEF XAdd, StreamTypeOK
  <1> QED
    BY <1>1, <1>2, <1>3 DEF XAdd, StreamTypeOK

LEMMA EnsureGroupType ==
    ASSUME StreamTypeOK, EnsureGroup
    PROVE  StreamTypeOK' /\ lastDelivered' >= lastDelivered
  BY DEF StreamTypeOK, EnsureGroup

(* A fresh read returns entries that were never delivered before. *)
LEMMA NewEntriesAreNew == NewEntries \subseteq {i \in Ids : i > lastDelivered}
  BY DEF NewEntries, Lowest

LEMMA DeliverType ==
    ASSUME StreamTypeOK, Deliver(NewEntries)
    PROVE  /\ StreamTypeOK'
           /\ lastDelivered' >= lastDelivered
           /\ NewEntries \subseteq (lastDelivered + 1)..lastDelivered'
  <1> PICK last \in NewEntries : (\A i \in NewEntries : i <= last) /\ lastDelivered' = last
    BY DEF Deliver
  <1>1. lastDelivered \in 0..Len(stream) /\ Len(stream) \in Nat
    BY DEF StreamTypeOK
  <1>2. last \in Ids /\ last > lastDelivered
    BY NewEntriesAreNew
  <1>3. NewEntries \subseteq (lastDelivered + 1)..last
    BY <1>1, <1>2, NewEntriesAreNew DEF Ids
  <1>4. NewEntries \subseteq (lastDelivered + 1)..lastDelivered'
    BY <1>3
  <1>5. lastDelivered' \in 0..Len(stream) /\ lastDelivered' > lastDelivered
    BY <1>1, <1>2 DEF Ids
  <1>6. /\ stream' = stream /\ trimmed' = trimmed /\ groupExists' = groupExists
        /\ acknowledged' = acknowledged
        /\ pel' = pel \cup NewEntries /\ owned' = owned \cup NewEntries
    BY DEF Deliver
  <1>7. pel' \subseteq 1..lastDelivered'
    BY <1>1, <1>4, <1>5, <1>6 DEF StreamTypeOK
  <1>8. acknowledged' \subseteq (1..lastDelivered') \ pel'
    BY <1>1, <1>4, <1>5, <1>6 DEF StreamTypeOK
  <1> QED
    BY <1>1, <1>4, <1>5, <1>6, <1>7, <1>8 DEF StreamTypeOK

(* Recovery returns entries this consumer still owes an XACK. *)
LEMMA PendingEntriesAreOwned == PendingEntries \subseteq owned
  BY DEF PendingEntries, Lowest

LEMMA XAckType ==
    ASSUME StreamTypeOK, NEW ids, XAck(ids)
    PROVE  StreamTypeOK'
  BY DEF StreamTypeOK, XAck

-----------------------------------------------------------------------------
(* The loop *)

LEMMA ReaderInitHolds == ReaderInit => ReaderTypeOK /\ LoopHolds
  <1> SUFFICES ASSUME ReaderInit PROVE ReaderTypeOK /\ LoopHolds
    OBVIOUS
  <1>1. stream \in Seq(Payloads) /\ Len(stream) = 0 /\ lastDelivered = 0
    BY DEF ReaderInit, LoopInit, StreamInit
  <1>2. /\ trimmed = 0 /\ pel = {} /\ owned = {} /\ acknowledged = {}
        /\ batch = {} /\ acked = {}
        /\ pc = "down" /\ mode = "recovering" /\ at = "resolve"
    BY DEF ReaderInit, LoopInit, StreamInit
  <1>3. groupExists \in BOOLEAN
    BY Zenon DEF ReaderInit, LoopInit, StreamInit
  <1>4. StreamTypeOK
    BY <1>1, <1>2, <1>3 DEF StreamTypeOK
  <1> QED
    BY <1>2, <1>4, StepsAssumption DEF ReaderTypeOK, LoopHolds

LEMMA PublishHolds ==
    ASSUME ReaderTypeOK, LoopHolds, NEW p \in Payloads, XAdd(p), UNCHANGED <<loopVars, at>>
    PROVE  /\ ReaderTypeOK' /\ LoopHolds'
           /\ acknowledged' = acknowledged
           /\ \A i \in Ids : i \in Ids' /\ stream'[i] = stream[i]
  <1>1. StreamTypeOK'
    BY XAddType DEF ReaderTypeOK
  <1>2. \A i \in Ids : i \in Ids' /\ stream'[i] = stream[i]
    BY XAddGrows DEF ReaderTypeOK
  <1>3. owned' = owned /\ acknowledged' = acknowledged
    BY DEF XAdd
  <1> QED
    BY <1>1, <1>2, <1>3 DEF ReaderTypeOK, LoopHolds, loopVars

(* The loop only moves entries between the stream and its batch; it is     *)
(* never in the middle of an entry when it does.                           *)
LEMMA LoopStepHolds ==
    ASSUME ReaderTypeOK, LoopHolds, LoopStep
    PROVE  /\ ReaderTypeOK' /\ LoopHolds'
           /\ stream' = stream /\ at' = "resolve"
           /\ acked' \subseteq acked
           /\ acknowledged' \subseteq acknowledged \cup acked
  <1> USE DEF ReaderTypeOK, LoopHolds, streamVars
  <1>1. CASE Ensure
    <2>1. StreamTypeOK' /\ stream' = stream
      BY <1>1, EnsureGroupType DEF Ensure, EnsureGroup
    <2> QED
      BY <1>1, <2>1 DEF Ensure, EnsureGroup, LoopStep, Ids
  <1>2. CASE Recover
    <2>1. PendingEntries \subseteq Ids
      BY PendingEntriesAreOwned DEF StreamTypeOK, Ids
    <2> QED
      BY <1>2, <2>1, PendingEntriesAreOwned DEF Recover, LoopStep, StreamTypeOK, Ids
  <1>3. CASE Poll
    <2>1. StreamTypeOK' /\ NewEntries \subseteq Ids
      BY <1>3, DeliverType, NewEntriesAreNew DEF Poll
    <2> QED
      BY <1>3, <2>1 DEF Poll, Deliver, LoopStep, Ids
  <1>4. CASE Return
    <2>1. StreamTypeOK' /\ stream' = stream /\ acknowledged' \subseteq acknowledged \cup acked
      <3>1. CASE XAck(acked)
        BY <3>1, XAckType DEF XAck
      <3>2. CASE UNCHANGED streamVars
        BY <3>2 DEF StreamTypeOK
      <3> QED
        BY <1>4, <3>1, <3>2 DEF Return
    <2> QED
      BY <1>4, <2>1 DEF Return, NextRead, LoopStep, Ids
  <1>5. CASE EndLoop
    BY <1>5 DEF EndLoop, LoopStep, StreamTypeOK, Ids
  <1> QED
    BY <1>1, <1>2, <1>3, <1>4, <1>5 DEF LoopStep

LEMMA FaultHolds ==
    ASSUME ReaderTypeOK, LoopHolds, ReplyLost \/ Signal \/ ProcessDies
    PROVE  /\ ReaderTypeOK' /\ LoopHolds'
           /\ stream' = stream /\ acknowledged' = acknowledged
           /\ acked' \subseteq acked
           /\ \/ batch' = batch /\ at' = at
              \/ batch' = {} /\ at' = "resolve"
  <1> USE DEF ReaderTypeOK, LoopHolds
  <1>1. CASE ReplyLost
    <2>1. StreamTypeOK' /\ stream' = stream /\ owned \subseteq owned'
      BY <1>1, DeliverType DEF ReplyLost, PollLost, Deliver
    <2> QED
      BY <1>1, <2>1 DEF ReplyLost, PollLost, Deliver, loopVars, Ids
  <1>2. CASE Signal
    BY <1>2 DEF Signal, StopLoop, streamVars, StreamTypeOK, Ids
  <1>3. CASE ProcessDies
    BY <1>3, StepsAssumption DEF ProcessDies, LoopDies, streamVars, StreamTypeOK, Ids
  <1> QED
    BY <1>1, <1>2, <1>3

LEMMA AdvanceHolds ==
    ASSUME ReaderTypeOK, LoopHolds, NEW i \in batch, NEW here, NEW next \in Steps,
           Advance(i, here, next)
    PROVE  /\ ReaderTypeOK' /\ LoopHolds'
           /\ UNCHANGED <<stream, acknowledged, batch, acked>>
           /\ at' = next
           /\ \A k \in batch : (\A j \in batch : k <= j) => k = i
  <1>1. \A j \in batch : i <= j /\ j \in Int
    BY DEF Advance, AtEntry, ReaderTypeOK, Ids
  <1> QED
    BY <1>1 DEF Advance, ReaderTypeOK, LoopHolds, streamVars, loopVars, StreamTypeOK, Ids

LEMMA HandledHolds ==
    ASSUME ReaderTypeOK, LoopHolds, NEW i \in batch, NEW here, Handled(i, here)
    PROVE  /\ ReaderTypeOK' /\ LoopHolds'
           /\ UNCHANGED <<stream, acknowledged>>
           /\ acked' = acked \cup {i} /\ at' = "resolve"
  BY StepsAssumption
     DEF Handled, AtEntry, ReaderTypeOK, LoopHolds, streamVars, StreamTypeOK, Ids

LEMMA FailedHolds ==
    ASSUME ReaderTypeOK, LoopHolds, NEW i \in batch, NEW here, Failed(i, here)
    PROVE  /\ ReaderTypeOK' /\ LoopHolds'
           /\ UNCHANGED <<stream, acknowledged, acked>>
           /\ at' = "resolve"
  BY StepsAssumption
     DEF Failed, AtEntry, ReaderTypeOK, LoopHolds, streamVars, StreamTypeOK, Ids

(* An acknowledged entry is not in the subscriber's hands.                 *)
LEMMA AckedNotHeld ==
    ASSUME ReaderTypeOK, LoopHolds
    PROVE  acknowledged \cap batch = {}
  BY DEF ReaderTypeOK, LoopHolds, StreamTypeOK

-----------------------------------------------------------------------------
(* Types *)

(* The part of TypeOK that is not about the loop. *)
OwnTypeOK ==
    /\ unset \in 0..Len(stream)
    /\ stateKey \in [Imeis -> 0..Len(stream)]
    /\ gpsPoints \subseteq Ids
    /\ latestState \in [Registered -> 0..Len(stream)]
    /\ rawPackets \subseteq Ids
    /\ idleStart \subseteq Registered
    /\ idleFired \subseteq Registered
    /\ insideKey \subseteq Registered
    /\ prevState \in 0..Len(stream)
    /\ queue \in Seq(AlertTypes)
    /\ raised \subseteq AlertTypes \X Ids
    /\ fenceAlert \in [Registered -> {"none", "in", "out"}]
    /\ shown \in [Registered -> 0..Len(stream)]
    /\ crossed \subseteq Ids
    /\ lost \subseteq Ids
    /\ astray \subseteq Registered

LEMMA TypeParts == TypeOK <=> ReaderTypeOK /\ OwnTypeOK
  BY DEF TypeOK, OwnTypeOK

LEMMA StepsAre == \A s \in {"resolve", "previous", "point", "state", "check", "fence", "publish"} :
                      s \in Steps
  BY LocationAssumption

LEMMA RaiseType ==
    ASSUME NEW Types, NEW condition, NEW type \in Types
    PROVE  Raise(condition, type) \in Seq(Types)
  BY DEF Raise

LEMMA IgnitionAlertsType ==
    ASSUME NEW r, NEW prev
    PROVE  IgnitionAlerts(r, prev) \in Seq(AlertTypes)
  BY RaiseType DEF IgnitionAlerts, AlertTypes

(* None of them is about a geofence. *)
MovingTypes == AlertTypes \ {"in", "out"}

LEMMA IgnitionAlertsMoving ==
    ASSUME NEW r, NEW prev
    PROVE  IgnitionAlerts(r, prev) \in Seq(MovingTypes)
  BY RaiseType DEF IgnitionAlerts, MovingTypes, AlertTypes

(* The entry a step is about. *)
LEMMA EntryType ==
    ASSUME TypeOK, NEW i \in batch
    PROVE  i \in Ids /\ i # 0 /\ i \in 0..Len(stream)
  BY DEF TypeOK, ReaderTypeOK, StreamTypeOK, Ids

LEMMA AddAlertType ==
    ASSUME TypeOK, NEW i \in batch, queue # <<>>, AddAlert(i)
    PROVE  /\ raised' \subseteq AlertTypes \X Ids
           /\ fenceAlert' \in [Registered -> {"none", "in", "out"}]
  <1>1. Head(queue) \in AlertTypes
    BY DEF TypeOK
  <1>2. <<Head(queue), i>> \in AlertTypes \X Ids
    BY <1>1, EntryType
  <1>3. raised' \subseteq AlertTypes \X Ids
    BY <1>2 DEF AddAlert, TypeOK
  <1>4. fenceAlert' \in [Registered -> {"none", "in", "out"}]
    <2>1. CASE Head(queue) \in {"in", "out"}
      BY <2>1 DEF AddAlert, TypeOK
    <2>2. CASE Head(queue) \notin {"in", "out"}
      BY <2>2 DEF AddAlert, TypeOK
    <2> QED
      BY <2>1, <2>2
  <1> QED
    BY <1>3, <1>4

(* When the log is unchanged so are the sets that the types are made of. *)
LEMMA SameLog ==
    ASSUME stream' = stream
    PROVE  Ids' = Ids /\ Len(stream') = Len(stream)
  BY DEF Ids

LEMMA ForgetType ==
    ASSUME Forget, NEW n \in Nat
    PROVE  prevState' \in 0..n /\ queue' \in Seq(AlertTypes)
  BY DEF Forget

LEMMA GiveUpType ==
    ASSUME TypeOK, NEW i \in batch, stream[i].imei \in Registered, NEW rest, GiveUp(i, rest)
    PROVE  lost' \subseteq Ids /\ astray' \subseteq Registered
  BY EntryType DEF GiveUp, TypeOK, cutVars

LEMMA OwnTypeEntry ==
    ASSUME TypeOK, stream' = stream, NEW i \in batch,
           \/ DropUnknown(i) \/ Resolve(i) \/ ReadPrevious(i) \/ SavePoint(i)
           \/ UpdateLatestState(i) \/ Check(i) \/ CheckFence(i) \/ PublishAlert(i) \/ Finish(i)
           \/ DbFails(i) \/ RedisFails(i),
           stream[i].imei \in Imeis,
           at # "resolve" => stream[i].imei \in Registered
    PROVE  OwnTypeOK'
  <1> USE SameLog, EntryType DEF TypeOK
  <1>0. Len(stream) \in Nat
    BY DEF ReaderTypeOK, StreamTypeOK
  <1>1. CASE DropUnknown(i)
    BY <1>1 DEF DropUnknown, OwnTypeOK, publisherVars, keyVars, localVars, alertVars
  <1>2. CASE Resolve(i)
    BY <1>2 DEF Resolve, OwnTypeOK, publisherVars, tableVars, keyVars, localVars, alertVars
  <1>3. CASE ReadPrevious(i)
    <2>1. stateKey' \in [Imeis -> 0..Len(stream)] /\ prevState' = stateKey'[stream[i].imei]
      <3>1. prevState' = stateKey'[stream[i].imei]
        BY <1>3 DEF ReadPrevious
      <3>2. CASE stateKey' = stateKey
        BY <3>1, <3>2
      <3>3. CASE stateKey' = [stateKey EXCEPT ![stream[i].imei] = 0]
        BY <1>0, <3>1, <3>3
      <3> QED
        BY <1>3, <3>2, <3>3 DEF ReadPrevious
    <2>2. UNCHANGED <<unset, tableVars, keyVars, queue, alertVars, shown>>
      BY <1>3 DEF ReadPrevious
    <2> QED
      BY <2>1, <2>2 DEF OwnTypeOK, tableVars, keyVars, alertVars
  <1>4. CASE SavePoint(i)
    BY <1>4 DEF SavePoint, OwnTypeOK, publisherVars, keyVars, localVars, alertVars
  <1>5. CASE UpdateLatestState(i)
    BY <1>5 DEF UpdateLatestState, OwnTypeOK, publisherVars, keyVars, localVars, alertVars
  <1>6. CASE Check(i)
    <2>1. at = "check"
      BY <1>6 DEF Check, Advance
    <2>2. queue' \in Seq(AlertTypes)
      <3>1. /\ IgnitionAlerts(stream[i], prevState) \in Seq(AlertTypes)
            /\ <<"excessive_idle">> \in Seq(AlertTypes)
        BY IgnitionAlertsType DEF AlertTypes
      <3>2. \/ queue' = IgnitionAlerts(stream[i], prevState)
            \/ queue' = IgnitionAlerts(stream[i], prevState) \o <<"excessive_idle">>
        BY <1>6 DEF Check
      <3> HIDE DEF TypeOK
      <3> QED
        BY <3>1, <3>2
    <2>3. idleStart' \subseteq Registered /\ idleFired' \subseteq Registered
      BY <1>6, <2>1 DEF Check
    <2>4. UNCHANGED <<publisherVars, tableVars, insideKey, prevState, alertVars, shown>>
      BY <1>6 DEF Check
    <2> QED
      BY <2>2, <2>3, <2>4 DEF OwnTypeOK, publisherVars, tableVars, alertVars
  <1>7. CASE CheckFence(i)
    <2>1. at = "fence"
      BY <1>7 DEF CheckFence, Advance
    <2>2. queue' \in Seq(AlertTypes)
      <3>1. \/ queue' = queue \/ queue' = Append(queue, "in") \/ queue' = Append(queue, "out")
        BY <1>7 DEF CheckFence
      <3>2. "in" \in AlertTypes /\ "out" \in AlertTypes /\ queue \in Seq(AlertTypes)
        BY DEF AlertTypes
      <3> HIDE DEF TypeOK
      <3> QED
        BY <3>1, <3>2
    <2>3. insideKey' \subseteq Registered /\ crossed' \subseteq Ids /\ astray' \subseteq Registered
      <3>1. PICK key \in {insideKey} \cup (IF MayBeGone THEN {insideKey \ {stream[i].imei}} ELSE {}) :
                /\ insideKey' \subseteq key \cup {stream[i].imei}
                /\ crossed' \subseteq crossed \cup {i}
                /\ astray' \subseteq astray \cup {stream[i].imei}
        BY <1>7 DEF CheckFence
      <3> QED
        BY <2>1, <3>1
    <2>4. UNCHANGED <<publisherVars, tableVars, idleStart, idleFired, prevState, raised,
                      fenceAlert, lost, shown>>
      BY <1>7 DEF CheckFence
    <2> QED
      BY <2>2, <2>3, <2>4 DEF OwnTypeOK, publisherVars, tableVars
  <1>8. CASE PublishAlert(i)
    <2>1. queue' \in Seq(AlertTypes)
      BY <1>8 DEF PublishAlert
    <2>2. raised' \subseteq AlertTypes \X Ids /\ fenceAlert' \in [Registered -> {"none", "in", "out"}]
      BY <1>8, AddAlertType DEF PublishAlert
    <2>3. UNCHANGED <<publisherVars, tableVars, keyVars, prevState, crossed, lost, astray, shown>>
      BY <1>8 DEF PublishAlert, cutVars
    <2> QED
      BY <2>1, <2>2, <2>3 DEF OwnTypeOK, publisherVars, tableVars, keyVars
  <1>9. CASE Finish(i)
    <2>1. shown' \in [Registered -> 0..Len(stream)]
      BY <1>9 DEF Finish
    <2>2. prevState' \in 0..Len(stream) /\ queue' \in Seq(AlertTypes)
      BY <1>0, <1>9, ForgetType DEF Finish
    <2>3. UNCHANGED <<publisherVars, tableVars, keyVars, alertVars>>
      BY <1>9 DEF Finish
    <2> QED
      BY <2>1, <2>2, <2>3 DEF OwnTypeOK, publisherVars, tableVars, keyVars, alertVars
  <1>10. CASE DbFails(i)
    <2>1. prevState' \in 0..Len(stream) /\ queue' \in Seq(AlertTypes)
      BY <1>0, <1>10, ForgetType DEF DbFails
    <2>2. /\ gpsPoints' \subseteq Ids /\ rawPackets' \subseteq Ids
          /\ latestState' \in [Registered -> 0..Len(stream)]
      BY <1>10 DEF DbFails
    <2>3. UNCHANGED <<publisherVars, keyVars, alertVars, shown>>
      BY <1>10 DEF DbFails
    <2> QED
      BY <2>1, <2>2, <2>3 DEF OwnTypeOK, publisherVars, keyVars, alertVars
  <1>11. CASE RedisFails(i)
    <2>1. prevState' \in 0..Len(stream) /\ queue' \in Seq(AlertTypes)
      BY <1>0, <1>11, ForgetType DEF RedisFails
    <2>2. idleStart' \subseteq Registered /\ idleFired' \subseteq Registered /\ insideKey' \subseteq Registered
      BY <1>11 DEF RedisFails, Failed, keyVars
    <2>3. raised' \subseteq AlertTypes \X Ids /\ fenceAlert' \in [Registered -> {"none", "in", "out"}]
      BY <1>11, AddAlertType DEF RedisFails
    <2>4. UNCHANGED <<publisherVars, tableVars, crossed, shown>>
      BY <1>11 DEF RedisFails
    <2>5. lost' \subseteq Ids /\ astray' \subseteq Registered
      <3>1. CASE UNCHANGED cutVars
        BY <3>1 DEF cutVars
      <3>2. CASE at = "publish" /\ (GiveUp(i, queue) \/ GiveUp(i, Tail(queue)))
        BY <3>2, GiveUpType
      <3> QED
        BY <1>11, <3>1, <3>2 DEF RedisFails, Failed
    <2> QED
      BY <2>1, <2>2, <2>3, <2>4, <2>5 DEF OwnTypeOK, publisherVars, tableVars
  <1> QED
    BY <1>1, <1>2, <1>3, <1>4, <1>5, <1>6, <1>7, <1>8, <1>9, <1>10, <1>11

-----------------------------------------------------------------------------
(* The invariant *)

LEMMA InvInit == Init => LocationInv
  <1> SUFFICES ASSUME Init PROVE LocationInv
    OBVIOUS
  <1>1. ReaderTypeOK /\ LoopHolds
    BY ReaderInitHolds DEF Init
  <1>2. Len(stream) = 0 /\ batch = {} /\ acked = {} /\ acknowledged = {} /\ at = "resolve"
    BY DEF Init, ReaderInit, LoopInit, StreamInit
  <1>3. OwnTypeOK
    BY <1>2 DEF Init, OwnTypeOK
  <1>4. ShownIsStored
    BY DEF Init, ShownIsStored
  <1> QED
    BY <1>1, <1>2, <1>3, <1>4, TypeParts
       DEF LocationInv, CurrentIsDone, ListedIsStored, AckedIsStored

(* What is stored stays stored: the tables only gain rows, and the entries *)
(* of the log do not change.                                               *)
Keeps ==
    /\ \A i \in Ids : i \in Ids' /\ stream'[i] = stream[i]
    /\ gpsPoints \subseteq gpsPoints'
    /\ \A v \in Registered : latestState[v] # 0 => latestState'[v] # 0

LEMMA StoredStays ==
    ASSUME Keeps, NEW i \in Ids, Known(i)
    PROVE  Known(i)' /\ (Stored(i) => Stored(i)')
  BY DEF Keeps, Stored, Known

(* A step that keeps what is stored, acknowledges only what was listed and *)
(* shows only what is stored.                                              *)
LEMMA SafeStep ==
    ASSUME LocationInv, ReaderTypeOK', OwnTypeOK', LoopHolds', Keeps,
           CurrentIsDone',
           \A i \in acked' : i \in acked \/ (i \in Ids /\ (Known(i) => Stored(i))),
           acknowledged' \subseteq acknowledged \cup acked,
           \A v \in Registered : shown'[v] # shown[v] =>
               shown'[v] \in Ids /\ stream[shown'[v]].imei = v /\ Stored(shown'[v])
    PROVE  LocationInv'
  <1>1. acked \subseteq Ids /\ acknowledged \subseteq Ids
    BY DEF LocationInv, TypeOK, ReaderTypeOK, StreamTypeOK, Ids
  <1>2. \A i \in Ids : (Known(i) => Stored(i)) => (Known(i)' => Stored(i)')
    BY StoredStays DEF Keeps, Known
  <1>3. ListedIsStored'
    BY <1>1, <1>2 DEF LocationInv, ListedIsStored
  <1>4. AckedIsStored'
    BY <1>1, <1>2 DEF LocationInv, AckedIsStored, ListedIsStored
  <1>5. TypeOK'
    BY DEF TypeOK, OwnTypeOK
  <1>6. ShownIsStored'
    <2> SUFFICES ASSUME NEW v \in Registered, shown'[v] # 0
                 PROVE  (stream[shown[v]].imei = v /\ Stored(shown[v]))'
      BY DEF ShownIsStored
    <2>1. /\ shown'[v] \in Ids
          /\ stream[shown'[v]].imei = v /\ Stored(shown'[v])
      BY <1>5 DEF LocationInv, ShownIsStored, TypeOK, Ids
    <2> QED
      BY <2>1 DEF Keeps, Stored
  <1> QED
    BY <1>3, <1>4, <1>5, <1>6 DEF LocationInv

LEMMA InvPublish == LocationInv /\ (Publish \/ SetStateKey) => LocationInv'
  <1> SUFFICES ASSUME LocationInv, Publish \/ SetStateKey PROVE LocationInv'
    OBVIOUS
  <1>1. ReaderTypeOK /\ LoopHolds /\ TypeOK /\ OwnTypeOK
    BY TypeParts DEF LocationInv
  <1>2. CASE Publish
    <2>1. PICK p \in Payloads : XAdd(p)
      BY <1>2 DEF Publish
    <2>2. /\ ReaderTypeOK' /\ LoopHolds' /\ acknowledged' = acknowledged
          /\ \A i \in Ids : i \in Ids' /\ stream'[i] = stream[i]
      BY <1>1, <1>2, <2>1, PublishHolds DEF Publish
    <2>3. Len(stream) \in Nat /\ Len(stream') = Len(stream) + 1
      BY <1>1, <2>1, XAddGrows DEF ReaderTypeOK, StreamTypeOK
    <2>4. /\ unset' = Len(stream')
          /\ UNCHANGED <<batch, acked, at, stateKey, tableVars, keyVars, localVars, alertVars, shown>>
      BY <1>2 DEF Publish, loopVars
    <2>5. OwnTypeOK'
      BY <1>1, <2>2, <2>3, <2>4 DEF OwnTypeOK, tableVars, keyVars, localVars, alertVars
    <2>6. batch \subseteq Ids
      BY <1>1 DEF ReaderTypeOK
    <2>7. Keeps /\ CurrentIsDone'
      BY <2>2, <2>4, <2>6 DEF Keeps, LocationInv, CurrentIsDone, Done, Known, tableVars
    <2> QED
      BY <2>2, <2>4, <2>5, <2>7, SafeStep
  <1>3. CASE SetStateKey
    <2>1. UNCHANGED <<readerVars, tableVars, shown>>
      BY <1>3 DEF SetStateKey
    <2>2. Len(stream) \in Nat
      BY <1>1 DEF ReaderTypeOK, StreamTypeOK
    <2>3. OwnTypeOK'
      <3>1. stateKey' \in [Imeis -> 0..Len(stream)] /\ unset' = 0
        BY <1>1, <1>3, <2>2 DEF SetStateKey, OwnTypeOK
      <3>2. UNCHANGED <<stream, tableVars, keyVars, localVars, alertVars, shown>>
        BY <1>3 DEF SetStateKey, readerVars, streamVars
      <3> QED
        BY <1>1, <2>2, <3>1, <3>2, SameLog
           DEF OwnTypeOK, tableVars, keyVars, localVars, alertVars
    <2>4. ReaderTypeOK' /\ LoopHolds'
      BY <1>1, <2>1
         DEF ReaderTypeOK, LoopHolds, StreamTypeOK, Ids, readerVars, streamVars, loopVars
    <2>5. Keeps /\ CurrentIsDone'
      BY <2>1 DEF Keeps, LocationInv, CurrentIsDone, Done, Known, Ids, readerVars, streamVars,
                  loopVars, tableVars
    <2> QED
      BY <2>1, <2>3, <2>4, <2>5, SafeStep DEF readerVars, streamVars, loopVars
  <1> QED
    BY <1>2, <1>3

LEMMA InvLoop == LocationInv /\ (Loop \/ Fault) => LocationInv'
  <1> SUFFICES ASSUME LocationInv, Loop \/ Fault PROVE LocationInv'
    OBVIOUS
  <1>1. ReaderTypeOK /\ LoopHolds /\ TypeOK /\ OwnTypeOK
    BY TypeParts DEF LocationInv
  <1>2. /\ ReaderTypeOK' /\ LoopHolds' /\ stream' = stream
        /\ acked' \subseteq acked /\ acknowledged' \subseteq acknowledged \cup acked
        /\ at' = "resolve" \/ (at' = at /\ batch' = batch)
    <2>1. CASE Loop
      BY <1>1, <2>1, LoopStepHolds DEF Loop
    <2>2. CASE Fault
      BY <1>1, <2>2, FaultHolds DEF Fault
    <2> QED
      BY <2>1, <2>2
  <1>3. UNCHANGED <<publisherVars, tableVars, keyVars, raised, fenceAlert, crossed, shown>>
    BY DEF Loop, Fault, alertVars
  <1>4. Len(stream) \in Nat
    BY <1>1 DEF ReaderTypeOK, StreamTypeOK
  <1>5. prevState' \in 0..Len(stream) /\ queue' \in Seq(AlertTypes)
    <2>1. CASE UNCHANGED localVars
      BY <1>1, <2>1 DEF OwnTypeOK, localVars
    <2>2. CASE Forget
      BY <1>4, <2>2, ForgetType
    <2> QED
      BY <2>1, <2>2 DEF Loop, Fault
  <1>6. OwnTypeOK'
    <2>1. lost' \subseteq Ids /\ astray' \subseteq Registered
      <3>1. CASE UNCHANGED cutVars
        BY <1>1, <3>1 DEF OwnTypeOK, cutVars
      <3>2. ASSUME at = "publish", NEW i \in batch, AtEntry(i), GiveUp(i, queue)
            PROVE  lost' \subseteq Ids /\ astray' \subseteq Registered
        <4>1. stream[i].imei \in Registered
          BY <3>2 DEF AtEntry, LocationInv, CurrentIsDone, Done, Known
        <4> QED
          BY <1>1, <3>2, <4>1, GiveUpType
      <3> QED
        BY <3>1, <3>2 DEF Loop, Fault, alertVars, cutVars
    <2> QED
      BY <1>1, <1>2, <1>3, <1>5, <2>1, SameLog DEF OwnTypeOK, publisherVars, tableVars, keyVars
  <1>7. Keeps
    BY <1>2, <1>3 DEF Keeps, Ids, tableVars
  <1>8. CurrentIsDone'
    BY <1>2, <1>3 DEF LocationInv, CurrentIsDone, Done, Known, tableVars
  <1> QED
    BY <1>2, <1>3, <1>6, <1>7, <1>8, SafeStep

(* What each step of an entry leaves done for it. *)
LEMMA InvEntry == LocationInv /\ (ProcessEntry \/ EntryFails) => LocationInv'
  <1> SUFFICES ASSUME LocationInv, NEW i \in batch,
                      \/ DropUnknown(i) \/ Resolve(i) \/ ReadPrevious(i) \/ SavePoint(i)
                      \/ UpdateLatestState(i) \/ Check(i) \/ CheckFence(i) \/ PublishAlert(i)
                      \/ Finish(i) \/ DbFails(i) \/ RedisFails(i)
               PROVE  LocationInv'
    BY DEF ProcessEntry, EntryFails
  <1>1. ReaderTypeOK /\ LoopHolds /\ TypeOK /\ OwnTypeOK
    BY TypeParts DEF LocationInv
  <1>2. i \in Ids /\ i # 0
    BY <1>1, EntryType
  <1>3. stream[i].imei \in Imeis
    BY <1>1, <1>2, LocationAssumption DEF ReaderTypeOK, StreamTypeOK, Ids, Reports
  <1>4. AtEntry(i)
    BY DEF DropUnknown, Resolve, ReadPrevious, SavePoint, UpdateLatestState, Check, CheckFence,
           PublishAlert, Finish, DbFails, RedisFails, Advance, Handled, Failed
  <1>5. Done(i)
    BY <1>4 DEF AtEntry, LocationInv, CurrentIsDone
  <1>6. at # "resolve" => stream[i].imei \in Registered
    BY <1>5 DEF Done, Known
  <1>7. CASE \/ Resolve(i) \/ ReadPrevious(i) \/ SavePoint(i) \/ UpdateLatestState(i)
             \/ Check(i) \/ CheckFence(i) \/ PublishAlert(i)
    <2>1. PICK here, next \in Steps : Advance(i, here, next)
      BY <1>7, StepsAre
         DEF Resolve, ReadPrevious, SavePoint, UpdateLatestState, Check, CheckFence, PublishAlert
    <2>2. /\ ReaderTypeOK' /\ LoopHolds' /\ UNCHANGED <<stream, acknowledged, batch, acked>>
          /\ \A k \in batch : (\A j \in batch : k <= j) => k = i
      BY <1>1, <2>1, AdvanceHolds
    <2>3. OwnTypeOK'
      BY <1>1, <1>3, <1>6, <1>7, <2>2, OwnTypeEntry
    <2>4. Keeps /\ shown' = shown
      <3>1. CASE UpdateLatestState(i)
        BY <1>1, <1>2, <2>2, <3>1 DEF Keeps, Ids, UpdateLatestState, OwnTypeOK
      <3>2. CASE ~UpdateLatestState(i)
        <4>1. /\ gpsPoints \subseteq gpsPoints' /\ UNCHANGED <<latestState, shown>>
          BY <1>7, <3>2
             DEF Resolve, ReadPrevious, SavePoint, Check, CheckFence, PublishAlert, tableVars
        <4> QED
          BY <2>2, <4>1 DEF Keeps, Ids
      <3> QED
        BY <3>1, <3>2
    <2>5. Done(i)'
      <3>1. CASE Resolve(i)
        BY <2>2, <3>1 DEF Resolve, Advance, Done, Known
      <3>2. CASE ReadPrevious(i) \/ Check(i) \/ CheckFence(i) \/ PublishAlert(i)
        BY <1>5, <2>2, <3>2
           DEF ReadPrevious, Check, CheckFence, PublishAlert, Advance, Done, Known, tableVars
      <3>3. CASE SavePoint(i)
        BY <1>5, <2>2, <3>3 DEF SavePoint, Advance, Done, Known
      <3>4. CASE UpdateLatestState(i)
        <4>1. stream[i].imei \in Registered
          BY <1>6, <3>4 DEF UpdateLatestState, Advance
        <4>2. latestState'[stream[i].imei] = i
          BY <1>1, <3>4, <4>1 DEF UpdateLatestState, OwnTypeOK
        <4> QED
          BY <1>2, <1>5, <2>2, <3>4, <4>1, <4>2 DEF UpdateLatestState, Advance, Done, Known
      <3> QED
        BY <1>7, <3>1, <3>2, <3>3, <3>4
    <2>6. CurrentIsDone'
      BY <2>2, <2>5 DEF CurrentIsDone
    <2> QED
      BY <2>2, <2>3, <2>4, <2>6, SafeStep
  <1>8. CASE DropUnknown(i) \/ Finish(i)
    <2>1. PICK here : Handled(i, here)
      BY <1>8 DEF DropUnknown, Finish
    <2>2. /\ ReaderTypeOK' /\ LoopHolds' /\ UNCHANGED <<stream, acknowledged>>
          /\ acked' = acked \cup {i} /\ at' = "resolve"
      BY <1>1, <2>1, HandledHolds
    <2>3. OwnTypeOK'
      BY <1>1, <1>3, <1>6, <1>8, <2>2, OwnTypeEntry
    <2>4. Keeps
      BY <1>8, <2>2 DEF Keeps, Ids, DropUnknown, Finish, tableVars
    <2>5. CurrentIsDone'
      BY <2>2 DEF CurrentIsDone, Done
    <2>6. /\ Known(i) => Stored(i)
          /\ \A v \in Registered : shown'[v] # shown[v] => v = stream[i].imei /\ shown'[v] = i
      <3>1. CASE DropUnknown(i)
        BY <3>1 DEF DropUnknown, Known
      <3>2. CASE Finish(i)
        <4>1. at \in {"check", "publish"}
          BY <3>2 DEF Finish, Handled
        <4>2. Stored(i)
          BY <1>5, <4>1 DEF Done, Stored
        <4> QED
          BY <1>1, <3>2, <4>2 DEF Finish, OwnTypeOK
      <3> QED
        BY <1>8, <3>1, <3>2
    <2>7. \A v \in Registered : shown'[v] # shown[v] =>
              shown'[v] \in Ids /\ stream[shown'[v]].imei = v /\ Stored(shown'[v])
      BY <1>2, <2>6 DEF Known
    <2> QED
      BY <1>2, <2>2, <2>3, <2>4, <2>5, <2>6, <2>7, SafeStep
  <1>9. CASE DbFails(i) \/ RedisFails(i)
    <2>1. PICK here : Failed(i, here)
      BY <1>9 DEF DbFails, RedisFails
    <2>2. /\ ReaderTypeOK' /\ LoopHolds' /\ UNCHANGED <<stream, acknowledged, acked>>
          /\ at' = "resolve"
      BY <1>1, <2>1, FailedHolds
    <2>3. OwnTypeOK'
      BY <1>1, <1>3, <1>6, <1>9, <2>2, OwnTypeEntry
    <2>4. Keeps /\ shown' = shown
      BY <1>1, <1>2, <1>9, <2>2 DEF Keeps, Ids, DbFails, RedisFails, tableVars, OwnTypeOK
    <2>5. CurrentIsDone'
      BY <2>2 DEF CurrentIsDone, Done
    <2> QED
      BY <2>2, <2>3, <2>4, <2>5, SafeStep
  <1> QED
    BY <1>7, <1>8, <1>9

LEMMA InvStutter == LocationInv /\ UNCHANGED vars => LocationInv'
  <1> SUFFICES ASSUME LocationInv, UNCHANGED vars PROVE LocationInv'
    OBVIOUS
  <1>1. UNCHANGED <<stream, acknowledged, batch, acked, at, tableVars, shown>>
    BY DEF vars, readerVars, streamVars, loopVars
  <1>2. ReaderTypeOK' /\ LoopHolds'
    BY DEF LocationInv, TypeOK, ReaderTypeOK, LoopHolds, StreamTypeOK, Ids, vars, readerVars,
           streamVars, loopVars
  <1>3. OwnTypeOK'
    BY <1>1, SameLog, TypeParts
       DEF LocationInv, OwnTypeOK, vars, publisherVars, tableVars, keyVars, localVars, alertVars
  <1>4. Keeps /\ CurrentIsDone'
    BY <1>1 DEF Keeps, LocationInv, CurrentIsDone, Done, Known, Ids, tableVars
  <1> QED
    BY <1>1, <1>2, <1>3, <1>4, SafeStep

(* Every conjunct of LocationInv holds in every reachable state.           *)
THEOREM LocationInvariance == Spec => []LocationInv
  <1>1. LocationInv /\ [Next]_vars => LocationInv'
    BY InvPublish, InvLoop, InvEntry, InvStutter DEF Next
  <1> QED
    BY InvInit, <1>1, PTL DEF Spec

(* A report of a known vehicle is acknowledged only once it is stored.     *)
THEOREM LocationAckedStored == Spec => []AckedIsStored
  <1>1. LocationInv => AckedIsStored
    BY DEF LocationInv
  <1> QED
    BY <1>1, LocationInvariance, PTL

(* The dashboard shows of each vehicle a stored report of that vehicle.    *)
THEOREM LocationShownStored == Spec => []ShownIsStored
  <1>1. LocationInv => ShownIsStored
    BY DEF LocationInv
  <1> QED
    BY <1>1, LocationInvariance, PTL

(* An acknowledged report raises no alert and is not shown again: only the *)
(* entry a batch is at does, and no acknowledged entry is in a batch.      *)
THEOREM LocationFinality == Spec => AckedIsFinal
  <1> DEFINE Final ==
        /\ \A a \in raised' \ raised : a[2] \notin acknowledged
        /\ \A v \in Registered : shown'[v] # shown[v] => shown'[v] \notin acknowledged
  <1>1. LocationInv /\ [Next]_vars => [Final]_vars
    <2> SUFFICES ASSUME LocationInv, Next PROVE Final
      OBVIOUS
    <2>1. acknowledged \cap batch = {}
      BY AckedNotHeld DEF LocationInv, TypeOK
    <2>2. CASE Publish \/ SetStateKey \/ Loop \/ Fault
      BY <2>2 DEF Publish, SetStateKey, Loop, Fault, alertVars
    <2>3. CASE ProcessEntry \/ EntryFails
      <3>1. PICK i \in batch :
                \/ DropUnknown(i) \/ Resolve(i) \/ ReadPrevious(i) \/ SavePoint(i)
                \/ UpdateLatestState(i) \/ Check(i) \/ CheckFence(i) \/ PublishAlert(i)
                \/ Finish(i) \/ DbFails(i) \/ RedisFails(i)
        BY <2>3 DEF ProcessEntry, EntryFails
      <3>2. raised' = raised \/ raised' = raised \cup {<<Head(queue), i>>}
        BY <3>1
           DEF DropUnknown, Resolve, ReadPrevious, SavePoint, UpdateLatestState, Check, CheckFence,
               PublishAlert, Finish, DbFails, RedisFails, AddAlert, alertVars
      <3>3. \A v \in Registered : shown'[v] # shown[v] => shown'[v] = i
        BY <3>1
           DEF DropUnknown, Resolve, ReadPrevious, SavePoint, UpdateLatestState, Check, CheckFence,
               PublishAlert, Finish, DbFails, RedisFails, LocationInv, TypeOK
      <3> QED
        BY <2>1, <3>2, <3>3
    <2> QED
      BY <2>2, <2>3 DEF Next
  <1>2. LocationInv /\ [Next]_vars => LocationInv'
    BY InvPublish, InvLoop, InvEntry, InvStutter DEF Next
  <1> QED
    BY InvInit, <1>1, <1>2, PTL DEF Spec, AckedIsFinal

(* Every variable has its type in every reachable state.                   *)
THEOREM LocationTypeCorrect == Spec => []TypeOK
  <1>1. LocationInv => TypeOK
    BY DEF LocationInv
  <1> QED
    BY <1>1, LocationInvariance, PTL

-----------------------------------------------------------------------------
(* The geofence key and the alerts stream                                  *)

Current(i) == i \in batch /\ \A j \in batch : i <= j
Holds(q, type) == \E n \in DOMAIN q : q[n] = type
Queued(type) == Holds(queue, type)

(* A key that says 'inside' and a crossing that was noted have their alert *)
(* on the stream, or in the queue of the entry that the batch is at, or    *)
(* lost it; and that queue holds no "out" of a vehicle whose key says      *)
(* 'inside', but after a SET that failed.                                  *)
KeyIsBacked ==
    /\ at # "publish" => \A v \in insideKey : fenceAlert[v] = "in" \/ v \in astray
    /\ at = "publish" => \A i \in batch : Current(i) => \A v \in insideKey :
          /\ fenceAlert[v] = "in" \/ (v = stream[i].imei /\ Queued("in")) \/ v \in astray
          /\ v = stream[i].imei => ~Queued("out") \/ v \in astray
Raised(i) == <<"in", i>> \in raised \/ <<"out", i>> \in raised
CrossingIsBacked ==
    \A i \in crossed :
        \/ Raised(i) \/ i \in lost
        \/ at = "publish" /\ Current(i) /\ (Queued("in") \/ Queued("out"))
FenceInv ==
    /\ LocationInv
    /\ at = "fence" => queue \in Seq(MovingTypes)
    /\ KeyIsBacked
    /\ CrossingIsBacked

LEMMA FenceInit == Init => FenceInv
  BY InvInit DEF Init, ReaderInit, FenceInv, KeyIsBacked, CrossingIsBacked

(* A step that is about neither the key nor the alerts, and leaves an      *)
(* entry only when its queue is empty.                                     *)
LEMMA FenceQuiet ==
    ASSUME FenceInv, LocationInv',
           \A i \in Ids : stream'[i] = stream[i],
           UNCHANGED <<raised, fenceAlert, crossed, lost, astray>>,
           insideKey' \subseteq insideKey,
           at' = "fence" => at = "fence" /\ queue' = queue,
           at' = "publish" => at = "publish" /\ queue' = queue /\ batch' = batch,
           at = "publish" /\ at' # "publish" => queue = <<>> /\ \E i \in batch : Current(i)
    PROVE  FenceInv'
  <1>1. batch \subseteq Ids
    BY DEF FenceInv, LocationInv, TypeOK, ReaderTypeOK
  <1>2. queue = <<>> => \A type : ~Queued(type)
    BY DEF Queued, Holds
  <1>3. at' = "fence" => queue' \in Seq(MovingTypes)'
    BY DEF FenceInv, MovingTypes, AlertTypes
  <1>4. CASE at' = "publish"
    <2>1. \A type : Queued(type)' <=> Queued(type)
      BY <1>4 DEF Queued, Holds
    <2>2. \A i : Current(i)' <=> Current(i)
      BY <1>4 DEF Current
    <2>3. KeyIsBacked'
      BY <1>1, <1>4, <2>1, <2>2 DEF FenceInv, KeyIsBacked
    <2>4. CrossingIsBacked'
      BY <1>4, <2>1, <2>2 DEF FenceInv, CrossingIsBacked, Raised
    <2> QED
      BY <1>3, <2>3, <2>4 DEF FenceInv
  <1>5. CASE at' # "publish"
    <2>1. \A v \in insideKey : fenceAlert[v] = "in" \/ v \in astray
      BY <1>2, <1>5 DEF FenceInv, KeyIsBacked
    <2>2. \A i \in crossed : Raised(i) \/ i \in lost
      BY <1>2, <1>5 DEF FenceInv, CrossingIsBacked
    <2> QED
      BY <1>3, <1>5, <2>1, <2>2 DEF FenceInv, KeyIsBacked, CrossingIsBacked, Raised
  <1> QED
    BY <1>4, <1>5

(* The alert that goes out is one of the queue, and the others stay.       *)
LEMMA HeadAndTail ==
    ASSUME NEW q \in Seq(AlertTypes), q # <<>>
    PROVE  \A type : Holds(q, type) <=> type = Head(q) \/ Holds(Tail(q), type)
  <1> SUFFICES ASSUME NEW type PROVE Holds(q, type) <=> type = Head(q) \/ Holds(Tail(q), type)
    OBVIOUS
  <1> DEFINE rest == Tail(q)
  <1>1. Len(q) \in Nat \ {0}
    OBVIOUS
  <1>2. /\ DOMAIN q = 1..Len(q) /\ DOMAIN rest = 1..(Len(q) - 1)
        /\ \A n \in 1..(Len(q) - 1) : rest[n] = q[n + 1]
        /\ Head(q) = q[1]
    BY <1>1
  <1> HIDE DEF rest
  <1>3. ASSUME NEW n \in DOMAIN q, q[n] = type
        PROVE  type = Head(q) \/ Holds(rest, type)
    <2>1. CASE n = 1
      BY <1>2, <1>3, <2>1
    <2>2. CASE n # 1
      <3>1. n - 1 \in 1..(Len(q) - 1) /\ n = (n - 1) + 1
        BY <1>1, <1>2, <1>3, <2>2
      <3> QED
        BY <1>2, <1>3, <3>1 DEF Holds
    <2> QED
      BY <2>1, <2>2
  <1>4. ASSUME NEW n \in DOMAIN rest, rest[n] = type
        PROVE  Holds(q, type)
    <2>1. n + 1 \in DOMAIN q /\ q[n + 1] = type
      BY <1>1, <1>2, <1>4
    <2> QED
      BY <2>1 DEF Holds
  <1>5. Holds(q, Head(q))
    BY <1>1, <1>2 DEF Holds
  <1> QED
    BY <1>3, <1>4, <1>5 DEF Holds, rest

LEMMA GiveUpKeeps ==
    ASSUME NEW i, NEW rest, GiveUp(i, rest)
    PROVE  /\ lost \subseteq lost' /\ astray \subseteq astray'
           /\ Holds(rest, "in") \/ Holds(rest, "out") => i \in lost' /\ stream[i].imei \in astray'
  <1> DEFINE some == \E n \in DOMAIN rest : rest[n] \in {"in", "out"}
             imei == stream[i].imei
  <1>1. Holds(rest, "in") \/ Holds(rest, "out") => some
    BY Zenon DEF Holds
  <1>2. IF some THEN lost' = lost \cup {i} /\ astray' = astray \cup {imei}
                ELSE lost' = lost /\ astray' = astray
    BY Zenon DEF GiveUp, cutVars
  <1> SUFFICES /\ lost \subseteq lost' /\ astray \subseteq astray'
               /\ some => i \in lost' /\ imei \in astray'
    BY <1>1, Zenon
  <1> HIDE DEF some, imei
  <1> QED
    BY <1>2

(* The entry the batch is at is left with these alerts in its queue: what  *)
(* is in them is astray and lost from then on.                             *)
LEMMA FenceGivenUp ==
    ASSUME FenceInv, LocationInv', NEW i \in batch, AtEntry(i), at = "publish", at' = "resolve",
           stream' = stream, UNCHANGED <<insideKey, crossed>>, NEW rest, GiveUp(i, rest),
           raised \subseteq raised',
           \A type \in {"in", "out"} : Queued(type) => Holds(rest, type) \/ <<type, i>> \in raised',
           \A u \in insideKey : fenceAlert[u] = "in" => fenceAlert'[u] = "in" \/ u \in astray,
           \A u \in insideKey : u = stream[i].imei /\ Queued("in") /\ ~Holds(rest, "in") =>
                fenceAlert'[u] = "in" \/ u \in astray
    PROVE  FenceInv'
  <1>1. Current(i) /\ \A k : Current(k) => k = i
    <2>1. batch \subseteq Int
      BY DEF FenceInv, LocationInv, TypeOK, ReaderTypeOK, Ids
    <2>2. i \in batch /\ \A j \in batch : i <= j
      BY DEF AtEntry
    <2>3. ASSUME NEW k, Current(k)
          PROVE  k = i
      <3>1. k \in batch /\ k <= i /\ i <= k
        BY <2>2, <2>3 DEF Current
      <3> QED
        BY <2>1, <2>2, <3>1
    <2> QED
      BY <2>2, <2>3 DEF Current
  <1>2. /\ lost \subseteq lost' /\ astray \subseteq astray'
        /\ Holds(rest, "in") \/ Holds(rest, "out") => i \in lost' /\ stream[i].imei \in astray'
    BY GiveUpKeeps
  <1>3. \A u \in insideKey : fenceAlert'[u] = "in" \/ u \in astray'
    <2> SUFFICES ASSUME NEW u \in insideKey, u \notin astray'
                 PROVE  fenceAlert'[u] = "in"
      OBVIOUS
    <2>1. u \notin astray
      BY <1>2
    <2>2. fenceAlert[u] = "in" \/ (u = stream[i].imei /\ Queued("in"))
      BY <1>1, <2>1 DEF FenceInv, KeyIsBacked
    <2> QED
      BY <1>2, <2>1, <2>2
  <1>4. \A k \in crossed : Raised(k)' \/ k \in lost'
    <2> SUFFICES ASSUME NEW k \in crossed, k \notin lost'
                 PROVE  Raised(k)'
      OBVIOUS
    <2>1. CASE Raised(k)
      BY <2>1 DEF Raised
    <2>2. CASE Current(k) /\ (Queued("in") \/ Queued("out"))
      BY <1>1, <1>2, <2>2 DEF Raised
    <2> QED
      BY <1>2, <2>1, <2>2 DEF FenceInv, CrossingIsBacked
  <1> QED
    BY <1>3, <1>4 DEF FenceInv, KeyIsBacked, CrossingIsBacked

(* The loop reads and acknowledges between two entries only.               *)
LEMMA LoopAtRest ==
    ASSUME LoopHolds, LoopStep
    PROVE  at = "resolve" /\ at' = at
  BY DEF LoopHolds, LoopStep, Ensure, Recover, Poll, Return, EndLoop

LEMMA FenceAround ==
    ASSUME FenceInv, LocationInv', Publish \/ SetStateKey \/ Loop \/ UNCHANGED vars
    PROVE  FenceInv'
  <1>1. LoopHolds /\ ReaderTypeOK
    BY DEF FenceInv, LocationInv, TypeOK
  <1>2. /\ \A i \in Ids : stream'[i] = stream[i]
        /\ UNCHANGED at
        /\ at # "resolve" => UNCHANGED <<batch, queue>>
    <2>1. CASE Publish
      BY <1>1, <2>1, XAddGrows DEF Publish, ReaderTypeOK, loopVars, localVars
    <2>2. CASE Loop
      BY <1>1, <2>2, LoopAtRest, LoopStepHolds DEF Loop
    <2>3. CASE SetStateKey \/ UNCHANGED vars
      BY <2>3 DEF SetStateKey, vars, readerVars, streamVars, loopVars, localVars
    <2> QED
      BY <2>1, <2>2, <2>3
  <1>3. UNCHANGED <<raised, fenceAlert, crossed, lost, astray>> /\ insideKey' \subseteq insideKey
    BY DEF Publish, SetStateKey, Loop, vars, keyVars, alertVars
  <1> QED
    BY <1>2, <1>3, FenceQuiet

(* The process may die between the key and the alert.                      *)
LEMMA FenceFault ==
    ASSUME FenceInv, LocationInv', Fault
    PROVE  FenceInv'
  <1>1. UNCHANGED <<stream, raised, fenceAlert, crossed, insideKey>>
    BY DEF Fault, ReplyLost, Signal, ProcessDies, PollLost, Deliver, keyVars, streamVars
  <1>2. CASE (ReplyLost \/ Signal) /\ UNCHANGED <<localVars, cutVars>>
    <2>1. UNCHANGED <<lost, astray, at, batch, queue>>
      BY <1>2 DEF ReplyLost, Signal, PollLost, StopLoop, loopVars, localVars, cutVars
    <2> QED
      BY <1>1, <2>1, FenceQuiet
  <1>3. ASSUME ProcessDies,
               \/ at # "publish" /\ UNCHANGED cutVars
               \/ at = "publish" /\ \E i \in batch : AtEntry(i) /\ GiveUp(i, queue)
        PROVE  FenceInv'
    <2>1. at' = "resolve"
      BY <1>3 DEF ProcessDies
    <2>2. CASE at # "publish" /\ UNCHANGED cutVars
      BY <1>1, <2>1, <2>2, FenceQuiet DEF cutVars
    <2>3. ASSUME at = "publish", NEW i \in batch, AtEntry(i), GiveUp(i, queue)
          PROVE  FenceInv'
      <3>1. \A type : Queued(type) => Holds(queue, type)
        BY DEF Queued
      <3> QED
        BY <1>1, <2>1, <2>3, <3>1, FenceGivenUp
    <2> QED
      BY <1>3, <2>2, <2>3
  <1> QED
    BY <1>2, <1>3 DEF Fault

(* The alert is put into the queue with the key. *)
LEMMA FenceChecked ==
    ASSUME FenceInv, LocationInv', NEW i \in batch, CheckFence(i)
    PROVE  FenceInv'
  <1> DEFINE v == stream[i].imei
  <1>1. /\ at = "fence" /\ at' = "publish" /\ AtEntry(i)
        /\ UNCHANGED <<stream, batch, raised, fenceAlert, lost>>
    BY DEF CheckFence, Advance, streamVars, loopVars
  <1>2. Current(i)' /\ \A k : Current(k)' => k = i
    <2>1. i \in batch /\ batch \subseteq Int /\ \A j \in batch : i <= j
      BY <1>1 DEF AtEntry, FenceInv, LocationInv, TypeOK, ReaderTypeOK, Ids
    <2>2. batch' = batch
      BY <1>1
    <2>3. ASSUME NEW k, k \in batch', \A j \in batch' : k <= j
          PROVE  k = i
      BY <2>1, <2>2, <2>3
    <2> QED
      BY <2>1, <2>2, <2>3 DEF Current
  <1>3. queue \in Seq(MovingTypes) /\ \A u \in insideKey : fenceAlert[u] = "in" \/ u \in astray
    BY <1>1 DEF FenceInv, KeyIsBacked
  <1>4. \A k \in crossed : Raised(k) \/ k \in lost
    BY <1>1 DEF FenceInv, CrossingIsBacked
  <1>5. ~Queued("in") /\ ~Queued("out")
    BY <1>3 DEF Queued, Holds, MovingTypes
  <1>6. CASE queue' = queue /\ insideKey' \subseteq insideKey /\ crossed' = crossed /\ astray' = astray
    BY <1>1, <1>3, <1>4, <1>5, <1>6 DEF FenceInv, KeyIsBacked, CrossingIsBacked, Queued, Holds, Raised
  <1>7. CASE insideKey' \subseteq insideKey /\ crossed' = crossed /\ astray' = astray \cup {v}
    <2> HIDE DEF v
    <2>1. \A u \in insideKey' : fenceAlert'[u] = "in" \/ u \in astray'
      BY <1>1, <1>3, <1>7
    <2>2. stream'[i].imei = v /\ v \in astray'
      BY <1>1, <1>7 DEF v
    <2>3. KeyIsBacked'
      BY <1>1, <1>2, <2>1, <2>2 DEF KeyIsBacked
    <2>4. CrossingIsBacked'
      BY <1>1, <1>4, <1>7 DEF CrossingIsBacked, Raised
    <2> QED
      BY <1>1, <2>3, <2>4 DEF FenceInv
  <1>8. ASSUME NEW type \in {"in", "out"}, queue' = Append(queue, type), crossed' = crossed \cup {i},
               insideKey' \subseteq insideKey \cup {v}, v \in insideKey' => type = "in",
               astray' = astray \ {v}
        PROVE  FenceInv'
    <2>1. Queued(type)' /\ \A other \in {"in", "out"} : other # type => ~Queued(other)'
      <3>1. /\ DOMAIN queue' = 1..(Len(queue) + 1) /\ Len(queue) \in Nat
            /\ DOMAIN queue = 1..Len(queue)
            /\ queue'[Len(queue) + 1] = type
            /\ \A n \in 1..Len(queue) : queue'[n] = queue[n]
        BY <1>3, <1>8
      <3>2. ASSUME NEW other \in {"in", "out"}, other # type, NEW n \in DOMAIN queue', queue'[n] = other
            PROVE  FALSE
        <4>1. n \in DOMAIN queue /\ queue[n] = other
          BY <3>1, <3>2
        <4> QED
          BY <1>5, <3>2, <4>1 DEF Queued, Holds
      <3> QED
        BY <3>1, <3>2 DEF Queued, Holds
    <2> HIDE DEF v
    <2>2. \A u \in insideKey' : fenceAlert'[u] = "in" \/ (u = v /\ type = "in") \/ u \in astray'
      BY <1>1, <1>3, <1>8
    <2>3. v \in insideKey' => type = "in"
      BY <1>8
    <2>4. stream'[i].imei = v
      BY <1>1 DEF v
    <2>5. KeyIsBacked'
      BY <1>1, <1>2, <2>1, <2>2, <2>3, <2>4 DEF KeyIsBacked
    <2>6. CrossingIsBacked'
      BY <1>1, <1>2, <1>4, <1>8, <2>1 DEF CrossingIsBacked, Raised
    <2> QED
      BY <1>1, <2>5, <2>6 DEF FenceInv
  <1> QED
    BY <1>6, <1>7, <1>8 DEF CheckFence

LEMMA FencePublished ==
    ASSUME FenceInv, LocationInv', NEW i \in batch, PublishAlert(i)
    PROVE  FenceInv'
  <1> DEFINE v == stream[i].imei
             h == Head(queue)
  <1>1. /\ at = "publish" /\ at' = "publish" /\ AtEntry(i) /\ queue # <<>> /\ queue' = Tail(queue)
        /\ UNCHANGED <<stream, batch, insideKey, crossed, lost, astray>>
        /\ raised' = raised \cup {<<h, i>>}
        /\ fenceAlert' = IF h \in {"in", "out"} THEN [fenceAlert EXCEPT ![v] = h] ELSE fenceAlert
    BY DEF PublishAlert, AddAlert, Advance, streamVars, loopVars, keyVars, cutVars
  <1>2. Current(i) /\ \A k : Current(k)' <=> Current(k)
    BY <1>1 DEF AtEntry, Current
  <1>3. \A k : Current(k) => k = i
    <2>1. batch \subseteq Int
      BY DEF FenceInv, LocationInv, TypeOK, ReaderTypeOK, Ids
    <2> QED
      BY <1>2, <2>1 DEF Current
  <1>4. \A type : Queued(type) <=> type = h \/ Queued(type)'
    <2>1. queue \in Seq(AlertTypes)
      BY DEF FenceInv, LocationInv, TypeOK
    <2> QED
      BY <1>1, <2>1, HeadAndTail DEF Queued
  <1>5. \A u \in insideKey :
            /\ fenceAlert[u] = "in" \/ (u = v /\ Queued("in")) \/ u \in astray
            /\ u = v => ~Queued("out") \/ u \in astray
    BY <1>1, <1>2 DEF FenceInv, KeyIsBacked
  <1>6. fenceAlert \in [Registered -> {"none", "in", "out"}] /\ insideKey \subseteq Registered
    BY DEF FenceInv, LocationInv, TypeOK
  <1>7. stream'[i].imei = v
    BY <1>1
  <1> HIDE DEF v, h
  <1>8. ASSUME NEW u \in insideKey
        PROVE  /\ fenceAlert'[u] = "in" \/ (u = v /\ Queued("in")') \/ u \in astray
               /\ u = v => ~Queued("out")' \/ u \in astray
    <2>1. u \in astray \/ (u = v => ~Queued("out")' /\ h # "out")
      BY <1>4, <1>5
    <2>2. CASE u = v /\ h = "in"
      BY <1>1, <1>6, <2>1, <2>2
    <2>3. CASE u # v \/ h # "in"
      BY <1>1, <1>4, <1>5, <1>6, <2>1, <2>3
    <2> QED
      BY <2>1, <2>2, <2>3
  <1>9. KeyIsBacked'
    BY <1>1, <1>2, <1>3, <1>7, <1>8 DEF KeyIsBacked
  <1>10. CrossingIsBacked'
    <2> SUFFICES ASSUME NEW k \in crossed
                 PROVE  \/ Raised(k)' \/ k \in lost
                        \/ Current(k)' /\ (Queued("in")' \/ Queued("out")')
      BY <1>1 DEF CrossingIsBacked
    <2>1. CASE Current(k) /\ (Queued("in") \/ Queued("out"))
      BY <1>1, <1>2, <1>3, <1>4, <2>1 DEF Raised
    <2>2. CASE Raised(k)
      BY <1>1, <2>2 DEF Raised
    <2> QED
      BY <1>1, <2>1, <2>2 DEF FenceInv, CrossingIsBacked
  <1> QED
    BY <1>1, <1>9, <1>10 DEF FenceInv

(* An XADD fails: the alert at the head may be on the stream nevertheless. *)
LEMMA FenceUnpublished ==
    ASSUME FenceInv, LocationInv', NEW i \in batch, AtEntry(i), at = "publish", at' = "resolve",
           stream' = stream, UNCHANGED <<insideKey, crossed>>, queue # <<>>,
           \/ AddAlert(i) /\ GiveUp(i, Tail(queue))
           \/ GiveUp(i, queue) /\ UNCHANGED <<raised, fenceAlert>>
    PROVE  FenceInv'
  <1>1. CASE GiveUp(i, queue) /\ UNCHANGED <<raised, fenceAlert>>
    <2>1. \A type : Queued(type) => Holds(queue, type)
      BY DEF Queued
    <2> QED
      BY <1>1, <2>1, FenceGivenUp
  <1>2. CASE AddAlert(i) /\ GiveUp(i, Tail(queue))
    <2> DEFINE h == Head(queue)
               v == stream[i].imei
    <2>1. \A type : Queued(type) <=> type = h \/ Holds(Tail(queue), type)
      <3>1. queue \in Seq(AlertTypes)
        BY DEF FenceInv, LocationInv, TypeOK
      <3> QED
        BY <3>1, HeadAndTail DEF Queued
    <2>2. /\ raised' = raised \cup {<<h, i>>}
          /\ fenceAlert' = IF h \in {"in", "out"} THEN [fenceAlert EXCEPT ![v] = h] ELSE fenceAlert
      BY <1>2 DEF AddAlert
    <2>3. fenceAlert \in [Registered -> {"none", "in", "out"}] /\ insideKey \subseteq Registered
      BY DEF FenceInv, LocationInv, TypeOK
    <2>4. \A u \in insideKey : u = v => ~Queued("out") \/ u \in astray
      BY DEF FenceInv, KeyIsBacked, AtEntry, Current
    <2> HIDE DEF h, v
    <2>5. \A u \in insideKey : fenceAlert[u] = "in" => fenceAlert'[u] = "in" \/ u \in astray
      BY <2>1, <2>2, <2>3, <2>4
    <2>6. \A u \in insideKey : u = v /\ Queued("in") /\ ~Holds(Tail(queue), "in") => fenceAlert'[u] = "in"
      BY <2>1, <2>2, <2>3
    <2>7. \A type \in {"in", "out"} : Queued(type) => Holds(Tail(queue), type) \/ <<type, i>> \in raised'
      BY <2>1, <2>2
    <2>8. raised \subseteq raised'
      BY <2>2
    <2> QED
      BY <1>2, <2>5, <2>6, <2>7, <2>8, FenceGivenUp DEF v
  <1> QED
    BY <1>1, <1>2

LEMMA FenceEntry ==
    ASSUME FenceInv, LocationInv', ProcessEntry \/ EntryFails
    PROVE  FenceInv'
  <1> PICK i \in batch :
          \/ DropUnknown(i) \/ Resolve(i) \/ ReadPrevious(i) \/ SavePoint(i)
          \/ UpdateLatestState(i) \/ Check(i) \/ CheckFence(i) \/ PublishAlert(i) \/ Finish(i)
          \/ DbFails(i) \/ RedisFails(i)
    BY DEF ProcessEntry, EntryFails
  <1>1. AtEntry(i) /\ stream' = stream
    BY DEF DropUnknown, Resolve, ReadPrevious, SavePoint, UpdateLatestState, Check, CheckFence,
           PublishAlert, Finish, DbFails, RedisFails, Advance, Handled, Failed, streamVars
  <1>2. Current(i)
    BY <1>1 DEF AtEntry, Current
  <1>3. CASE \/ DropUnknown(i) \/ Resolve(i) \/ ReadPrevious(i) \/ SavePoint(i)
             \/ UpdateLatestState(i) \/ Finish(i) \/ DbFails(i)
    <2>1. at' \notin {"fence", "publish"} /\ (at = "publish" => queue = <<>>)
      BY <1>3 DEF DropUnknown, Resolve, ReadPrevious, SavePoint, UpdateLatestState, Finish, DbFails,
                  Advance, Handled, Failed
    <2>2. UNCHANGED <<raised, fenceAlert, crossed, lost, astray, insideKey>>
      BY <1>3 DEF DropUnknown, Resolve, ReadPrevious, SavePoint, UpdateLatestState, Finish, DbFails,
                  keyVars, alertVars
    <2> QED
      BY <1>1, <1>2, <2>1, <2>2, FenceQuiet
  <1>4. CASE Check(i)
    <2>1. /\ at = "check" /\ at' = "fence"
          /\ UNCHANGED <<raised, fenceAlert, crossed, lost, astray, insideKey>>
      BY <1>4 DEF Check, Advance, alertVars
    <2>2. queue' \in Seq(MovingTypes)
      <3>1. /\ IgnitionAlerts(stream[i], prevState) \in Seq(MovingTypes)
            /\ <<"excessive_idle">> \in Seq(MovingTypes)
        BY IgnitionAlertsMoving DEF MovingTypes, AlertTypes
      <3>2. \/ queue' = IgnitionAlerts(stream[i], prevState)
            \/ queue' = IgnitionAlerts(stream[i], prevState) \o <<"excessive_idle">>
        BY <1>4 DEF Check
      <3> QED
        BY <3>1, <3>2
    <2>3. queue' \in Seq(MovingTypes)'
      BY <2>2 DEF MovingTypes, AlertTypes
    <2> QED
      BY <2>1, <2>3 DEF FenceInv, KeyIsBacked, CrossingIsBacked, Raised
  <1>5. CASE CheckFence(i)
    BY <1>5, FenceChecked
  <1>6. CASE PublishAlert(i)
    BY <1>6, FencePublished
  <1>7. CASE RedisFails(i)
    <2>1. at' = "resolve" /\ UNCHANGED <<insideKey, crossed>>
      BY <1>7 DEF RedisFails, Failed, keyVars
    <2>2. CASE at \in {"previous", "check"} /\ UNCHANGED <<raised, fenceAlert, cutVars>>
      BY <1>1, <2>1, <2>2, FenceQuiet DEF cutVars
    <2>3. CASE /\ at = "publish" /\ queue # <<>>
               /\ \/ AddAlert(i) /\ GiveUp(i, Tail(queue))
                  \/ GiveUp(i, queue) /\ UNCHANGED <<raised, fenceAlert>>
      BY <1>1, <2>1, <2>3, FenceUnpublished
    <2> QED
      BY <1>7, <2>2, <2>3 DEF RedisFails, Failed
  <1> QED
    BY <1>3, <1>4, <1>5, <1>6, <1>7

LEMMA FenceInvariance == Spec => []FenceInv
  <1>1. FenceInv /\ [Next]_vars => FenceInv'
    <2> SUFFICES ASSUME FenceInv, [Next]_vars PROVE FenceInv'
      OBVIOUS
    <2>1. LocationInv'
      BY InvPublish, InvLoop, InvEntry, InvStutter DEF Next, FenceInv
    <2> QED
      BY <2>1, FenceAround, FenceFault, FenceEntry DEF Next
  <1> QED
    BY FenceInit, <1>1, PTL DEF Spec

(* Whatever fails, dies or expires, a key that says 'inside' has the alert *)
(* "in" as the last one of its vehicle, except between the two writes and  *)
(* for the vehicles that a give-up between them or a failing SET has left  *)
(* astray until they cross again.                                          *)
THEOREM FenceFollows == Spec => []FenceAlertFollowsKey
  <1>1. FenceInv => FenceAlertFollowsKey
    BY DEF FenceInv, KeyIsBacked, FenceAlertFollowsKey
  <1> QED
    BY <1>1, FenceInvariance, PTL

(* Under every set of faults a report at which the geofence key changed is *)
(* acknowledged only after its alert is on the stream, or was left between *)
(* the key and the alert: until then it is the entry that the batch is at, *)
(* with the alert in its queue.                                            *)
THEOREM CrossingsRaised == Spec => []CrossingRaised
  <1>1. FenceInv => CrossingRaised
    <2> SUFFICES ASSUME FenceInv PROVE CrossingRaised
      OBVIOUS
    <2>1. acknowledged \cap batch = {}
      BY AckedNotHeld DEF FenceInv, LocationInv, TypeOK
    <2> QED
      BY <2>1 DEF FenceInv, CrossingIsBacked, CrossingRaised, Current, Raised
  <1> QED
    BY <1>1, FenceInvariance, PTL
=============================================================================
