----------------------------- MODULE AlertProofs -----------------------------
(* Safety of AlertSubscriber, for every number of alerts, batch size and   *)
(* set of faults.                                                          *)
EXTENDS AlertSubscriber, TLAPS

-----------------------------------------------------------------------------
(* The stream and its group: every operation on them keeps StreamTypeOK.  *)

(* XADD makes the log longer, and the entries already there stay as they   *)
(* are.                                                                    *)
LEMMA XAddGrows ==
    ASSUME StreamTypeOK, NEW p \in Payloads, XAdd(p)
    PROVE  /\ stream' \in Seq(Payloads)
           /\ Len(stream') = Len(stream) + 1
           /\ \A i \in Ids : i \in Ids' /\ stream'[i] = stream[i]
  BY DEF StreamTypeOK, XAdd, Ids

LEMMA XAddType ==
    ASSUME StreamTypeOK, NEW p \in Payloads, XAdd(p)
    PROVE  StreamTypeOK'
  <1>1. stream' \in Seq(Payloads) /\ Len(stream') = Len(stream) + 1
    BY XAddGrows
  <1>2. trimmed' \in Nat
    BY DEF XAdd, StreamTypeOK
  <1>3. lastDelivered' \in 0..Len(stream')
    BY <1>1 DEF XAdd, StreamTypeOK
  <1> QED
    BY <1>1, <1>2, <1>3 DEF XAdd, StreamTypeOK

LEMMA EnsureGroupType ==
    ASSUME StreamTypeOK, EnsureGroup
    PROVE  StreamTypeOK' /\ lastDelivered' >= lastDelivered
  BY DEF StreamTypeOK, EnsureGroup

(* A fresh read returns entries that were never delivered before. *)
LEMMA NewEntriesAreNew == NewEntries \subseteq {i \in Ids : i > lastDelivered}
  BY DEF NewEntries, Lowest

LEMMA DeliverType ==
    ASSUME StreamTypeOK, Deliver(NewEntries)
    PROVE  /\ StreamTypeOK'
           /\ lastDelivered' >= lastDelivered
           /\ NewEntries \subseteq (lastDelivered + 1)..lastDelivered'
  <1> PICK last \in NewEntries : (\A i \in NewEntries : i <= last) /\ lastDelivered' = last
    BY DEF Deliver
  <1>1. lastDelivered \in 0..Len(stream) /\ Len(stream) \in Nat
    BY DEF StreamTypeOK
  <1>2. last \in Ids /\ last > lastDelivered
    BY NewEntriesAreNew
  <1>3. NewEntries \subseteq (lastDelivered + 1)..last
    BY <1>1, <1>2, NewEntriesAreNew DEF Ids
  <1>4. NewEntries \subseteq (lastDelivered + 1)..lastDelivered'
    BY <1>3
  <1>5. lastDelivered' \in 0..Len(stream) /\ lastDelivered' > lastDelivered
    BY <1>1, <1>2 DEF Ids
  <1>6. /\ stream' = stream /\ trimmed' = trimmed /\ groupExists' = groupExists
        /\ acknowledged' = acknowledged
        /\ pel' = pel \cup NewEntries /\ owned' = owned \cup NewEntries
    BY DEF Deliver
  <1>7. pel' \subseteq 1..lastDelivered'
    BY <1>1, <1>4, <1>5, <1>6 DEF StreamTypeOK
  <1>8. acknowledged' \subseteq (1..lastDelivered') \ pel'
    BY <1>1, <1>4, <1>5, <1>6 DEF StreamTypeOK
  <1> QED
    BY <1>1, <1>4, <1>5, <1>6, <1>7, <1>8 DEF StreamTypeOK

(* Recovery returns entries this consumer still owes an XACK. *)
LEMMA PendingEntriesAreOwned == PendingEntries \subseteq owned
  BY DEF PendingEntries, Lowest

LEMMA XAckType ==
    ASSUME StreamTypeOK, NEW ids, XAck(ids)
    PROVE  StreamTypeOK'
  BY DEF StreamTypeOK, XAck

-----------------------------------------------------------------------------
(* The loop *)

LEMMA ReaderInitHolds == ReaderInit => ReaderTypeOK /\ LoopHolds
  <1> SUFFICES ASSUME ReaderInit PROVE ReaderTypeOK /\ LoopHolds
    OBVIOUS
  <1>1. stream \in Seq(Payloads) /\ Len(stream) = 0 /\ lastDelivered = 0
    BY DEF ReaderInit, LoopInit, StreamInit
  <1>2. /\ trimmed = 0 /\ pel = {} /\ owned = {} /\ acknowledged = {}
        /\ batch = {} /\ acked = {}
        /\ pc = "down" /\ mode = "recovering" /\ at = "resolve"
    BY DEF ReaderInit, LoopInit, StreamInit
  <1>3. groupExists \in BOOLEAN
    BY Zenon DEF ReaderInit, LoopInit, StreamInit
  <1>4. StreamTypeOK
    BY <1>1, <1>2, <1>3 DEF StreamTypeOK
  <1> QED
    BY <1>2, <1>4, StepsAssumption DEF ReaderTypeOK, LoopHolds

LEMMA PublishHolds ==
    ASSUME ReaderTypeOK, LoopHolds, NEW p \in Payloads, XAdd(p), UNCHANGED <<loopVars, at>>
    PROVE  /\ ReaderTypeOK' /\ LoopHolds'
           /\ acknowledged' = acknowledged
           /\ \A i \in Ids : i \in Ids' /\ stream'[i] = stream[i]
  <1>1. StreamTypeOK'
    BY XAddType DEF ReaderTypeOK
  <1>2. \A i \in Ids : i \in Ids' /\ stream'[i] = stream[i]
    BY XAddGrows DEF ReaderTypeOK
  <1>3. owned' = owned /\ acknowledged' = acknowledged
    BY DEF XAdd
  <1> QED
    BY <1>1, <1>2, <1>3 DEF ReaderTypeOK, LoopHolds, loopVars

(* The loop only moves entries between the stream and its batch; it is     *)
(* never in the middle of an entry when it does.                           *)
LEMMA LoopStepHolds ==
    ASSUME ReaderTypeOK, LoopHolds, LoopStep
    PROVE  /\ ReaderTypeOK' /\ LoopHolds'
           /\ stream' = stream /\ at' = "resolve"
           /\ acked' \subseteq acked
           /\ acknowledged' \subseteq acknowledged \cup acked
  <1> USE DEF ReaderTypeOK, LoopHolds, streamVars
  <1>1. CASE Ensure
    <2>1. StreamTypeOK' /\ stream' = stream
      BY <1>1, EnsureGroupType DEF Ensure, EnsureGroup
    <2> QED
      BY <1>1, <2>1 DEF Ensure, EnsureGroup, LoopStep, Ids
  <1>2. CASE Recover
    <2>1. PendingEntries \subseteq Ids
      BY PendingEntriesAreOwned DEF StreamTypeOK, Ids
    <2> QED
      BY <1>2, <2>1, PendingEntriesAreOwned DEF Recover, LoopStep, StreamTypeOK, Ids
  <1>3. CASE Poll
    <2>1. StreamTypeOK' /\ NewEntries \subseteq Ids
      BY <1>3, DeliverType, NewEntriesAreNew DEF Poll
    <2> QED
      BY <1>3, <2>1 DEF Poll, Deliver, LoopStep, Ids
  <1>4. CASE Return
    <2>1. StreamTypeOK' /\ stream' = stream /\ acknowledged' \subseteq acknowledged \cup acked
      <3>1. CASE XAck(acked)
        BY <3>1, XAckType DEF XAck
      <3>2. CASE UNCHANGED streamVars
        BY <3>2 DEF StreamTypeOK
      <3> QED
        BY <1>4, <3>1, <3>2 DEF Return
    <2> QED
      BY <1>4, <2>1 DEF Return, NextRead, LoopStep, Ids
  <1>5. CASE EndLoop
    BY <1>5 DEF EndLoop, LoopStep, StreamTypeOK, Ids
  <1> QED
    BY <1>1, <1>2, <1>3, <1>4, <1>5 DEF LoopStep

LEMMA FaultHolds ==
    ASSUME ReaderTypeOK, LoopHolds, ReplyLost \/ Signal \/ ProcessDies
    PROVE  /\ ReaderTypeOK' /\ LoopHolds'
           /\ stream' = stream /\ acknowledged' = acknowledged
           /\ acked' \subseteq acked
           /\ \/ batch' = batch /\ at' = at
              \/ batch' = {} /\ at' = "resolve"
  <1> USE DEF ReaderTypeOK, LoopHolds
  <1>1. CASE ReplyLost
    <2>1. StreamTypeOK' /\ stream' = stream /\ owned \subseteq owned'
      BY <1>1, DeliverType DEF ReplyLost, PollLost, Deliver
    <2> QED
      BY <1>1, <2>1 DEF ReplyLost, PollLost, Deliver, loopVars, Ids
  <1>2. CASE Signal
    BY <1>2 DEF Signal, StopLoop, streamVars, StreamTypeOK, Ids
  <1>3. CASE ProcessDies
    BY <1>3, StepsAssumption DEF ProcessDies, LoopDies, streamVars, StreamTypeOK, Ids
  <1> QED
    BY <1>1, <1>2, <1>3

LEMMA AdvanceHolds ==
    ASSUME ReaderTypeOK, LoopHolds, NEW i \in batch, NEW here, NEW next \in Steps,
           Advance(i, here, next)
    PROVE  /\ ReaderTypeOK' /\ LoopHolds'
           /\ UNCHANGED <<stream, acknowledged, batch, acked>>
           /\ at' = next
           /\ \A k \in batch : (\A j \in batch : k <= j) => k = i
  <1>1. \A j \in batch : i <= j /\ j \in Int
    BY DEF Advance, AtEntry, ReaderTypeOK, Ids
  <1> QED
    BY <1>1 DEF Advance, ReaderTypeOK, LoopHolds, streamVars, loopVars, StreamTypeOK, Ids

LEMMA HandledHolds ==
    ASSUME ReaderTypeOK, LoopHolds, NEW i \in batch, NEW here, Handled(i, here)
    PROVE  /\ ReaderTypeOK' /\ LoopHolds'
           /\ UNCHANGED <<stream, acknowledged>>
           /\ acked' = acked \cup {i} /\ at' = "resolve"
  BY StepsAssumption
     DEF Handled, AtEntry, ReaderTypeOK, LoopHolds, streamVars, StreamTypeOK, Ids

LEMMA FailedHolds ==
    ASSUME ReaderTypeOK, LoopHolds, NEW i \in batch, NEW here, Failed(i, here)
    PROVE  /\ ReaderTypeOK' /\ LoopHolds'
           /\ UNCHANGED <<stream, acknowledged, acked>>
           /\ at' = "resolve"
  BY StepsAssumption
     DEF Failed, AtEntry, ReaderTypeOK, LoopHolds, streamVars, StreamTypeOK, Ids

(* An acknowledged entry is not in the subscriber's hands.                 *)
LEMMA AckedNotHeld ==
    ASSUME ReaderTypeOK, LoopHolds
    PROVE  acknowledged \cap batch = {}
  BY DEF ReaderTypeOK, LoopHolds, StreamTypeOK

-----------------------------------------------------------------------------
LEMMA OneMoreType ==
    ASSUME NEW count \in [Alerts -> 0..Many], NEW i \in Alerts
    PROVE  /\ OneMore(count, i) \in [Alerts -> 0..Many]
           /\ \A k \in Alerts : OneMore(count, i)[k] >= count[k]
           /\ OneMore(count, i)[i] > 0
           /\ OneMore(count, i)[i] > count[i] \/ OneMore(count, i)[i] = Many
           /\ \A k \in Alerts \ {i} : OneMore(count, i)[k] = count[k]
  <1> DEFINE more == IF count[i] < Many THEN count[i] + 1 ELSE Many
  <1>1. more \in 0..Many /\ more >= count[i] /\ more > 0 /\ (more > count[i] \/ more = Many)
    BY AlertAssumption
  <1>2. OneMore(count, i) = [count EXCEPT ![i] = more]
    BY DEF OneMore
  <1> HIDE DEF more
  <1> QED
    BY <1>1, <1>2

(* Entries are numbered within the bound on XADDs. *)
LogBound == Len(stream) <= MaxEntries

LEMMA IdsAreAlerts ==
    ASSUME ReaderTypeOK, LogBound
    PROVE  Ids \subseteq Alerts
  BY StreamAssumption DEF ReaderTypeOK, StreamTypeOK, LogBound, Ids, Alerts

LEMMA StepsAre == "resolve" \in Steps /\ "save" \in Steps /\ "notify" \in Steps
  BY AlertAssumption

IInv == AlertInv /\ LogBound

LEMMA InvInit == Init => IInv
  <1> SUFFICES ASSUME Init PROVE IInv
    OBVIOUS
  <1>1. ReaderTypeOK /\ LoopHolds
    BY ReaderInitHolds DEF Init
  <1>2. rows = [i \in Alerts |-> 0] /\ sent = [i \in Alerts |-> 0]
    BY DEF Init
  <1>3. at = "resolve" /\ acked = {} /\ acknowledged = {} /\ Len(stream) = 0
    BY DEF Init, ReaderInit, LoopInit, StreamInit
  <1> QED
    BY <1>1, <1>2, <1>3, StreamAssumption, AlertAssumption
       DEF IInv, AlertInv, TypeOK, ListedIsSaved, NotifyAfterSave, AckedIsSaved, SentIsSaved,
           LogBound

(* A step that leaves the tables alone, and gives the subscriber nothing   *)
(* in the middle of an alert that it was not in the middle of before.      *)
LEMMA QuietStep ==
    ASSUME IInv, ReaderTypeOK', LoopHolds', stream' = stream, UNCHANGED alertVars,
           acked' \subseteq acked, acknowledged' \subseteq acknowledged \cup acked,
           at' = "resolve" \/ (at' = at /\ batch' = batch)
    PROVE  IInv'
  BY DEF IInv, AlertInv, TypeOK, ListedIsSaved, NotifyAfterSave, AckedIsSaved, SentIsSaved,
         LogBound, alertVars, ReaderTypeOK, StreamTypeOK, Ids

LEMMA InvPublish == IInv /\ Publish => IInv'
  <1> SUFFICES ASSUME IInv, Publish PROVE IInv'
    OBVIOUS
  <1>1. PICK p \in Payloads : XAdd(p)
    BY DEF Publish
  <1>2. /\ ReaderTypeOK' /\ LoopHolds' /\ acknowledged' = acknowledged
        /\ \A i \in Ids : i \in Ids' /\ stream'[i] = stream[i]
    BY <1>1, PublishHolds DEF Publish, IInv, AlertInv, TypeOK
  <1>3. LogBound'
    BY <1>1, StreamAssumption DEF XAdd, LogBound, IInv, AlertInv, TypeOK, ReaderTypeOK, StreamTypeOK
  <1>4. acked \subseteq Ids /\ acknowledged \subseteq Ids
    BY DEF IInv, AlertInv, TypeOK, ReaderTypeOK, StreamTypeOK, Ids
  <1>5. UNCHANGED <<acked, batch, at, rows, sent>>
    BY DEF Publish, loopVars, alertVars
  <1> QED
    BY <1>2, <1>3, <1>4, <1>5
       DEF IInv, AlertInv, TypeOK, ListedIsSaved, NotifyAfterSave, AckedIsSaved, SentIsSaved

LEMMA InvLoop == IInv /\ (Loop \/ Fault) => IInv'
  <1> SUFFICES ASSUME IInv, Loop \/ Fault PROVE IInv'
    OBVIOUS
  <1>1. ReaderTypeOK /\ LoopHolds
    BY DEF IInv, AlertInv, TypeOK
  <1>2. CASE Loop
    BY <1>1, <1>2, LoopStepHolds, QuietStep DEF Loop
  <1>3. CASE Fault
    <2>1. /\ ReaderTypeOK' /\ LoopHolds' /\ stream' = stream /\ acknowledged' = acknowledged
          /\ acked' \subseteq acked
          /\ at' = "resolve" \/ (at' = at /\ batch' = batch)
      BY <1>1, <1>3, FaultHolds DEF Fault
    <2> QED
      BY <1>3, <2>1, QuietStep DEF Fault
  <1> QED
    BY <1>2, <1>3

LEMMA InvEntry == IInv /\ (ProcessEntry \/ EntryFails) => IInv'
  <1> SUFFICES ASSUME IInv, NEW i \in batch,
                      \/ DropUnknown(i) \/ Resolve(i) \/ Save(i) \/ Notify(i)
                      \/ ResolveFails(i) \/ SaveFails(i)
               PROVE  IInv'
    BY DEF ProcessEntry, EntryFails
  <1>1. ReaderTypeOK /\ LoopHolds /\ LogBound
    BY DEF IInv, AlertInv, TypeOK
  <1>2. i \in Alerts
    BY <1>1, IdsAreAlerts DEF ReaderTypeOK
  <1>3. acked \subseteq Alerts /\ acknowledged \subseteq Alerts
    BY <1>1, IdsAreAlerts DEF ReaderTypeOK, StreamTypeOK, Ids
  <1>4. rows \in [Alerts -> 0..Many] /\ sent \in [Alerts -> 0..Many]
    BY DEF IInv, AlertInv, TypeOK
  <1>5. CASE DropUnknown(i)
    <2>1. /\ ReaderTypeOK' /\ LoopHolds' /\ UNCHANGED <<stream, acknowledged>>
          /\ acked' = acked \cup {i} /\ at' = "resolve"
      BY <1>1, <1>5, HandledHolds DEF DropUnknown
    <2>2. UNCHANGED <<rows, sent>> /\ stream[i] \notin Registered
      BY <1>5 DEF DropUnknown, alertVars
    <2> QED
      BY <2>1, <2>2
         DEF IInv, AlertInv, TypeOK, ListedIsSaved, NotifyAfterSave, AckedIsSaved, SentIsSaved,
             LogBound
  <1>6. CASE Resolve(i)
    <2>1. /\ ReaderTypeOK' /\ LoopHolds' /\ at' = "save"
          /\ UNCHANGED <<stream, acknowledged, batch, acked>>
      BY <1>1, <1>6, AdvanceHolds, StepsAre DEF Resolve
    <2> QED
      BY <1>6, <2>1
         DEF Resolve, alertVars, IInv, AlertInv, TypeOK, ListedIsSaved, NotifyAfterSave,
             AckedIsSaved, SentIsSaved, LogBound
  <1>7. CASE Save(i)
    <2>1. /\ ReaderTypeOK' /\ LoopHolds' /\ at' = "notify"
          /\ UNCHANGED <<stream, acknowledged, batch, acked>>
          /\ \A k \in batch : (\A j \in batch : k <= j) => k = i
      BY <1>1, <1>7, AdvanceHolds, StepsAre DEF Save
    <2>2. rows' = OneMore(rows, i) /\ sent' = sent
      BY <1>7 DEF Save
    <2>3. /\ rows' \in [Alerts -> 0..Many]
          /\ \A k \in Alerts : rows'[k] >= rows[k]
          /\ rows'[i] > 0 /\ (rows'[i] > rows[i] \/ rows'[i] = Many)
      BY <1>2, <1>4, <2>2, OneMoreType
    <2>4. SentIsSaved'
      BY <1>4, <2>2, <2>3 DEF IInv, AlertInv, SentIsSaved
    <2>5. rows'[i] > sent'[i] \/ rows'[i] = Many
      BY <1>2, <1>4, <2>2, <2>3 DEF IInv, AlertInv, SentIsSaved
    <2>6. NotifyAfterSave'
      BY <2>1, <2>3, <2>5 DEF NotifyAfterSave
    <2>7. ListedIsSaved' /\ AckedIsSaved'
      BY <1>3, <1>4, <2>1, <2>3 DEF IInv, AlertInv, ListedIsSaved, AckedIsSaved
    <2> QED
      BY <1>1, <1>4, <2>1, <2>2, <2>3, <2>4, <2>6, <2>7 DEF IInv, AlertInv, TypeOK, LogBound
  <1>8. CASE Notify(i)
    <2>1. /\ ReaderTypeOK' /\ LoopHolds' /\ UNCHANGED <<stream, acknowledged>>
          /\ acked' = acked \cup {i} /\ at' = "resolve"
      BY <1>1, <1>8, HandledHolds DEF Notify
    <2>2. rows' = rows /\ sent' \in {sent, OneMore(sent, i)}
      BY <1>8 DEF Notify
    <2>3. rows[i] > 0 /\ (rows[i] > sent[i] \/ rows[i] = Many)
      BY <1>8 DEF Notify, Handled, AtEntry, IInv, AlertInv, NotifyAfterSave
    <2>4. sent' \in [Alerts -> 0..Many] /\ \A k \in Alerts \ {i} : sent'[k] = sent[k]
      BY <1>2, <1>4, <2>2, OneMoreType
    <2>5. sent'[i] <= rows[i]
      BY <1>2, <1>4, <2>2, <2>3, <2>4, AlertAssumption
         DEF OneMore, IInv, AlertInv, SentIsSaved
    <2>6. SentIsSaved'
      BY <2>2, <2>4, <2>5 DEF IInv, AlertInv, SentIsSaved
    <2> QED
      BY <1>1, <1>4, <2>1, <2>2, <2>3, <2>4, <2>6
         DEF IInv, AlertInv, TypeOK, ListedIsSaved, NotifyAfterSave, AckedIsSaved, LogBound
  <1>9. CASE ResolveFails(i)
    <2>1. /\ ReaderTypeOK' /\ LoopHolds' /\ UNCHANGED <<stream, acknowledged, acked>>
          /\ at' = "resolve"
      BY <1>1, <1>9, FailedHolds DEF ResolveFails
    <2> QED
      BY <1>9, <2>1, QuietStep DEF ResolveFails
  <1>10. CASE SaveFails(i)
    <2>1. /\ ReaderTypeOK' /\ LoopHolds' /\ UNCHANGED <<stream, acknowledged, acked>>
          /\ at' = "resolve"
      BY <1>1, <1>10, FailedHolds DEF SaveFails
    <2>2. rows' \in {rows, OneMore(rows, i)} /\ sent' = sent
      BY <1>10 DEF SaveFails
    <2>3. rows' \in [Alerts -> 0..Many] /\ \A k \in Alerts : rows'[k] >= rows[k]
      BY <1>2, <1>4, <2>2, OneMoreType
    <2>4. SentIsSaved'
      BY <1>4, <2>2, <2>3 DEF IInv, AlertInv, SentIsSaved
    <2>5. ListedIsSaved' /\ AckedIsSaved'
      BY <1>3, <1>4, <2>1, <2>3 DEF IInv, AlertInv, ListedIsSaved, AckedIsSaved
    <2> QED
      BY <1>1, <1>4, <2>1, <2>2, <2>3, <2>4, <2>5
         DEF IInv, AlertInv, TypeOK, NotifyAfterSave, LogBound
  <1> QED
    BY <1>5, <1>6, <1>7, <1>8, <1>9, <1>10

(* Every conjunct of AlertInv holds in every reachable state.              *)
THEOREM AlertInvariance == Spec => []AlertInv
  <1>1. IInv /\ UNCHANGED vars => IInv'
    BY DEF vars, readerVars, streamVars, loopVars, alertVars, IInv, AlertInv, TypeOK, ReaderTypeOK,
           StreamTypeOK, LoopHolds, ListedIsSaved, NotifyAfterSave, AckedIsSaved, SentIsSaved,
           LogBound, Ids
  <1>2. IInv /\ [Next]_vars => IInv'
    BY <1>1, InvPublish, InvLoop, InvEntry DEF Next
  <1>3. IInv => AlertInv
    BY DEF IInv
  <1> QED
    BY InvInit, <1>2, <1>3, PTL DEF Spec

(* Every variable has its type in every reachable state.                   *)
THEOREM AlertTypeCorrect == Spec => []TypeOK
  <1>1. AlertInv => TypeOK
    BY DEF AlertInv
  <1> QED
    BY <1>1, AlertInvariance, PTL

(* No alert of a known vehicle is acknowledged before it is in the table.  *)
THEOREM AlertAckedSaved == Spec => []AckedIsSaved
  <1>1. AlertInv => AckedIsSaved
    BY DEF AlertInv
  <1> QED
    BY <1>1, AlertInvariance, PTL

(* An alert is never notified more often than it is saved.                 *)
THEOREM AlertSentSaved == Spec => []SentIsSaved
  <1>1. AlertInv => SentIsSaved
    BY DEF AlertInv
  <1> QED
    BY <1>1, AlertInvariance, PTL

(* An acknowledged alert is never saved or notified again: it is in no     *)
(* batch, and only the entry a batch is at has its counts changed.         *)
THEOREM AlertFinality == Spec => AckedIsFinal
  <1> DEFINE Final == \A i \in acknowledged : rows'[i] = rows[i] /\ sent'[i] = sent[i]
  <1>1. IInv /\ [Next]_vars => [Final]_vars
    <2> SUFFICES ASSUME IInv, Next PROVE Final
      OBVIOUS
    <2>1. ReaderTypeOK /\ LoopHolds /\ LogBound
      BY DEF IInv, AlertInv, TypeOK
    <2>2. acknowledged \cap batch = {} /\ acknowledged \subseteq Alerts
      BY <2>1, AckedNotHeld, IdsAreAlerts DEF ReaderTypeOK, StreamTypeOK, Ids
    <2>3. CASE Publish \/ Loop \/ Fault
      BY <2>3 DEF Publish, Loop, Fault, alertVars
    <2>4. CASE ProcessEntry \/ EntryFails
      <3>1. PICK i \in batch :
                \/ DropUnknown(i) \/ Resolve(i) \/ Save(i) \/ Notify(i)
                \/ ResolveFails(i) \/ SaveFails(i)
        BY <2>4 DEF ProcessEntry, EntryFails
      <3>2. rows' \in {rows, OneMore(rows, i)} /\ sent' \in {sent, OneMore(sent, i)}
        BY <3>1 DEF DropUnknown, Resolve, Save, Notify, ResolveFails, SaveFails, alertVars
      <3>3. rows \in [Alerts -> 0..Many] /\ sent \in [Alerts -> 0..Many]
        BY DEF IInv, AlertInv, TypeOK
      <3>4. \A k \in Alerts \ {i} : rows'[k] = rows[k] /\ sent'[k] = sent[k]
        BY <2>1, <3>2, <3>3, OneMoreType, IdsAreAlerts DEF ReaderTypeOK
      <3> QED
        BY <2>2, <3>4
    <2> QED
      BY <2>3, <2>4 DEF Next
  <1>2. IInv /\ UNCHANGED vars => IInv'
    BY DEF vars, readerVars, streamVars, loopVars, alertVars, IInv, AlertInv, TypeOK, ReaderTypeOK,
           StreamTypeOK, LoopHolds, ListedIsSaved, NotifyAfterSave, AckedIsSaved, SentIsSaved,
           LogBound, Ids
  <1>3. IInv /\ [Next]_vars => IInv'
    BY <1>2, InvPublish, InvLoop, InvEntry DEF Next
  <1> QED
    BY InvInit, <1>1, <1>3, PTL DEF Spec, AckedIsFinal
=============================================================================
