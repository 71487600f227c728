--------------------------- MODULE AlertSubscriber ---------------------------
(***************************************************************************)
(* The alert consumer of the API process                                   *)
(* (backend/subscribers/alertSubscriber.js): for each entry of the alerts  *)
(* stream it finds the vehicle, inserts a row into alerts, sends the       *)
(* organisation's notifications and emits alert:new.  An entry carries the *)
(* IMEI of the alert; its other fields are copied and never looked at.     *)
(***************************************************************************)
EXTENDS SubscriberLoop

CONSTANTS
    Registered,  \* the IMEIs that the vehicles table knows
    Many         \* bound: rows and notifications of an alert are counted up to Many

ASSUME AlertAssumption ==
    /\ Steps = {"resolve", "save", "notify"}
    /\ Registered \subseteq Payloads
    /\ Many \in Nat \ {0}
    /\ Faults \subseteq {"redis", "db", "xack", "crash"}

VARIABLES
    rows,  \* for each entry, the rows of alerts that it became
    sent   \* for each entry, the times its notification was dispatched

alertVars == <<rows, sent>>
vars == <<readerVars, alertVars>>

Alerts == 1..MaxEntries
OneMore(count, i) == [count EXCEPT ![i] = IF count[i] < Many THEN count[i] + 1 ELSE Many]

TypeOK ==
    /\ ReaderTypeOK
    /\ rows \in [Alerts -> 0..Many]
    /\ sent \in [Alerts -> 0..Many]

Init ==
    /\ ReaderInit
    /\ rows = [i \in Alerts |-> 0]
    /\ sent = [i \in Alerts |-> 0]

-----------------------------------------------------------------------------
(* publishAlert of the TCP server, and the XADD of locationSubscriber *)
Publish ==
    /\ \E p \in Payloads : XAdd(p)
    /\ UNCHANGED <<loopVars, at, alertVars>>

(* resolveVehicle finds nothing: acknowledged, so that it is not replayed. *)
DropUnknown(i) ==
    /\ stream[i] \notin Registered
    /\ Handled(i, "resolve")
    /\ UNCHANGED alertVars

Resolve(i) ==
    /\ stream[i] \in Registered
    /\ Advance(i, "resolve", "save")
    /\ UNCHANGED alertVars

ResolveFails(i) ==
    /\ "db" \in Faults
    /\ Failed(i, "resolve")
    /\ UNCHANGED alertVars

(* Mutant: the notification goes out before the insert is awaited. *)
SaveUnawaited(i) ==
    /\ Advance(i, "save", "notify")
    /\ rows' \in {rows, OneMore(rows, i)}
    /\ UNCHANGED sent

(* saveAlert: a plain INSERT, so that a second call makes a second row. *)
Save(i) ==
    /\ Advance(i, "save", "notify")
    /\ rows' = OneMore(rows, i)
    /\ UNCHANGED sent

(* It is rejected, before or after it took effect. *)
SaveFails(i) ==
    /\ "db" \in Faults
    /\ Failed(i, "save")
    /\ rows' \in {rows, OneMore(rows, i)}
    /\ UNCHANGED sent

(* dispatchAlert, whose errors are only logged, and the broadcast. *)
Notify(i) ==
    /\ Handled(i, "notify")
    /\ sent' \in {sent, OneMore(sent, i)}
    /\ UNCHANGED rows

ProcessEntry ==
    \E i \in batch : DropUnknown(i) \/ Resolve(i) \/ Save(i) \/ Notify(i)

EntryFails == \E i \in batch : ResolveFails(i) \/ SaveFails(i)

Loop == LoopStep /\ UNCHANGED alertVars

Fault ==
    /\ ReplyLost \/ Signal \/ ProcessDies
    /\ UNCHANGED alertVars

Next == Publish \/ Loop \/ ProcessEntry \/ EntryFails \/ Fault

Spec == Init /\ [][Next]_vars

-----------------------------------------------------------------------------
(* Safety *)

(* An alert of a known vehicle is acknowledged only when it is in the      *)
(* alerts table (saveAlert is awaited before acked.push, 63-92).           *)
AckedIsSaved ==
    \A i \in acknowledged : stream[i] \in Registered => rows[i] > 0

(* No notification is sent for an alert that the table does not have, and  *)
(* none is sent more often than it was saved, whatever is redelivered.     *)
SentIsSaved == \A i \in Alerts : sent[i] <= rows[i]

(* At-least-once ends with the XACK: an acknowledged alert is never saved  *)
(* or sent again, through restarts, recovery and lost replies.             *)
AckedIsFinal ==
    [][\A i \in acknowledged : rows'[i] = rows[i] /\ sent'[i] = sent[i]]_vars

(* Together they need: what the subscriber holds is pending, and the step  *)
(* it is at says what has been done for the lowest entry of the batch.     *)
ListedIsSaved == \A i \in acked : stream[i] \in Registered => rows[i] > 0

NotifyAfterSave ==
    at = "notify" => \A i \in batch :
        (\A j \in batch : i <= j) => rows[i] > 0 /\ (rows[i] > sent[i] \/ rows[i] = Many)

AlertInv ==
    /\ TypeOK
    /\ LoopHolds
    /\ ListedIsSaved
    /\ NotifyAfterSave
    /\ AckedIsSaved
    /\ SentIsSaved
=============================================================================
