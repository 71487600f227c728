------------------------------ MODULE Licences ------------------------------
(***************************************************************************)
(* Devices and licences of one organisation: onboarding against the quota  *)
(* (OnboardController), the quota itself and the deletion of devices       *)
(* (adminController), the renewal of a vehicle's licence                   *)
(* (billingController), and the edit page, which sends back the expiry date*)
(* it was opened with (EditVehiclePage, vehicleController.updateVehicle).  *)
(* All of them read first and write later; the transactions are READ       *)
(* COMMITTED and lock nothing they read.  Expiry dates are counted in years*)
(* from the present day.                                                   *)
(***************************************************************************)
EXTENDS Integers, Sequences, FiniteSets

CONSTANTS
    Imeis,
    Tiers,
    Tier,       \* the tier of each device's licence
    Limits,     \* bound: the limits a superadmin may set for a tier
    Batches,    \* bound: the lists of devices that are onboarded together
    Requests,   \* bound: the requests of a behaviour
    None

(* Assumed where the constants get their values. *)
LicencesAssumption ==
    /\ Tier \in [Imeis -> Tiers]
    /\ Limits \subseteq Nat
    /\ Batches \subseteq Seq(Imeis) \ {<<>>}
    /\ None \notin Imeis \cup Int

VARIABLES
    limits,   \* organizations.device_limits
    devices,  \* devices: the identifiers registered
    expiry,   \* vehicles: the expiry of the vehicle with each IMEI, None without one
    task,     \* each request
    excess,   \* history: what is above a tier's limit and has a known cause
    owed,     \* history: the expiry each vehicle would have with its requests in turn
    laps      \* history: how many writes of its expiry a later one had not read

vars == <<limits, devices, expiry, task, excess, owed, laps>>

Open == {"count", "device", "vehicle", "commit", "read", "write"}

(* With the shape of the state: what is onboarded is a device and a vehicle*)
(* (a deleted device leaves its vehicle).                                  *)
TypeOK ==
    /\ limits \in [Tiers -> Nat]
    /\ devices \subseteq {m \in Imeis : expiry[m] # None}
    /\ expiry \in [Imeis -> Int \cup {None}]
    /\ \A q \in Requests : task[q].at \in Open \cup {"new", "end"}
    /\ excess \in [Tiers -> Nat]
    /\ owed \in [Imeis -> Int]
    /\ laps \in [Imeis -> Nat]

Init ==
    /\ limits \in [Tiers -> Limits]
    /\ devices = {}
    /\ expiry \in [Imeis -> {0, None}]
    /\ task = [q \in Requests |-> [at |-> "new"]]
    /\ excess = [t \in Tiers |-> 0]
    /\ owed = [m \in Imeis |-> IF expiry[m] = None THEN 0 ELSE expiry[m]]
    /\ laps = [m \in Imeis |-> 0]

-----------------------------------------------------------------------------
At(q, place) == task[q].at = place
Go(q, place) == task' = [task EXCEPT ![q].at = place]
Ended == [at |-> "end"]
End(q) == task' = [task EXCEPT ![q] = Ended]

Monus(a, b) == IF a > b THEN a - b ELSE 0
OfTier(S, t) == {m \in S : Tier[m] = t}
Used(t) == Cardinality(OfTier(devices, t))
Overrun(D, l) == [t \in Tiers |-> Monus(Cardinality(OfTier(D, t)), l[t])]

InBatch(batch, t) == Cardinality({n \in DOMAIN batch : Tier[batch[n]] = t})

-----------------------------------------------------------------------------
(* onboardDevices: one transaction *)

StartOnboard(q, batch, super) ==
    /\ At(q, "new")
    /\ task' = [task EXCEPT ![q] =
           [op |-> "onboard", at |-> IF super THEN "device" ELSE "count", batch |-> batch,
            next |-> 1, devices |-> {}, vehicles |-> {}, excused |-> super]]
    /\ UNCHANGED <<limits, devices, expiry, excess, owed, laps>>

(* Mutant: each tier must have room, not room for the batch. *)
RoomForOne(batch) == \A t \in Tiers : InBatch(batch, t) > 0 => Monus(limits[t], Used(t)) > 0

RoomFor(batch) == \A t \in Tiers : InBatch(batch, t) <= Monus(limits[t], Used(t))

(* The limits and the count of registered devices are read here ... *)
Count(q) ==
    /\ At(q, "count")
    /\ IF RoomFor(task[q].batch) THEN Go(q, "device") ELSE End(q)
    /\ UNCHANGED <<limits, devices, expiry, excess, owed, laps>>

Others(q) == {p \in Requests \ {q} : task[p].at \in Open /\ task[p].op = "onboard"}
Waits(q, p) ==
    LET m == task[q].batch[task[q].next]
    IN  \/ At(q, "device") /\ m \in task[p].devices
        \/ At(q, "vehicle") /\ m \in task[p].vehicles
Blocked(q) == \E p \in Others(q) : Waits(q, p)

(* ... and the rows inserted here.  UNIQUE(device_id) and UNIQUE(imei) roll*)
(* everything back, after waiting for a transaction that holds the value.  *)
InsertDevice(q) ==
    LET m == task[q].batch[task[q].next]
    IN  /\ At(q, "device")
        /\ ~Blocked(q)
        /\ IF m \in devices \cup task[q].devices THEN End(q)
           ELSE task' = [task EXCEPT ![q].at = "vehicle", ![q].devices = @ \cup {m}]
        /\ UNCHANGED <<limits, devices, expiry, excess, owed, laps>>

InsertVehicle(q) ==
    LET r == task[q]
        m == r.batch[r.next]
    IN  /\ At(q, "vehicle")
        /\ ~Blocked(q)
        /\ IF expiry[m] # None THEN End(q)
           ELSE task' = [task EXCEPT
                    ![q].at = IF r.next = Len(r.batch) THEN "commit" ELSE "device",
                    ![q].next = @ + 1, ![q].vehicles = @ \cup {m}]
        /\ UNCHANGED <<limits, devices, expiry, excess, owed, laps>>

DeadlockAborts(q) ==
    /\ At(q, "device") \/ At(q, "vehicle")
    /\ \E p \in Others(q) : (At(p, "device") \/ At(p, "vehicle")) /\ Waits(q, p) /\ Waits(p, q)
    /\ End(q)
    /\ UNCHANGED <<limits, devices, expiry, excess, owed, laps>>

(* The onboardings that are under way go on with a count that is out of    *)
(* date.                                                                   *)
Outdated(tasks) ==
    [p \in Requests |-> IF task[p].at \in Open /\ task[p].op = "onboard"
                        THEN [tasks[p] EXCEPT !.excused = TRUE] ELSE tasks[p]]

CommitOnboard(q) ==
    LET r == task[q]
    IN  /\ At(q, "commit") /\ r.op = "onboard"
        /\ devices' = devices \cup r.devices
        /\ expiry' = [m \in Imeis |-> IF m \in r.vehicles THEN 1 ELSE expiry[m]]
        /\ owed' = [m \in Imeis |-> IF m \in r.vehicles THEN 1 ELSE owed[m]]
        /\ excess' = IF r.excused THEN Overrun(devices', limits) ELSE excess
        /\ task' = [Outdated(task) EXCEPT ![q] = Ended]
        /\ UNCHANGED <<limits, laps>>

-----------------------------------------------------------------------------
(* setDeviceLimits and deleteDevice *)

SetDeviceLimits(q, l) ==
    /\ At(q, "new")
    /\ limits' = l
    /\ excess' = Overrun(devices, l)
    /\ task' = [Outdated(task) EXCEPT ![q] = Ended]
    /\ UNCHANGED <<devices, expiry, owed, laps>>

DeleteDevice(q, m) ==
    /\ At(q, "new")
    /\ m \in devices
    /\ devices' = devices \ {m}
    /\ excess' = [excess EXCEPT ![Tier[m]] = Monus(@, 1)]
    /\ End(q)
    /\ UNCHANGED <<limits, expiry, owed, laps>>

-----------------------------------------------------------------------------
(* verifyRenewal, and the edit page *)

(* The expiry of m is written: another request that has read it meanwhile  *)
(* will write over it.                                                     *)
Lapping(m, tasks) ==
    [p \in Requests |-> IF tasks[p].at \in {"write", "commit"} /\ tasks[p].op \in {"renew", "edit"} /\ tasks[p].imei = m
                        THEN [tasks[p] EXCEPT !.lapped = @ + 1] ELSE tasks[p]]

StartRenewal(q, m) ==
    /\ At(q, "new")
    /\ expiry[m] # None
    /\ task' = [task EXCEPT ![q] = [op |-> "renew", at |-> "read", imei |-> m, lapped |-> 0]]
    /\ UNCHANGED <<limits, devices, expiry, excess, owed, laps>>

(* Mutant: a licence that is still valid loses what is left of it. *)
FromToday(e) == 1

(* A year from the expiry if it is ahead, a year from today if it is not.  *)
Renewed(e) == IF e > 0 THEN e + 1 ELSE 1

ReadExpiry(q) ==
    LET r == task[q]
    IN  /\ At(q, "read")
        /\ task' = [task EXCEPT ![q] =
               [op |-> r.op, at |-> "write", imei |-> r.imei, lapped |-> 0,
                date |-> IF r.op = "renew" THEN Renewed(expiry[r.imei]) ELSE expiry[r.imei]]]
        /\ UNCHANGED <<limits, devices, expiry, excess, owed, laps>>

(* The UPDATE waits for the row when another renewal has written it.       *)
WriteExpiry(q) ==
    /\ At(q, "write") /\ task[q].op = "renew"
    /\ \A p \in Requests \ {q} :
          ~(At(p, "commit") /\ task[p].op = "renew" /\ task[p].imei = task[q].imei)
    /\ Go(q, "commit")
    /\ UNCHANGED <<limits, devices, expiry, excess, owed, laps>>

CommitRenewal(q) ==
    LET m == task[q].imei
    IN  /\ At(q, "commit") /\ task[q].op = "renew"
        /\ expiry' = [expiry EXCEPT ![m] = task[q].date]
        /\ owed' = [owed EXCEPT ![m] = IF @ > 0 THEN @ + 1 ELSE 1]
        /\ laps' = [laps EXCEPT ![m] = @ + task[q].lapped]
        /\ task' = Lapping(m, [task EXCEPT ![q] = Ended])
        /\ UNCHANGED <<limits, devices, excess>>

(* The page loads the vehicle and, when it is saved, sends all its fields. *)
OpenEditPage(q, m) ==
    /\ At(q, "new")
    /\ expiry[m] # None
    /\ task' = [task EXCEPT ![q] = [op |-> "edit", at |-> "read", imei |-> m, lapped |-> 0]]
    /\ UNCHANGED <<limits, devices, expiry, excess, owed, laps>>

SaveEditPage(q) ==
    LET m == task[q].imei
    IN  /\ At(q, "write") /\ task[q].op = "edit"
        /\ \A p \in Requests : ~(At(p, "commit") /\ task[p].op = "renew" /\ task[p].imei = m)
        /\ expiry' = [expiry EXCEPT ![m] = task[q].date]
        /\ laps' = [laps EXCEPT ![m] = @ + task[q].lapped]
        /\ task' = Lapping(m, [task EXCEPT ![q] = Ended])
        /\ UNCHANGED <<limits, devices, excess, owed>>

-----------------------------------------------------------------------------
Next ==
    \E q \in Requests :
        \/ \E b \in Batches, s \in BOOLEAN : StartOnboard(q, b, s)
        \/ Count(q) \/ InsertDevice(q) \/ InsertVehicle(q) \/ DeadlockAborts(q) \/ CommitOnboard(q)
        \/ \E l \in [Tiers -> Limits] : SetDeviceLimits(q, l)
        \/ \E m \in Imeis :
              DeleteDevice(q, m) \/ StartRenewal(q, m) \/ OpenEditPage(q, m)
        \/ ReadExpiry(q) \/ WriteExpiry(q) \/ CommitRenewal(q) \/ SaveEditPage(q)

Spec == Init /\ [][Next]_vars

-----------------------------------------------------------------------------
(* A tier is above its limit only by devices that a superadmin registered, *)
(* that were there when the limit was lowered, or whose onboarding was     *)
(* under way when another one committed or the limit changed: an onboarding*)
(* by itself, of any size, stays within what is left.                      *)
ExcessHasCause ==
    \A t \in Tiers : Monus(Used(t), limits[t]) <= excess[t]

(* A vehicle's licence falls short of what was paid for by at most a year  *)
(* for each write of its expiry that another renewal or a saved edit page  *)
(* had not read: not at all while they do not overlap.                     *)
ShortfallHasCause ==
    \A m \in Imeis : expiry[m] # None => owed[m] - expiry[m] <= laps[m]
=============================================================================
