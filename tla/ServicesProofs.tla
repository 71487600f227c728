---------------------------- MODULE ServicesProofs ----------------------------
(***************************************************************************)
(* Proofs about the parts of the API that MCServices puts together: for    *)
(* any sets of organisations, vehicles, devices and requests, and any      *)
(* bounds.  The invariants here are stated over the variables s1 to s9, as *)
(* the models have them, each for the behaviours of its own model.         *)
(***************************************************************************)
EXTENDS MCServices, FiniteSetTheorems, TLAPS

-----------------------------------------------------------------------------
(* Vehicles and their caches.  A request is one of six kinds, by what it   *)
(* asks and how far it is; from "groups" on, it has its IMEI and entry.    *)

InHand == [op : {"create", "update"}, imei : Imeis, entry : Registry!Entries,
           at : {"groups", "warm", "invalidate"}]
Creating == [op : {"create"}, imei : Imeis, org : Orgs, at : {"insert"}]
Updating == [op : {"update"}, id : Twos, org : Orgs \cup {None}, active : Activity, at : {"update"}]
Deleting == [op : {"delete"}, id : Twos, at : {"delete"}]
Migrating == [op : {"migrate"}, id : Twos, imei : Imeis, at : {"migrate"}]
Resting == [at : {"new", "answered"}]
Asking == InHand \cup Creating \cup Updating \cup Deleting \cup Migrating \cup Resting

(* What a resolver has in hand: an answer of the hash, or a row. *)
FromHash == [at : {"hash"}, imei : Imeis, entry : Registry!Entries \cup {None}]
FromRow == [at : {"row"}, imei : Imeis, entry : Registry!Entries]
Filling == FromHash \cup FromRow

RegistryInv ==
    /\ s1 \in [Twos -> Registry!Rows \cup {None}]
    /\ s2 \in [Imeis -> Registry!Entries \cup {None}]
    /\ s3 \in [Imeis -> Registry!Entries \cup {None}]
    /\ s4 \in [Askers -> Asking]
    /\ s5 \in [Resolvers -> Filling \cup {None}]
    /\ s6 \subseteq Imeis
    /\ Registry!StaleHasCause

(* How far a request is tells its kind. *)
LEMMA AskingKinds ==
    ASSUME NEW r \in Asking
    PROVE  /\ r.at \in {"groups", "warm", "invalidate"} => r \in InHand
           /\ r.at = "insert" => r \in Creating
           /\ r.at = "update" => r \in Updating
           /\ r.at = "delete" => r \in Deleting
           /\ r.at = "migrate" => r \in Migrating
           /\ r.at \in {"new", "answered"} => r \in Resting
    BY DEF Asking, InHand, Creating, Updating, Deleting, Migrating, Resting

(* A request moves on while nothing of the vehicles and caches changes:    *)
(* the invariant holds if it does not end a handler that was to invalidate,*)
(* or excuses what it leaves.                                              *)
LEMMA RequestMoves ==
    ASSUME RegistryInv, NEW q \in Askers, NEW r \in Asking,
           s4' = [s4 EXCEPT ![q] = r], UNCHANGED <<s1, s2, s3, s5>>,
           s6' \subseteq Imeis, s6 \subseteq s6',
           \/ s4[q] \notin InHand
           \/ r \in InHand /\ r.imei = s4[q].imei
           \/ Registry!Known(s4[q].imei) => s4[q].imei \in s6'
    PROVE  RegistryInv'
<1>1. \A m \in Imeis : Registry!Underway(m) /\ Registry!Known(m) => Registry!Underway(m)' \/ m \in s6'
    <2> SUFFICES ASSUME NEW m \in Imeis, Registry!Underway(m), Registry!Known(m)
                 PROVE  Registry!Underway(m)' \/ m \in s6'
        OBVIOUS
    <2>1. PICK p \in Askers : s4[p].at \in {"groups", "warm", "invalidate"} /\ s4[p].imei = m
        BY DEF Registry!Underway, Registry!At
    <2>2. CASE p # q
        BY <2>1, <2>2 DEF RegistryInv, Registry!Underway, Registry!At
    <2>3. CASE p = q
        <3>1. s4[q] \in InHand
            BY <2>1, <2>3, AskingKinds DEF RegistryInv
        <3>2. CASE r \in InHand /\ r.imei = s4[q].imei
            BY <2>1, <2>3, <3>2 DEF RegistryInv, Registry!Underway, Registry!At, InHand
        <3>3. CASE s4[q].imei \in s6'
            BY <2>1, <2>3, <3>3
        <3> QED  BY <2>1, <2>3, <3>1, <3>2, <3>3
    <2> QED  BY <2>2, <2>3
<1>2. Registry!StaleHasCause'
    BY <1>1 DEF RegistryInv, Registry!StaleHasCause, Registry!Current, Registry!Exists, Registry!Known
<1>3. s4' \in [Askers -> Asking]
    BY DEF RegistryInv
<1> QED  BY <1>2, <1>3 DEF RegistryInv

(* Rows are written by a request: entries that were current are so still,  *)
(* or have a cause now.                                                    *)
LEMMA RowsMove ==
    ASSUME RegistryInv, NEW q \in Askers, NEW r \in Asking, s4[q] \notin InHand,
           s4' = [s4 EXCEPT ![q] = r], UNCHANGED <<s2, s3, s5>>,
           s1' \in [Twos -> Registry!Rows \cup {None}],
           s6' \subseteq Imeis, s6 \subseteq s6',
           \A m \in Imeis, e \in Registry!Entries :
              Registry!Known(m) /\ Registry!Current(m, e) =>
                  Registry!Current(m, e)' \/ (r \in InHand /\ r.imei = m) \/ m \in s6'
    PROVE  RegistryInv'
<1>1. \A m \in Imeis : Registry!Underway(m) => Registry!Underway(m)'
    <2> SUFFICES ASSUME NEW m \in Imeis, Registry!Underway(m)
                 PROVE  Registry!Underway(m)'
        OBVIOUS
    <2>1. PICK p \in Askers : s4[p].at \in {"groups", "warm", "invalidate"} /\ s4[p].imei = m
        BY DEF Registry!Underway, Registry!At
    <2>2. p # q
        BY <2>1, AskingKinds DEF RegistryInv
    <2> QED  BY <2>1, <2>2 DEF RegistryInv, Registry!Underway, Registry!At
<1>2. \A m \in Imeis : r \in InHand /\ r.imei = m => Registry!Underway(m)'
    BY DEF RegistryInv, Registry!Underway, Registry!At, InHand
<1>3. Registry!StaleHasCause'
    <2> SUFFICES ASSUME NEW m \in Imeis, NEW e \in {s2[m], s3[m]} \ {None}
                 PROVE  Registry!Current(m, e)' \/ Registry!Underway(m)' \/ m \in s6'
        BY DEF Registry!StaleHasCause
    <2>1. e \in Registry!Entries /\ Registry!Known(m)
        BY DEF RegistryInv, Registry!Known
    <2>2. Registry!Current(m, e) \/ Registry!Underway(m) \/ m \in s6
        BY DEF RegistryInv, Registry!StaleHasCause
    <2> QED  BY <1>1, <1>2, <2>1, <2>2
<1>4. s4' \in [Askers -> Asking]
    BY DEF RegistryInv
<1> QED  BY <1>3, <1>4 DEF RegistryInv

(* A request arrives: whatever it asks is of some kind, and it is not yet  *)
(* anywhere where it could be missed.                                      *)
LEMMA RequestArrives ==
    ASSUME RegistryInv, NEW q \in Askers, NEW r \in Asking, NEW permitted,
           Registry!Arrive(q, r, permitted)
    PROVE  RegistryInv'
<1>1. s4[q] \notin InHand
    BY DEF Registry!Arrive, Registry!At, InHand
<1>2. [at |-> "answered"] \in Asking
    BY DEF Asking, Resting
<1>3. PICK t \in Asking : s4' = [s4 EXCEPT ![q] = t]
    BY <1>2 DEF Registry!Arrive
<1>4. UNCHANGED <<s1, s2, s3, s5, s6>>
    BY DEF Registry!Arrive
<1> QED  BY <1>1, <1>3, <1>4, RequestMoves DEF RegistryInv

LEMMA ArrivalKinds ==
    ASSUME NEW q \in Askers, RegistryInv,
           \/ \E m \in Imeis, o \in Orgs : Registry!StartCreate(q, m, o)
           \/ \E u \in Users, v \in Twos, o \in Orgs \cup {None}, a \in Activity :
                 Registry!StartUpdate(q, u, v, o, a)
           \/ \E u \in Users, v \in Twos : Registry!StartDelete(q, u, v)
           \/ \E u \in Users, v \in Twos, m \in Imeis : Registry!StartMigrate(q, u, v, m)
    PROVE  RegistryInv'
<1>1. CASE \E m \in Imeis, o \in Orgs : Registry!StartCreate(q, m, o)
    <2>1. PICK m \in Imeis, o \in Orgs : Registry!StartCreate(q, m, o)
        BY <1>1
    <2>2. [op |-> "create", imei |-> m, org |-> o, at |-> "insert"] \in Asking
        BY DEF Asking, Creating
    <2> QED  BY <2>1, <2>2, RequestArrives DEF Registry!StartCreate
<1>2. CASE \E u \in Users, v \in Twos, o \in Orgs \cup {None}, a \in Activity :
              Registry!StartUpdate(q, u, v, o, a)
    <2>1. PICK u \in Users, v \in Twos, o \in Orgs \cup {None}, a \in Activity :
              Registry!StartUpdate(q, u, v, o, a)
        BY <1>2
    <2>2. [op |-> "update", id |-> v, org |-> o, active |-> a, at |-> "update"] \in Asking
        BY DEF Asking, Updating
    <2> QED  BY <2>1, <2>2, RequestArrives DEF Registry!StartUpdate
<1>3. CASE \E u \in Users, v \in Twos : Registry!StartDelete(q, u, v)
    <2>1. PICK u \in Users, v \in Twos : Registry!StartDelete(q, u, v)
        BY <1>3
    <2>2. [op |-> "delete", id |-> v, at |-> "delete"] \in Asking
        BY DEF Asking, Deleting
    <2> QED  BY <2>1, <2>2, RequestArrives DEF Registry!StartDelete
<1>4. CASE \E u \in Users, v \in Twos, m \in Imeis : Registry!StartMigrate(q, u, v, m)
    <2>1. PICK u \in Users, v \in Twos, m \in Imeis : Registry!StartMigrate(q, u, v, m)
        BY <1>4
    <2>2. [op |-> "migrate", id |-> v, imei |-> m, at |-> "migrate"] \in Asking
        BY DEF Asking, Migrating
    <2> QED  BY <2>1, <2>2, RequestArrives DEF Registry!StartMigrate
<1> QED  BY <1>1, <1>2, <1>3, <1>4

(* The writes of the table: an insertion touches no row there is, an update*)
(* has its handler in hand, a deletion keeps the organisation, a migration *)
(* and a cascade excuse the IMEIs they leave.                              *)
LEMMA RegistryInserts ==
    ASSUME Registry!RegistryAssumption, RegistryInv, NEW q \in Askers, Registry!Insert(q)
    PROVE  RegistryInv'
<1> USE DEF Registry!Known
<1>1. s4[q] \in Creating /\ s4[q] \notin InHand
    BY AskingKinds DEF RegistryInv, Registry!Insert, Registry!At, InHand
<1>2. CASE UNCHANGED s1 /\ Registry!Answer(q)
    <2>1. [at |-> "answered"] \in Asking
        BY DEF Asking, Resting
    <2> QED  BY <1>1, <1>2, <2>1, RowsMove DEF Registry!Insert, Registry!Answer, RegistryInv, Registry!Current, Registry!Exists
<1>3. ASSUME NEW v \in Twos, ~Registry!Exists(v),
             s1' = [s1 EXCEPT ![v] = [imei |-> s4[q].imei, org |-> s4[q].org, active |-> TRUE]],
             s4' = [s4 EXCEPT ![q] = [op |-> "create", imei |-> s4[q].imei, at |-> "groups",
                                      entry |-> [id |-> v, org |-> s4[q].org]]]
      PROVE  RegistryInv'
    <2>1. [op |-> "create", imei |-> s4[q].imei, at |-> "groups",
           entry |-> [id |-> v, org |-> s4[q].org]] \in Asking
        BY <1>1 DEF Asking, InHand, Creating, Registry!Entries
    <2>2. [imei |-> s4[q].imei, org |-> s4[q].org, active |-> TRUE] \in Registry!Rows
        BY <1>1 DEF Creating, Registry!Rows
    <2>3. s1' \in [Twos -> Registry!Rows \cup {None}]
        BY <1>3, <2>2 DEF RegistryInv
    <2>4. \A m \in Imeis, e \in Registry!Entries : Registry!Current(m, e) => Registry!Current(m, e)'
        BY <1>3 DEF RegistryInv, Registry!Current, Registry!Exists, Registry!Entries
    <2> QED  BY <1>1, <1>3, <2>1, <2>3, <2>4, RowsMove DEF Registry!Insert, RegistryInv
<1> QED  BY <1>2, <1>3 DEF Registry!Insert

LEMMA RegistryUpdates ==
    ASSUME Registry!RegistryAssumption, RegistryInv, NEW q \in Askers, Registry!Update(q)
    PROVE  RegistryInv'
<1> DEFINE v == s4[q].id
           org == IF s4[q].org = None THEN s1[v].org ELSE s4[q].org
           active == IF s4[q].active = None THEN s1[v].active ELSE s4[q].active
           r == [op |-> "update", imei |-> s1[v].imei, at |-> "groups", entry |-> [id |-> v, org |-> org]]
<1>1. s4[q] \in Updating /\ s4[q] \notin InHand
    BY AskingKinds DEF RegistryInv, Registry!Update, Registry!At, InHand
<1>2. UNCHANGED <<s2, s3, s5, s6>>
    BY DEF Registry!Update
<1>3. CASE ~Registry!Exists(v)
    <2>1. [at |-> "answered"] \in Asking
        BY DEF Asking, Resting
    <2>2. UNCHANGED s1 /\ s4' = [s4 EXCEPT ![q] = [at |-> "answered"]]
        BY <1>3 DEF Registry!Update, Registry!Answer
    <2> QED  BY <1>1, <1>2, <2>1, <2>2, RequestMoves DEF RegistryInv
<1>4. CASE Registry!Exists(v)
    <2>1. v \in Twos /\ s1[v] \in Registry!Rows
        BY <1>1, <1>4 DEF RegistryInv, Updating, Registry!Exists
    <2>2. org \in Orgs
        BY <1>1, <2>1 DEF Updating, Registry!Rows
    <2>3. active \in BOOLEAN
        BY <1>1, <2>1 DEF Updating, Registry!Rows, Registry!RegistryAssumption
    <2>4. s1' = [s1 EXCEPT ![v].org = org, ![v].active = active] /\ s4' = [s4 EXCEPT ![q] = r]
        BY <1>4 DEF Registry!Update
    <2>5. r \in Asking /\ r \in InHand
        BY <2>1, <2>2 DEF Asking, InHand, Registry!Rows, Registry!Entries
    <2> HIDE DEF org, active, v
    <2>6. [s1[v] EXCEPT !.org = org, !.active = active] \in Registry!Rows
        BY <2>1, <2>2, <2>3 DEF Registry!Rows
    <2>7. s1' \in [Twos -> Registry!Rows \cup {None}]
        BY <2>1, <2>4, <2>6 DEF RegistryInv
    <2>8. \A m \in Imeis, e \in Registry!Entries :
              Registry!Current(m, e) => Registry!Current(m, e)' \/ s1[v].imei = m
        BY <2>1, <2>4 DEF RegistryInv, Registry!Current, Registry!Exists, Registry!Entries
    <2> QED  BY <1>1, <1>2, <2>4, <2>5, <2>7, <2>8, RowsMove DEF RegistryInv
<1> QED  BY <1>3, <1>4

LEMMA RegistryDeletes ==
    ASSUME Registry!RegistryAssumption, RegistryInv, NEW q \in Askers, Registry!Delete(q)
    PROVE  RegistryInv'
<1> DEFINE v == s4[q].id
<1>1. s4[q] \in Deleting /\ s4[q] \notin InHand
    BY AskingKinds DEF RegistryInv, Registry!Delete, Registry!At, InHand
<1>2. UNCHANGED <<s2, s3, s5, s6>> /\ s4' = [s4 EXCEPT ![q] = [at |-> "answered"]]
    BY DEF Registry!Delete, Registry!Answer
<1>3. [at |-> "answered"] \in Asking
    BY DEF Asking, Resting
<1>4. CASE ~Registry!Exists(v)
    BY <1>1, <1>2, <1>3, <1>4, RequestMoves DEF RegistryInv, Registry!Delete
<1>5. CASE Registry!Exists(v)
    <2>1. v \in Twos /\ s1[v] \in Registry!Rows
        BY <1>1, <1>5 DEF RegistryInv, Deleting, Registry!Exists
    <2>2. s1' = [s1 EXCEPT ![v].active = FALSE]
        BY <1>5 DEF Registry!Delete
    <2> HIDE DEF v
    <2>3. [s1[v] EXCEPT !.active = FALSE] \in Registry!Rows /\ [s1[v] EXCEPT !.active = FALSE] # None
        BY <2>1 DEF Registry!Rows, Registry!RegistryAssumption
    <2>4. s1' \in [Twos -> Registry!Rows \cup {None}]
        BY <2>1, <2>2, <2>3 DEF RegistryInv
    <2>5. \A m \in Imeis, e \in Registry!Entries : Registry!Current(m, e) => Registry!Current(m, e)'
        BY <2>1, <2>2, <2>3 DEF RegistryInv, Registry!Current, Registry!Exists, Registry!Entries, Registry!Rows
    <2> QED  BY <1>1, <1>2, <1>3, <2>4, <2>5, RowsMove DEF RegistryInv
<1> QED  BY <1>4, <1>5

LEMMA RegistryMigrates ==
    ASSUME Registry!RegistryAssumption, RegistryInv, NEW q \in Askers, Registry!Migrate(q)
    PROVE  RegistryInv'
<1> DEFINE v == s4[q].id
           m == s4[q].imei
<1>1. s4[q] \in Migrating /\ s4[q] \notin InHand
    BY AskingKinds DEF RegistryInv, Registry!Migrate, Registry!At, InHand
<1>2. UNCHANGED <<s2, s3, s5>> /\ s4' = [s4 EXCEPT ![q] = [at |-> "answered"]]
    BY DEF Registry!Migrate, Registry!Answer
<1>3. [at |-> "answered"] \in Asking
    BY DEF Asking, Resting
<1>4. CASE UNCHANGED <<s1, s6>>
    BY <1>1, <1>2, <1>3, <1>4, RequestMoves DEF RegistryInv
<1>5. CASE Registry!Exists(v) /\ s1' = [s1 EXCEPT ![v].imei = m] /\ Registry!Excuse({m, s1[v].imei})
    <2>1. v \in Twos /\ m \in Imeis /\ s1[v] \in Registry!Rows
        BY <1>1, <1>5 DEF RegistryInv, Migrating, Registry!Exists
    <2> HIDE DEF v, m
    <2>2. [s1[v] EXCEPT !.imei = m] \in Registry!Rows
        BY <2>1 DEF Registry!Rows
    <2>3. s1' \in [Twos -> Registry!Rows \cup {None}]
        BY <1>5, <2>1, <2>2 DEF RegistryInv
    <2>4. s6 \subseteq s6' /\ s6' \subseteq Imeis
        BY <1>5, <2>1 DEF RegistryInv, Registry!Excuse, Registry!Rows
    <2>5. \A i \in Imeis, e \in Registry!Entries :
              Registry!Known(i) /\ Registry!Current(i, e) => Registry!Current(i, e)' \/ i \in s6'
        BY <1>5, <2>1 DEF RegistryInv, Registry!Current, Registry!Exists, Registry!Entries, Registry!Excuse
    <2> QED  BY <1>1, <1>2, <1>3, <2>3, <2>4, <2>5, RowsMove DEF RegistryInv
<1> QED  BY <1>4, <1>5 DEF Registry!Migrate

LEMMA RegistryCascades ==
    ASSUME Registry!RegistryAssumption, RegistryInv, NEW o \in Orgs, Registry!OrgDeleted(o)
    PROVE  RegistryInv'
<1> DEFINE gone == {v \in Twos : Registry!Exists(v) /\ s1[v].org = o}
<1>1. s1' \in [Twos -> Registry!Rows \cup {None}]
    BY DEF RegistryInv, Registry!OrgDeleted
<1>2. UNCHANGED <<s2, s3, s4, s5>> /\ s6 \subseteq s6' /\ s6' \subseteq Imeis
    BY DEF RegistryInv, Registry!OrgDeleted, Registry!Excuse
<1>3. \A m \in Imeis, e \in Registry!Entries :
          Registry!Known(m) /\ Registry!Current(m, e) => Registry!Current(m, e)' \/ m \in s6'
    <2> SUFFICES ASSUME NEW m \in Imeis, NEW e \in Registry!Entries,
                        Registry!Known(m), Registry!Current(m, e)
                 PROVE  Registry!Current(m, e)' \/ m \in s6'
        OBVIOUS
    <2>1. e.id \in Twos /\ e.id \in Registry!Holders(m)
        BY DEF Registry!Current, Registry!Entries, Registry!Holders, Registry!Exists
    <2>2. CASE e.id \in gone
        BY <2>1, <2>2 DEF Registry!OrgDeleted, Registry!Excuse
    <2>3. CASE e.id \notin gone
        BY <2>1, <2>3 DEF Registry!OrgDeleted, Registry!Current, Registry!Exists
    <2> QED  BY <2>2, <2>3
<1>4. \A m \in Imeis : Registry!Underway(m) => Registry!Underway(m)'
    BY <1>2 DEF Registry!Underway, Registry!At
<1>5. Registry!StaleHasCause'
    BY <1>2, <1>3, <1>4 DEF RegistryInv, Registry!StaleHasCause, Registry!Known
<1> QED  BY <1>1, <1>2, <1>5 DEF RegistryInv

(* The rest of a creation or an update: the handler keeps the IMEI in hand *)
(* until it has invalidated it, or excuses it when it fails.               *)
LEMMA RegistryFollows ==
    ASSUME Registry!RegistryAssumption, RegistryInv, NEW q \in Askers,
           \/ Registry!AssignGroups(q) \/ Registry!AssignGroupsFails(q)
           \/ Registry!WarmHash(q) \/ Registry!WarmHashFails(q)
           \/ Registry!Invalidate(q) \/ Registry!InvalidateFails(q)
    PROVE  RegistryInv'
<1>1. s4[q] \in InHand /\ s4[q].imei \in Imeis /\ s4[q].entry \in Registry!Entries
    BY AskingKinds DEF RegistryInv, InHand, Registry!AssignGroups, Registry!AssignGroupsFails,
       Registry!WarmHash, Registry!WarmHashFails, Registry!Invalidate, Registry!InvalidateFails, Registry!At
<1>2. [at |-> "answered"] \in Asking
    BY DEF Asking, Resting
<1>3. ASSUME NEW place \in {"warm", "invalidate"}
      PROVE  /\ [s4[q] EXCEPT !.at = place] \in InHand
             /\ [s4[q] EXCEPT !.at = place] \in Asking
             /\ [s4[q] EXCEPT !.at = place].imei = s4[q].imei
    BY <1>1 DEF InHand, Asking
<1>4. CASE Registry!AssignGroups(q)
    <2>1. s4' = [s4 EXCEPT ![q] = [s4[q] EXCEPT !.at = "warm"]] /\ UNCHANGED <<s1, s2, s3, s5, s6>>
        BY <1>4 DEF Registry!AssignGroups, Registry!Go
    <2> QED  BY <1>3, <2>1, RequestMoves DEF RegistryInv
<1>5. CASE Registry!AssignGroupsFails(q) \/ (Registry!WarmHashFails(q) /\ UNCHANGED s2)
    <2>1. s4' = [s4 EXCEPT ![q] = [at |-> "answered"]] /\ UNCHANGED <<s1, s2, s3, s5>>
        BY <1>5 DEF Registry!AssignGroupsFails, Registry!WarmHashFails, Registry!Answer
    <2>2. /\ s6 \subseteq s6' /\ s6' \subseteq Imeis
          /\ Registry!Known(s4[q].imei) => s4[q].imei \in s6'
        BY <1>1, <1>5 DEF RegistryInv, Registry!AssignGroupsFails, Registry!WarmHashFails, Registry!Excuse
    <2> QED  BY <1>2, <2>1, <2>2, RequestMoves
<1>8. CASE \/ Registry!WarmHashFails(q) /\ s2' = [s2 EXCEPT ![s4[q].imei] = s4[q].entry]
           \/ Registry!InvalidateFails(q)
    <2>0. PICK i \in Imeis : i = s4[q].imei
        BY <1>1
    <2>1. /\ s4' = [s4 EXCEPT ![q] = [at |-> "answered"]] /\ UNCHANGED <<s1, s5>>
          /\ s2' \in [Imeis -> Registry!Entries \cup {None}]
          /\ s3' \in [Imeis -> Registry!Entries \cup {None}]
          /\ \A m \in Imeis \ {i} : s2'[m] = s2[m] /\ s3'[m] = s3[m]
        BY <1>1, <1>8, <2>0 DEF RegistryInv, Registry!WarmHashFails, Registry!InvalidateFails, Registry!Answer
    <2>2. s6 \subseteq s6' /\ s6' \subseteq Imeis
        BY <1>1, <1>8, <2>0 DEF RegistryInv, Registry!WarmHashFails, Registry!InvalidateFails, Registry!Excuse
    <2>3. s4' \in [Askers -> Asking]
        BY <1>2, <2>0, <2>1 DEF RegistryInv
    <2>4. \A m \in Imeis \ {i} : Registry!Underway(m) => Registry!Underway(m)'
        BY <2>0, <2>1 DEF RegistryInv, Registry!Underway, Registry!At
    <2>5. \A e \in {s2'[i], s3'[i]} \ {None} : i \in s6' \/ Registry!Current(i, e)'
        <3>1. CASE Registry!WarmHashFails(q) /\ s2' = [s2 EXCEPT ![s4[q].imei] = s4[q].entry]
            <4>1. \/ i \in s6'
                  \/ Registry!Excuse({i}) /\ UNCHANGED s2
                BY <1>1, <2>0, <3>1 DEF Registry!WarmHashFails
            <4>2. UNCHANGED s3
                BY <3>1 DEF Registry!WarmHashFails
            <4> QED  BY <1>1, <2>0, <4>1, <4>2 DEF RegistryInv, Registry!Excuse, Registry!Known
        <3>2. CASE Registry!InvalidateFails(q)
            <4>1. /\ s3'[i] = None /\ s2' = s2 /\ s1' = s1
                  /\ s2[i] = None \/ Registry!Current(i, s2[i]) \/ i \in s6'
                BY <1>1, <2>0, <3>2 DEF RegistryInv, Registry!InvalidateFails
            <4> QED  BY <1>1, <4>1 DEF RegistryInv, Registry!Current, Registry!Exists
        <3> QED  BY <1>8, <3>1, <3>2
    <2>6. ASSUME NEW m \in Imeis, m # i, NEW e \in {s2'[m], s3'[m]} \ {None}
          PROVE  Registry!Current(m, e)' \/ Registry!Underway(m)' \/ m \in s6'
        <3>1. e \in {s2[m], s3[m]} /\ s1' = s1
            BY <2>1, <2>6
        <3>2. Registry!Current(m, e) \/ Registry!Underway(m) \/ m \in s6
            BY <2>6, <3>1 DEF RegistryInv, Registry!StaleHasCause
        <3> QED  BY <2>2, <2>4, <2>6, <3>1, <3>2 DEF Registry!Current, Registry!Exists
    <2>7. Registry!StaleHasCause'
        BY <2>5, <2>6 DEF Registry!StaleHasCause
    <2> QED  BY <2>1, <2>2, <2>3, <2>7 DEF RegistryInv
<1>6. CASE Registry!WarmHash(q)
    <2> DEFINE r == [s4[q] EXCEPT !.at = "invalidate"]
    <2>1. s4' = [s4 EXCEPT ![q] = r] /\ UNCHANGED <<s1, s3, s5, s6>>
          /\ s2' = [s2 EXCEPT ![s4[q].imei] = s4[q].entry]
        BY <1>6 DEF Registry!WarmHash, Registry!Go
    <2>2. r \in InHand /\ r \in Asking /\ r.imei = s4[q].imei /\ r.at = "invalidate"
        BY <1>1, <1>3 DEF InHand
    <2> HIDE DEF r
    <2>3. s4' \in [Askers -> Asking] /\ s2' \in [Imeis -> Registry!Entries \cup {None}]
        BY <1>1, <2>1, <2>2 DEF RegistryInv
    <2>4. \A m \in Imeis : Registry!Underway(m) => Registry!Underway(m)'
        BY <1>1, <2>1, <2>2 DEF RegistryInv, Registry!Underway, Registry!At
    <2>5. \A m \in Imeis : m = s4[q].imei => Registry!Underway(m)'
        BY <2>1, <2>2 DEF RegistryInv, Registry!Underway, Registry!At
    <2>6. Registry!StaleHasCause'
        BY <1>1, <2>1, <2>4, <2>5
           DEF RegistryInv, Registry!StaleHasCause, Registry!Current, Registry!Exists
    <2> QED  BY <2>1, <2>3, <2>6 DEF RegistryInv
<1>7. CASE Registry!Invalidate(q)
    <2> DEFINE i == s4[q].imei
    <2>1. /\ s4' = [s4 EXCEPT ![q] = [at |-> "answered"]] /\ UNCHANGED <<s1, s5>>
          /\ s2' = [s2 EXCEPT ![i] = None] /\ s3' = [s3 EXCEPT ![i] = None] /\ s6' = s6 \ {i}
        BY <1>7 DEF Registry!Invalidate, Registry!Answer, Registry!Forgotten
    <2>2. s4' \in [Askers -> Asking]
        BY <1>2, <2>1 DEF RegistryInv
    <2>3. \A m \in Imeis \ {i} : Registry!Underway(m) => Registry!Underway(m)'
        BY <2>1 DEF RegistryInv, Registry!Underway, Registry!At
    <2> HIDE DEF i
    <2>4. Registry!StaleHasCause'
        BY <2>1, <2>3 DEF RegistryInv, Registry!StaleHasCause, Registry!Current, Registry!Exists
    <2> QED  BY <2>1, <2>2, <2>4 DEF RegistryInv
<1> QED  BY <1>4, <1>5, <1>6, <1>7, <1>8 DEF Registry!WarmHashFails

(* What a consumer stores is what it read: current, or its IMEI is excused.*)
LEMMA RegistryResolves ==
    ASSUME RegistryInv,
           \/ \E p \in Resolvers : Registry!Resolve(p)
           \/ \E m \in Imeis : Registry!Expire(m)
    PROVE  RegistryInv'
<1>1. ASSUME NEW p \in Resolvers, NEW f \in Filling \cup {None}, Registry!Become(p, f),
             UNCHANGED <<s1, s2, s3, s4, s6>>
      PROVE  RegistryInv'
    <2>1. s5' \in [Resolvers -> Filling \cup {None}]
        BY <1>1 DEF RegistryInv, Registry!Become
    <2>2. Registry!StaleHasCause'
        BY <1>1 DEF RegistryInv, Registry!StaleHasCause, Registry!Current, Registry!Exists, Registry!Underway, Registry!At
    <2> QED  BY <1>1, <2>1, <2>2 DEF RegistryInv
<1>2. ASSUME NEW p \in Resolvers, NEW m \in Imeis, Registry!ReadHash(p, m)
      PROVE  RegistryInv'
    <2>1. PICK e \in {s2[m], None} : Registry!Become(p, [at |-> "hash", imei |-> m, entry |-> e])
        BY <1>2 DEF Registry!ReadHash
    <2>2. [at |-> "hash", imei |-> m, entry |-> e] \in Filling
        BY <2>1 DEF RegistryInv, Filling, FromHash
    <2> QED  BY <1>1, <1>2, <2>1, <2>2 DEF Registry!ReadHash
<1>3. ASSUME NEW p \in Resolvers, Registry!ReadRow(p)
      PROVE  RegistryInv'
    <2> DEFINE m == s5[p].imei
    <2>1. UNCHANGED <<s1, s2, s3, s4, s6>>
        BY <1>3 DEF Registry!ReadRow
    <2>2. CASE Registry!Become(p, None)
        BY <1>1, <2>1, <2>2
    <2>3. ASSUME NEW v \in Registry!Holders(m),
                 Registry!Become(p, [at |-> "row", imei |-> m, entry |-> Registry!EntryOf(v)])
          PROVE  RegistryInv'
        <3>1. v \in Twos /\ s1[v] \in Registry!Rows /\ m \in Imeis
            BY <1>3, <2>3 DEF RegistryInv, Registry!Holders, Registry!Exists, Registry!ReadRow,
               Filling, FromHash, FromRow
        <3>2. [at |-> "row", imei |-> m, entry |-> Registry!EntryOf(v)] \in Filling
            BY <3>1 DEF Filling, FromRow, Registry!EntryOf, Registry!Entries, Registry!Rows
        <3> QED  BY <1>1, <2>1, <2>3, <3>2
    <2> QED  BY <1>3, <2>2, <2>3 DEF Registry!ReadRow
<1>5. ASSUME NEW p \in Resolvers, NEW m, NEW e, s5[p] # None, m = s5[p].imei, e = s5[p].entry,
             e # None \/ s5[p].at = "row",
             s2' = s2 \/ s2' = [s2 EXCEPT ![m] = e],
             s3' = s3 \/ s3' = [s3 EXCEPT ![m] = e],
             \/ s6' = s6 /\ (Registry!Current(m, e) \/ s2[m] = e)
             \/ s6' = s6 \cup {m},
             Registry!Become(p, None), UNCHANGED <<s1, s4>>
      PROVE  RegistryInv'
    <2>1. m \in Imeis /\ e \in Registry!Entries
        BY <1>5 DEF RegistryInv, Filling, FromHash, FromRow
    <2>2. s5' = [s5 EXCEPT ![p] = None]
        BY <1>5 DEF Registry!Become
    <2>3. /\ s2' \in [Imeis -> Registry!Entries \cup {None}]
          /\ s3' \in [Imeis -> Registry!Entries \cup {None}]
          /\ s5' \in [Resolvers -> Filling \cup {None}]
          /\ s6' \subseteq Imeis /\ s6 \subseteq s6'
        BY <1>5, <2>1, <2>2 DEF RegistryInv
    <2>4. \A i \in Imeis : Registry!Underway(i)' <=> Registry!Underway(i)
        BY <1>5 DEF Registry!Underway, Registry!At
    <2>5. ASSUME NEW i \in Imeis, NEW f \in {s2'[i], s3'[i]} \ {None}
          PROVE  Registry!Current(i, f)' \/ Registry!Underway(i)' \/ i \in s6'
        <3>1. CASE i = m /\ f = e /\ ~(f \in {s2[i], s3[i]})
            BY <1>5, <3>1 DEF Registry!Current, Registry!Exists
        <3>2. CASE f \in {s2[i], s3[i]}
            BY <1>5, <2>3, <2>4, <2>5, <3>2
               DEF RegistryInv, Registry!StaleHasCause, Registry!Current, Registry!Exists
        <3>3. (i = m /\ f = e) \/ f \in {s2[i], s3[i]}
            BY <1>5, <2>1, <2>5 DEF RegistryInv
        <3> QED  BY <3>1, <3>2, <3>3
    <2>6. Registry!StaleHasCause'
        BY <2>5 DEF Registry!StaleHasCause
    <2> QED  BY <1>5, <2>3, <2>6 DEF RegistryInv
<1>6. ASSUME NEW p \in Resolvers, Registry!KeepEntry(p)
      PROVE  RegistryInv'
    BY <1>5, <1>6 DEF Registry!KeepEntry
<1>7. ASSUME NEW p \in Resolvers, Registry!StoreRow(p)
      PROVE  RegistryInv'
    BY <1>5, <1>7 DEF Registry!StoreRow
<1>4. ASSUME NEW m \in Imeis, Registry!Expire(m)
      PROVE  RegistryInv'
    <2>1. s3' = [s3 EXCEPT ![m] = None] /\ UNCHANGED <<s1, s2, s4, s5, s6>>
        BY <1>4 DEF Registry!Expire
    <2>2. Registry!StaleHasCause'
        BY <2>1 DEF RegistryInv, Registry!StaleHasCause, Registry!Current, Registry!Exists, Registry!Underway, Registry!At
    <2> QED  BY <2>1, <2>2 DEF RegistryInv
<1> QED  BY <1>2, <1>3, <1>4, <1>6, <1>7 DEF Registry!Resolve

LEMMA RegistryStarts ==
    ASSUME Registry!Init
    PROVE  RegistryInv
<1>1. s1 \in [Twos -> Registry!Rows \cup {None}]
    BY DEF Registry!Init, Registry!Rows
<1>2. [at |-> "new"] \in Asking
    BY DEF Asking, Resting
<1>3. Registry!StaleHasCause
    BY DEF Registry!Init, Registry!StaleHasCause
<1> QED  BY <1>1, <1>2, <1>3 DEF Registry!Init, RegistryInv

LEMMA RegistryMoves ==
    ASSUME Registry!RegistryAssumption, RegistryInv, Registry!Next
    PROVE  RegistryInv'
<1>1. ASSUME NEW q \in Askers, Registry!createVehicle(q)
      PROVE  RegistryInv'
    BY <1>1, ArrivalKinds, RegistryInserts, RegistryFollows DEF Registry!createVehicle
<1>2. ASSUME NEW q \in Askers, Registry!updateVehicle(q)
      PROVE  RegistryInv'
    BY <1>2, ArrivalKinds, RegistryUpdates, RegistryFollows DEF Registry!updateVehicle
<1>3. ASSUME NEW q \in Askers, Registry!deleteVehicle(q)
      PROVE  RegistryInv'
    BY <1>3, ArrivalKinds, RegistryDeletes DEF Registry!deleteVehicle
<1>4. ASSUME NEW q \in Askers, Registry!migrateVehicle(q)
      PROVE  RegistryInv'
    BY <1>4, ArrivalKinds, RegistryMigrates DEF Registry!migrateVehicle
<1> QED  BY <1>1, <1>2, <1>3, <1>4, RegistryResolves, RegistryCascades DEF Registry!Next


-----------------------------------------------------------------------------
(* Geofences and their cache. *)

Shapes == SUBSET (Geofences \X Nat)
Kept == [list : Shapes, at : Nat]
Check == [vehicle : Vehicles, list : Shapes, from : Nat, to : Nat]
ReaderIdle == [at : {"idle"}]
ReaderReads == [at : {"read"}, vehicle : Vehicles, now : Nat]
ReaderStores == [at : {"store"}, vehicle : Vehicles, now : Nat, list : Shapes]

ZonesTypes ==
    /\ s1 \in [Zone!Zone -> Zone!Rows \cup {None}]
    /\ s2 \subseteq Vehicles \X {z \in Zone!Zone : s1[z] # None}
    /\ s3 \in [Vehicles -> Kept \cup {None}]
    /\ s4 \in ReaderIdle \cup ReaderReads \cup ReaderStores
    /\ s5 \in Check \cup {None}
    /\ s6 \in 0..LastCheck
    /\ s7 \in Nat
    /\ s8 \in [0..LastCheck -> [Vehicles -> SUBSET Shapes]]

(* The list was the vehicle's at some time between these. *)
Was(v, list, first, last) == \E t \in 0..LastCheck : first <= t /\ t <= last /\ list \in s8[t][v]

Since(t) == IF t > Ttl THEN t - Ttl ELSE 0

(* What a vehicle's geofences are is recorded; an entry of the cache, and  *)
(* what a reader is about to store, was so since the packet came for which *)
(* it was read.                                                            *)
ZonesInv ==
    /\ ZonesTypes
    /\ \A v \in Vehicles : Zone!GeofencesOf(v, s1, s2) \in s8[s6][v]
    /\ \A v \in Vehicles : s3[v] # None => s3[v].at <= s6 /\ Was(v, s3[v].list, s3[v].at, s6)
    /\ s4.at # "idle" => s4.now <= s6
    /\ s4.at = "store" => Was(s4.vehicle, s4.list, s4.now, s6)
    /\ s5 # None => s5.to <= s6 /\ Was(s5.vehicle, s5.list, Since(s5.from), s5.to)

LEMMA GeofencesAreShapes ==
    ASSUME NEW table, NEW pairs, NEW v,
           \A g \in Geofences : <<v, g>> \in pairs => table[g].shape \in Nat
    PROVE  Zone!GeofencesOf(v, table, pairs) \in Shapes
<1> SUFFICES ASSUME NEW x \in Zone!GeofencesOf(v, table, pairs)
             PROVE  x \in Geofences \X Nat
    BY DEF Shapes
<1>1. PICK z \in Geofences : <<v, z>> \in pairs /\ x = <<z, table[z].shape>>
    BY DEF Zone!GeofencesOf
<1> QED  BY <1>1

LEMMA WasLonger ==
    ASSUME NEW v, NEW list, NEW first \in Nat, NEW last \in Nat, Was(v, list, first, last),
           NEW since \in Nat, since <= first, NEW later \in Nat, last <= later
    PROVE  Was(v, list, since, later)
    BY DEF Was

(* Time goes on and the past stays as it was: so does what was recorded.   *)
LEMMA PastStays ==
    ASSUME ZonesInv, s6' \in 0..LastCheck, s6 <= s6',
           s8' \in [0..LastCheck -> [Vehicles -> SUBSET Shapes]],
           \A t \in 0..s6 : \A v \in Vehicles : s8[t][v] \subseteq s8'[t][v],
           NEW v \in Vehicles, NEW list, NEW first, NEW last \in Nat, last <= s6, Was(v, list, first, last)
    PROVE  Was(v, list, first, last)'
<1>1. PICK t \in 0..LastCheck : first <= t /\ t <= last /\ list \in s8[t][v]
    BY DEF Was
<1>2. t \in 0..s6
    BY <1>1 DEF ZonesInv, ZonesTypes
<1> QED  BY <1>1, <1>2 DEF Was

(* A change of the tables is recorded in the present. *)
LEMMA ZonesEdit ==
    ASSUME Zone!ZonesAssumption, ZonesInv, NEW table \in [Zone!Zone -> Zone!Rows \cup {None}],
           NEW pairs \in SUBSET (Vehicles \X {z \in Zone!Zone : table[z] # None}),
           Zone!Edit(table, pairs)
    PROVE  ZonesInv'
<1>1. /\ s1' = table /\ s2' = pairs /\ s7' = s7 + 1 /\ UNCHANGED <<s3, s4, s5, s6>>
      /\ s8' = [s8 EXCEPT ![s6] = [v \in Vehicles |-> @[v] \cup {Zone!GeofencesOf(v, table, pairs)}]]
    BY DEF Zone!Edit
<1>2. \A v \in Vehicles : Zone!GeofencesOf(v, table, pairs) \in Shapes
    <2> SUFFICES ASSUME NEW v \in Vehicles, NEW g \in Geofences, <<v, g>> \in pairs
                 PROVE  table[g].shape \in Nat
        BY GeofencesAreShapes
    <2>1. table[g] \in Zone!Rows
        BY DEF Zone!Zone
    <2> QED  BY <2>1 DEF Zone!Rows
<1>3. [v \in Vehicles |-> s8[s6][v] \cup {Zone!GeofencesOf(v, table, pairs)}] \in [Vehicles -> SUBSET Shapes]
    BY <1>2 DEF ZonesInv, ZonesTypes
<1>4. /\ s8' \in [0..LastCheck -> [Vehicles -> SUBSET Shapes]]
      /\ \A t \in 0..LastCheck : t # s6 => s8'[t] = s8[t]
      /\ \A v \in Vehicles : s8'[s6][v] = s8[s6][v] \cup {Zone!GeofencesOf(v, table, pairs)}
    BY <1>1, <1>3 DEF ZonesInv, ZonesTypes
<1>5. \A t \in 0..s6 : \A v \in Vehicles : s8[t][v] \subseteq s8'[t][v]
    <2> SUFFICES ASSUME NEW t \in 0..s6, NEW v \in Vehicles
                 PROVE  s8[t][v] \subseteq s8'[t][v]
        OBVIOUS
    <2>1. t \in 0..LastCheck
        BY DEF ZonesInv, ZonesTypes, Zone!ZonesAssumption
    <2> QED  BY <1>4, <2>1
<1>6. s6 \in Nat /\ s6' = s6 /\ s6' \in 0..LastCheck /\ s6 <= s6'
    BY <1>1 DEF ZonesInv, ZonesTypes
<1>7. ZonesTypes'
    BY <1>1, <1>4 DEF ZonesInv, ZonesTypes
<1>8. \A v \in Vehicles : Zone!GeofencesOf(v, table, pairs) \in s8'[s6][v]
    BY <1>4
<1>9. \A v \in Vehicles : s3[v] # None => s3[v].at <= s6 /\ Was(v, s3[v].list, s3[v].at, s6)'
    BY <1>1, <1>4, <1>5, <1>6, PastStays DEF ZonesInv
<1>10. s4.at = "store" => Was(s4.vehicle, s4.list, s4.now, s6)'
    <2> SUFFICES ASSUME s4.at = "store"
                 PROVE  Was(s4.vehicle, s4.list, s4.now, s6)'
        OBVIOUS
    <2>1. s4.vehicle \in Vehicles
        BY DEF ZonesInv, ZonesTypes, ReaderIdle, ReaderReads, ReaderStores
    <2> QED  BY <1>1, <1>4, <1>5, <1>6, <2>1, PastStays DEF ZonesInv
<1>11. s5 # None => Was(s5.vehicle, s5.list, Since(s5.from), s5.to)'
    <2> SUFFICES ASSUME s5 # None
                 PROVE  Was(s5.vehicle, s5.list, Since(s5.from), s5.to)'
        OBVIOUS
    <2>1. s5.vehicle \in Vehicles /\ s5.to \in Nat
        BY DEF ZonesInv, ZonesTypes, Check
    <2> QED  BY <1>1, <1>4, <1>5, <1>6, <2>1, PastStays DEF ZonesInv
<1> QED  BY <1>1, <1>7, <1>8, <1>9, <1>10, <1>11 DEF ZonesInv

(* A packet comes, the table is read, the entry is stored; time passes.    *)
LEMMA ZonesCheck ==
    ASSUME Zone!ZonesAssumption, ZonesInv,
           \/ \E v \in Vehicles : Zone!Hit(v) \/ Zone!Miss(v)
           \/ Zone!ReadGeofences \/ Zone!StoreGeofences
    PROVE  ZonesInv'
<1>1. /\ UNCHANGED <<s1, s2, s6, s7, s8>> /\ s6 \in Nat /\ s6 \in 0..LastCheck
      /\ Ttl \in Nat /\ Ttl > 0
    BY DEF Zone!Hit, Zone!Miss, Zone!ReadGeofences, Zone!StoreGeofences, ZonesInv, ZonesTypes, Zone!ZonesAssumption
<1>2. \A v, list, first, last : Was(v, list, first, last)' <=> Was(v, list, first, last)
    BY <1>1 DEF Was
<1>3. ASSUME NEW v \in Vehicles, Zone!Hit(v)
      PROVE  ZonesInv'
    <2> DEFINE c == [vehicle |-> v, list |-> s3[v].list, from |-> s6, to |-> s6]
    <2>1. s5' = c /\ UNCHANGED <<s3, s4>> /\ s3[v] # None /\ s6 - s3[v].at < Ttl
        BY <1>3 DEF Zone!Hit, Zone!Fresh
    <2>2. s3[v] \in Kept /\ s3[v].at \in Nat /\ s3[v].list \in Shapes
        BY <2>1 DEF ZonesInv, ZonesTypes, Kept
    <2>3. c \in Check /\ c.vehicle = v /\ c.list = s3[v].list /\ c.from = s6 /\ c.to = s6
        BY <1>1, <2>2 DEF Check
    <2>4. Since(s6) \in Nat /\ Since(s6) <= s3[v].at
        BY <1>1, <2>1, <2>2 DEF Since, ZonesInv
    <2>5. Was(v, s3[v].list, Since(s6), s6)
        BY <1>1, <2>1, <2>2, <2>4, WasLonger DEF ZonesInv
    <2> HIDE DEF c
    <2>6. Was(s5.vehicle, s5.list, Since(s5.from), s5.to)'
        BY <1>1, <2>1, <2>3, <2>5 DEF Was
    <2>7. ZonesTypes'
        BY <1>1, <2>1, <2>3 DEF ZonesInv, ZonesTypes
    <2> QED  BY <1>1, <2>1, <2>3, <2>6, <2>7 DEF ZonesInv, Was
<1>4. ASSUME NEW v \in Vehicles, Zone!Miss(v)
      PROVE  ZonesInv'
    <2> DEFINE r == [at |-> "read", vehicle |-> v, now |-> s6]
    <2>1. s4' = r /\ UNCHANGED <<s3, s5>>
        BY <1>4 DEF Zone!Miss
    <2>2. r \in ReaderReads /\ r.at = "read" /\ r.now = s6
        BY <1>1 DEF ReaderReads
    <2> HIDE DEF r
    <2>3. ZonesTypes'
        BY <1>1, <2>1, <2>2 DEF ZonesInv, ZonesTypes
    <2> QED  BY <1>1, <2>1, <2>2, <2>3 DEF ZonesInv, Was
<1>5. CASE Zone!ReadGeofences
    <2> DEFINE l == Zone!GeofencesOf(s4.vehicle, s1, s2)
               r == [at |-> "store", vehicle |-> s4.vehicle, now |-> s4.now, list |-> l]
    <2>1. s4' = r /\ UNCHANGED <<s3, s5>> /\ s4.at = "read"
        BY <1>5 DEF Zone!ReadGeofences
    <2>2. s4.vehicle \in Vehicles /\ s4.now \in Nat /\ s4.now <= s6
        BY <2>1 DEF ZonesInv, ZonesTypes, ReaderIdle, ReaderReads, ReaderStores
    <2>3. l \in s8[s6][s4.vehicle]
        BY <2>2 DEF ZonesInv
    <2>4. l \in Shapes
        BY <1>1, <2>2, <2>3 DEF ZonesInv, ZonesTypes
    <2> HIDE DEF l
    <2>5. r \in ReaderStores /\ r.at = "store" /\ r.now = s4.now /\ r.vehicle = s4.vehicle /\ r.list = l
        BY <2>2, <2>4 DEF ReaderStores
    <2>6. Was(s4.vehicle, l, s4.now, s6)
        BY <1>1, <2>2, <2>3 DEF Was
    <2> HIDE DEF r
    <2>7. Was(s4.vehicle, s4.list, s4.now, s6)'
        BY <1>1, <2>1, <2>5, <2>6 DEF Was
    <2>8. ZonesTypes'
        BY <1>1, <2>1, <2>5 DEF ZonesInv, ZonesTypes
    <2>9. \A v \in Vehicles : s3[v] # None => s3[v].at <= s6 /\ Was(v, s3[v].list, s3[v].at, s6)'
        BY <1>1, <2>1 DEF ZonesInv, Was
    <2>10. s5 # None => s5.to <= s6 /\ Was(s5.vehicle, s5.list, Since(s5.from), s5.to)'
        BY <1>1, <2>1 DEF ZonesInv, Was
    <2> QED  BY <1>1, <2>1, <2>2, <2>5, <2>7, <2>8, <2>9, <2>10 DEF ZonesInv
<1>6. CASE Zone!StoreGeofences
    <2> DEFINE v == s4.vehicle
               e == [list |-> s4.list, at |-> s4.now]
               c == [vehicle |-> v, list |-> s4.list, from |-> s4.now, to |-> s6]
    <2>1. s3' = [s3 EXCEPT ![v] = e] /\ s5' = c /\ s4' = [at |-> "idle"] /\ s4.at = "store"
        BY <1>6 DEF Zone!StoreGeofences
    <2>2. v \in Vehicles /\ s4.now \in Nat /\ s4.list \in Shapes /\ s4.now <= s6
        BY <2>1 DEF ZonesInv, ZonesTypes, ReaderIdle, ReaderReads, ReaderStores
    <2>3. Was(v, s4.list, s4.now, s6)
        BY <2>1 DEF ZonesInv
    <2>4. e \in Kept /\ e.list = s4.list /\ e.at = s4.now
        BY <2>2 DEF Kept
    <2>5. c \in Check /\ c.vehicle = v /\ c.list = s4.list /\ c.from = s4.now /\ c.to = s6
        BY <1>1, <2>2 DEF Check
    <2>6. Since(s4.now) \in Nat /\ Since(s4.now) <= s4.now
        BY <1>1, <2>2 DEF Since
    <2>7. Was(v, s4.list, Since(s4.now), s6)
        BY <1>1, <2>2, <2>3, <2>6, WasLonger
    <2> HIDE DEF v, e, c
    <2>8. [at |-> "idle"] \in ReaderIdle
        BY DEF ReaderIdle
    <2>9. s3' \in [Vehicles -> Kept \cup {None}] /\ s3'[v] = e /\ \A w \in Vehicles \ {v} : s3'[w] = s3[w]
        BY <2>1, <2>2, <2>4 DEF ZonesInv, ZonesTypes
    <2>10. ZonesTypes'
        BY <1>1, <2>1, <2>5, <2>8, <2>9 DEF ZonesInv, ZonesTypes
    <2>11. \A w \in Vehicles : s3'[w] # None => s3'[w].at <= s6 /\ Was(w, s3'[w].list, s3'[w].at, s6)
        <3> SUFFICES ASSUME NEW w \in Vehicles, s3'[w] # None
                     PROVE  s3'[w].at <= s6 /\ Was(w, s3'[w].list, s3'[w].at, s6)
            OBVIOUS
        <3>1. CASE w = v
            BY <2>2, <2>3, <2>4, <2>9, <3>1
        <3>2. CASE w # v
            BY <2>9, <3>2 DEF ZonesInv
        <3> QED  BY <3>1, <3>2
    <2>12. s5'.to <= s6 /\ Was(s5'.vehicle, s5'.list, Since(s5'.from), s5'.to)
        BY <1>1, <2>1, <2>5, <2>7
    <2> QED  BY <1>1, <1>2, <2>1, <2>10, <2>11, <2>12 DEF ZonesInv, Was
<1> QED  BY <1>3, <1>4, <1>5, <1>6

(* An hour strikes: the next unit of time begins as the last one ended.    *)
LEMMA ZonesTick ==
    ASSUME Zone!ZonesAssumption, ZonesInv, Zone!Tick
    PROVE  ZonesInv'
<1> DEFINE now == [v \in Vehicles |-> {Zone!GeofencesOf(v, s1, s2)}]
<1>1. /\ s6 < LastCheck /\ s6' = s6 + 1 /\ s8' = [s8 EXCEPT ![s6 + 1] = now]
      /\ UNCHANGED <<s1, s2, s3, s4, s5, s7>>
    BY DEF Zone!Tick
<1>2. LastCheck \in Nat /\ s6 \in Nat /\ s6' \in 0..LastCheck /\ s6 <= s6'
    BY <1>1 DEF ZonesInv, ZonesTypes, Zone!ZonesAssumption
<1>3. now \in [Vehicles -> SUBSET Shapes]
    BY DEF ZonesInv, ZonesTypes
<1> HIDE DEF now
<1>4. /\ s8' \in [0..LastCheck -> [Vehicles -> SUBSET Shapes]] /\ s8'[s6'] = now
      /\ \A t \in 0..s6 : \A v \in Vehicles : s8[t][v] \subseteq s8'[t][v]
    BY <1>1, <1>2, <1>3 DEF ZonesInv, ZonesTypes
<1>5. ZonesTypes'
    BY <1>1, <1>2, <1>4 DEF ZonesInv, ZonesTypes
<1>6. \A v \in Vehicles : Zone!GeofencesOf(v, s1, s2) \in s8'[s6'][v]
    BY <1>4 DEF now
<1>7. ASSUME NEW v \in Vehicles, NEW list, NEW first \in Nat, NEW last \in Nat,
             last <= s6, Was(v, list, first, last)
      PROVE  /\ \E t \in 0..LastCheck : first <= t /\ t <= last /\ list \in s8'[t][v]
             /\ \E t \in 0..LastCheck : first <= t /\ t <= s6' /\ list \in s8'[t][v]
    BY <1>2, <1>4, <1>7, PastStays DEF Was
<1>8. \A v \in Vehicles : s3[v] # None => s3[v].at <= s6' /\
          \E t \in 0..LastCheck : s3[v].at <= t /\ t <= s6' /\ s3[v].list \in s8'[t][v]
    <2> SUFFICES ASSUME NEW v \in Vehicles, s3[v] # None
                 PROVE  s3[v].at <= s6' /\
                        \E t \in 0..LastCheck : s3[v].at <= t /\ t <= s6' /\ s3[v].list \in s8'[t][v]
        OBVIOUS
    <2>1. s3[v].at \in Nat
        BY DEF ZonesInv, ZonesTypes, Kept
    <2> QED  BY <1>2, <1>7, <2>1 DEF ZonesInv
<1>9. /\ s4.at # "idle" => s4.now <= s6'
      /\ s4.at = "store" =>
            \E t \in 0..LastCheck : s4.now <= t /\ t <= s6' /\ s4.list \in s8'[t][s4.vehicle]
    <2>1. /\ s4.at # "idle" => s4.vehicle \in Vehicles /\ s4.now \in Nat
          /\ s4.at = "store" => s4.at # "idle"
        BY DEF ZonesInv, ZonesTypes, ReaderIdle, ReaderReads, ReaderStores
    <2> QED  BY <1>2, <1>7, <2>1 DEF ZonesInv
<1>10. s5 # None => s5.to <= s6' /\
           \E t \in 0..LastCheck : Since(s5.from) <= t /\ t <= s5.to /\ s5.list \in s8'[t][s5.vehicle]
    <2> SUFFICES ASSUME s5 # None
                 PROVE  s5.to <= s6' /\
                        \E t \in 0..LastCheck : Since(s5.from) <= t /\ t <= s5.to /\ s5.list \in s8'[t][s5.vehicle]
        OBVIOUS
    <2>1. s5.vehicle \in Vehicles /\ s5.from \in Nat /\ s5.to \in Nat /\ Since(s5.from) \in Nat
        BY DEF ZonesInv, ZonesTypes, Check, Since, Zone!ZonesAssumption
    <2> QED  BY <1>2, <1>7, <2>1 DEF ZonesInv
<1> QED  BY <1>1, <1>5, <1>6, <1>8, <1>9, <1>10 DEF ZonesInv, Was, Since

LEMMA ZonesEdits ==
    ASSUME Zone!ZonesAssumption, ZonesInv, NEW z \in Zone!Zone,
           \/ Zone!Create(z) \/ Zone!Delete(z)
           \/ \E b \in BOOLEAN, a \in BOOLEAN \cup {None} : Zone!Update(z, b, a)
           \/ \E S \in SUBSET Vehicles : Zone!Assign(z, S)
    PROVE  ZonesInv'
<1>1. CASE Zone!Create(z)
    <2> DEFINE table == [s1 EXCEPT ![z] = [shape |-> 0, active |-> TRUE]]
    <2>1. [shape |-> 0, active |-> TRUE] \in Zone!Rows
        BY DEF Zone!Rows
    <2>2. table \in [Zone!Zone -> Zone!Rows \cup {None}]
        BY <2>1 DEF ZonesInv, ZonesTypes
    <2>3. [shape |-> 0, active |-> TRUE] # None
        BY <2>1 DEF Zone!ZonesAssumption
    <2>4. s2 \in SUBSET (Vehicles \X {y \in Zone!Zone : table[y] # None})
        BY <2>3 DEF ZonesInv, ZonesTypes
    <2>5. Zone!Edit(table, s2)
        BY <1>1 DEF Zone!Create
    <2> HIDE DEF table
    <2> QED  BY <2>2, <2>4, <2>5, ZonesEdit
<1>2. CASE Zone!Delete(z)
    <2> DEFINE table == [s1 EXCEPT ![z] = None]
               pairs == {p \in s2 : p[2] # z}
    <2>1. table \in [Zone!Zone -> Zone!Rows \cup {None}]
        BY DEF ZonesInv, ZonesTypes
    <2>2. pairs \in SUBSET (Vehicles \X {y \in Zone!Zone : table[y] # None})
        BY DEF ZonesInv, ZonesTypes
    <2>3. Zone!Edit(table, pairs)
        BY <1>2 DEF Zone!Delete
    <2> HIDE DEF table, pairs
    <2> QED  BY <2>1, <2>2, <2>3, ZonesEdit
<1>3. ASSUME NEW b \in BOOLEAN, NEW a \in BOOLEAN \cup {None}, Zone!Update(z, b, a)
      PROVE  ZonesInv'
    <2> DEFINE n == IF b THEN s1[z].shape + 1 ELSE s1[z].shape
               active == IF a = None THEN s1[z].active ELSE a
               table == [s1 EXCEPT ![z] = [shape |-> n, active |-> active]]
    <2>1. s1[z] \in Zone!Rows /\ Zone!Edit(table, s2)
        BY <1>3 DEF Zone!Update, Zone!Exists, ZonesInv, ZonesTypes
    <2>2. n \in Nat
        BY <2>1 DEF Zone!Rows
    <2>3. active \in BOOLEAN
        BY <2>1 DEF Zone!Rows
    <2> HIDE DEF n, active
    <2>4. [shape |-> n, active |-> active] \in Zone!Rows
        BY <2>2, <2>3 DEF Zone!Rows
    <2>5. [shape |-> n, active |-> active] # None
        BY <2>4 DEF Zone!ZonesAssumption
    <2>6. table \in [Zone!Zone -> Zone!Rows \cup {None}]
        BY <2>4 DEF ZonesInv, ZonesTypes
    <2>7. s2 \in SUBSET (Vehicles \X {y \in Zone!Zone : table[y] # None})
        BY <2>5 DEF ZonesInv, ZonesTypes
    <2> HIDE DEF table
    <2> QED  BY <2>1, <2>6, <2>7, ZonesEdit
<1>4. ASSUME NEW S \in SUBSET Vehicles, Zone!Assign(z, S)
      PROVE  ZonesInv'
    <2> DEFINE pairs == {p \in s2 : p[2] # z} \cup (S \X {z})
    <2>1. s1 \in [Zone!Zone -> Zone!Rows \cup {None}] /\ s1[z] # None /\ Zone!Edit(s1, pairs)
        BY <1>4 DEF Zone!Assign, Zone!Exists, ZonesInv, ZonesTypes
    <2>2. pairs \in SUBSET (Vehicles \X {y \in Zone!Zone : s1[y] # None})
        BY <2>1 DEF ZonesInv, ZonesTypes
    <2> HIDE DEF pairs
    <2> QED  BY <2>1, <2>2, ZonesEdit
<1> QED  BY <1>1, <1>2, <1>3, <1>4

LEMMA ZonesStart ==
    ASSUME Zone!ZonesAssumption, Zone!ZonesInit
    PROVE  ZonesInv
<1>1. /\ s1 = [z \in Zone!Zone |-> None] /\ s2 = {} /\ s3 = [v \in Vehicles |-> None]
      /\ s4 = [at |-> "idle"] /\ s5 = None /\ s6 = 0 /\ s7 = 0
      /\ s8 = [t \in 0..LastCheck |-> [v \in Vehicles |-> IF t = 0 THEN {{}} ELSE {}]]
      /\ LastCheck \in Nat
    BY DEF Zone!ZonesInit, Zone!ZonesAssumption
<1>2. s4 \in ReaderIdle
    BY <1>1 DEF ReaderIdle
<1>3. s8 \in [0..LastCheck -> [Vehicles -> SUBSET Shapes]]
    <2>1. {{}} \in SUBSET Shapes /\ {} \in SUBSET Shapes
        BY DEF Shapes
    <2>2. \A t \in 0..LastCheck : [v \in Vehicles |-> IF t = 0 THEN {{}} ELSE {}] \in [Vehicles -> SUBSET Shapes]
        BY <2>1
    <2> QED  BY <1>1, <2>2
<1>4. \A v \in Vehicles : Zone!GeofencesOf(v, s1, s2) = {}
    BY <1>1 DEF Zone!GeofencesOf
<1>5. \A v \in Vehicles : s8[s6][v] = {{}}
    BY <1>1
<1>6. ZonesTypes
    BY <1>1, <1>2, <1>3 DEF ZonesTypes
<1> QED  BY <1>1, <1>4, <1>5, <1>6 DEF ZonesInv

LEMMA ZonesMove ==
    ASSUME Zone!ZonesAssumption, ZonesInv, Zone!ZonesNext
    PROVE  ZonesInv'
<1>1. Geofences \subseteq Zone!Zone /\ Routes \subseteq Zone!Zone
    BY DEF Zone!Zone
<1> QED  BY <1>1, ZonesEdits, ZonesCheck, ZonesTick
         DEF Zone!ZonesNext, Zone!createGeofence, Zone!updateGeofence, Zone!deleteGeofence, Zone!assignGeofence,
         Zone!createRoute, Zone!updateRoute, Zone!deleteRoute, Zone!assignRoute

LEMMA ZonesAsPromised ==
    ASSUME Zone!ZonesAssumption, ZonesInv
    PROVE  Zone!ZonesAreRecent /\ Zone!ZonesTypeOK
<1>1. Zone!ZonesAreRecent
    BY DEF ZonesInv, Was, Since, Zone!ZonesAreRecent, Zone!Within
<1>2. Zone!ZonesTypeOK
    BY DEF ZonesInv, ZonesTypes, Zone!ZonesTypeOK, Zone!Exists, ReaderIdle, ReaderReads, ReaderStores
<1> QED  BY <1>1, <1>2

-----------------------------------------------------------------------------
(* Devices and licences. *)

Onboarding == [op : {"onboard"}, at : {"count", "device", "vehicle", "commit"}, batch : Batches,
               next : Nat, devices : SUBSET Devices, vehicles : SUBSET Devices, excused : BOOLEAN]
Reading == [op : {"renew", "edit"}, at : {"read"}, imei : Devices, lapped : Nat]
Writing == [op : {"renew", "edit"}, at : {"write", "commit"}, imei : Devices, lapped : Nat, date : Int]
Unasked == [at : {"new", "end"}]
Dealing == Onboarding \cup Reading \cup Writing \cup Unasked

Ordered(batch) == {batch[n] : n \in DOMAIN batch}

(* An onboarding inserts the devices and vehicles of its batch, in step;   *)
(* nobody else has a vehicle of it; and there is room for the batch unless *)
(* it has not counted yet or its count is out of date.                     *)
OnboardSound(r) ==
    /\ r.devices \subseteq Ordered(r.batch)
    /\ r.at # "vehicle" => r.devices \subseteq r.vehicles
    /\ r.at = "vehicle" => r.devices \subseteq r.vehicles \cup {r.batch[r.next]}
    /\ r.at # "commit" => r.next \in DOMAIN r.batch
    /\ \A m \in r.vehicles : s3[m] = None
    /\ r.excused \/ r.at = "count" \/ Licence!RoomFor(r.batch)

(* What the vehicle would have after this request, were it next. *)
Owed(r) == IF r.op = "renew" THEN Licence!Renewed(s6[r.imei]) ELSE s6[r.imei]

(* A renewal or an edit has a vehicle; the date it is about to write falls *)
(* short by no more than the writes it has not read.                       *)
WriteSound(r) == Owed(r) - r.date <= s7[r.imei] + r.lapped

Sound(r) ==
    /\ r \in Onboarding => OnboardSound(r)
    /\ r \in Reading \cup Writing => s3[r.imei] # None
    /\ r \in Writing => WriteSound(r)

Apart(r, u) == r \in Onboarding /\ u \in Onboarding => r.vehicles \cap u.vehicles = {}

LicenceTypes ==
    /\ s1 \in [Tiers -> Nat]
    /\ s2 \subseteq {m \in Devices : s3[m] # None} /\ IsFiniteSet(s2)
    /\ s3 \in [Devices -> Int \cup {None}]
    /\ s4 \in [Dealings -> Dealing]
    /\ s5 \in [Tiers -> Nat]
    /\ s6 \in [Devices -> Nat]
    /\ s7 \in [Devices -> Nat]

LicenceInv ==
    /\ LicenceTypes
    /\ \A q \in Dealings : Sound(s4[q])
    /\ \A p, q \in Dealings : p # q => Apart(s4[p], s4[q])
    /\ Licence!ExcessHasCause
    /\ Licence!ShortfallHasCause

LEMMA DealingKinds ==
    ASSUME NEW r \in Dealing
    PROVE  /\ r.at \in {"count", "device", "vehicle"} => r \in Onboarding
           /\ r.at = "read" => r \in Reading
           /\ r.at = "write" => r \in Writing
           /\ r.at = "commit" /\ r.op = "onboard" => r \in Onboarding
           /\ r.at = "commit" /\ r.op # "onboard" => r \in Writing
           /\ r.at \in Licence!Open /\ r.op = "onboard" => r \in Onboarding
           /\ r.at \in {"write", "commit"} /\ r.op \in {"renew", "edit"} => r \in Writing
           /\ r.at \in {"new", "end"} => r \in Unasked
    BY DEF Dealing, Onboarding, Reading, Writing, Unasked, Licence!Open

LEMMA KindsDiffer ==
    /\ \A r \in Onboarding : r \notin Reading /\ r \notin Writing /\ r \notin Unasked
    /\ \A r \in Reading : r \notin Writing /\ r \notin Unasked
    /\ \A r \in Writing : r \notin Unasked
    BY DEF Onboarding, Reading, Writing, Unasked

LEMMA RestIsSound ==
    ASSUME NEW r \in Unasked
    PROVE  r \in Dealing /\ Sound(r) /\ \A u : Apart(u, r) /\ Apart(r, u)
    BY KindsDiffer DEF Dealing, Sound, Apart

(* A step of a request that changes nothing else. *)
LEMMA DealingMoves ==
    ASSUME LicenceInv, NEW q \in Dealings, NEW r \in Dealing,
           s4' = [s4 EXCEPT ![q] = r], UNCHANGED <<s1, s2, s3, s5, s6, s7>>,
           Sound(r), \A p \in Dealings \ {q} : Apart(s4[p], r) /\ Apart(r, s4[p])
    PROVE  LicenceInv'
<1>1. LicenceTypes'
    BY DEF LicenceInv, LicenceTypes
<1>2. \A u : Sound(u) => Sound(u)'
    BY DEF Sound, OnboardSound, WriteSound, Owed, Licence!RoomFor, Licence!Used
<1>3. \A p \in Dealings : Sound(s4'[p])
    BY DEF LicenceInv, LicenceTypes
<1>4. (\A p \in Dealings : Sound(s4[p]))'
    <2> SUFFICES ASSUME NEW p \in Dealings
                 PROVE  Sound(s4[p])'
        OBVIOUS
    <2>1. PICK u : u = s4'[p]
        OBVIOUS
    <2>2. Sound(u)'
        BY <1>2, <1>3, <2>1
    <2> QED  BY <2>1, <2>2 DEF Sound, OnboardSound, WriteSound, Owed, Licence!RoomFor, Licence!Used
<1>5. (\A o, p \in Dealings : o # p => Apart(s4[o], s4[p]))'
    BY DEF LicenceInv, LicenceTypes, Apart
<1>6. Licence!ExcessHasCause' /\ Licence!ShortfallHasCause'
    BY DEF LicenceInv, Licence!ExcessHasCause, Licence!ShortfallHasCause, Licence!Used
<1> QED  BY <1>1, <1>4, <1>5, <1>6 DEF LicenceInv

LEMMA RestMoves ==
    ASSUME LicenceInv, NEW q \in Dealings, UNCHANGED <<s1, s2, s3, s5, s6, s7>>, Licence!End(q)
    PROVE  LicenceInv'
<1>1. Licence!Ended \in Unasked
    BY DEF Unasked, Licence!Ended
<1> QED  BY <1>1, RestIsSound, DealingMoves DEF Licence!End

(* onboardDevices up to its COMMIT. *)
LEMMA OnboardMoves ==
    ASSUME Licence!LicencesAssumption, LicenceInv, NEW q \in Dealings,
           \/ \E b \in Batches, s \in BOOLEAN : Licence!StartOnboard(q, b, s)
           \/ Licence!Count(q) \/ Licence!InsertDevice(q) \/ Licence!InsertVehicle(q)
           \/ Licence!DeadlockAborts(q)
    PROVE  LicenceInv'
<1> USE DEF Licence!At
<1>1. ASSUME NEW b \in Batches, NEW s \in BOOLEAN, Licence!StartOnboard(q, b, s)
      PROVE  LicenceInv'
    <2> DEFINE r == [op |-> "onboard", at |-> IF s THEN "device" ELSE "count", batch |-> b,
                     next |-> 1, devices |-> {}, vehicles |-> {}, excused |-> s]
    <2>1. s4' = [s4 EXCEPT ![q] = r] /\ UNCHANGED <<s1, s2, s3, s5, s6, s7>>
        BY <1>1 DEF Licence!StartOnboard
    <2>2. r \in Onboarding
        BY DEF Onboarding
    <2>3. 1 \in DOMAIN b
        <3>1. b \in Seq(Devices) /\ b # <<>>
            BY DEF Licence!LicencesAssumption
        <3> QED  BY <3>1
    <2>4. r.at # "count" => r.excused
        BY DEF Onboarding
    <2>5. r.devices = {} /\ r.vehicles = {} /\ r.next = 1 /\ r.batch = b /\ r.at \in {"count", "device"}
        OBVIOUS
    <2> HIDE DEF r
    <2>6. Sound(r)
        BY <2>2, <2>3, <2>4, <2>5, KindsDiffer DEF Sound, OnboardSound
    <2>7. \A u : Apart(u, r) /\ Apart(r, u)
        BY <2>5 DEF Apart
    <2> QED  BY <2>1, <2>2, <2>6, <2>7, DealingMoves DEF Dealing
<1>2. CASE Licence!Count(q)
    <2>1. CASE Licence!RoomFor(s4[q].batch)
        <3> DEFINE r == [s4[q] EXCEPT !.at = "device"]
        <3>1. s4' = [s4 EXCEPT ![q] = r] /\ UNCHANGED <<s1, s2, s3, s5, s6, s7>>
            BY <1>2, <2>1 DEF Licence!Count, Licence!Go
        <3>2. s4[q] \in Onboarding /\ Sound(s4[q]) /\ s4[q].at = "count"
            BY <1>2, DealingKinds DEF Licence!Count, LicenceInv, LicenceTypes
        <3>3. /\ r \in Onboarding /\ r.at = "device"
              /\ r.batch = s4[q].batch /\ r.next = s4[q].next
              /\ r.devices = s4[q].devices /\ r.vehicles = s4[q].vehicles
            BY <3>2 DEF Onboarding
        <3> HIDE DEF r
        <3>5. Sound(r)
            BY <2>1, <3>2, <3>3, KindsDiffer DEF Sound, OnboardSound
        <3>6. \A p \in Dealings \ {q} : Apart(s4[p], r) /\ Apart(r, s4[p])
            BY <3>2, <3>3 DEF LicenceInv, Apart
        <3> QED  BY <3>1, <3>3, <3>5, <3>6, DealingMoves DEF Dealing
    <2>2. CASE ~Licence!RoomFor(s4[q].batch)
        BY <1>2, <2>2, RestMoves DEF Licence!Count
    <2> QED  BY <2>1, <2>2
<1>3. CASE Licence!InsertDevice(q)
    <2> DEFINE m == s4[q].batch[s4[q].next]
    <2>1. s4[q] \in Onboarding /\ Sound(s4[q]) /\ s4[q].at = "device"
        BY <1>3, DealingKinds DEF Licence!InsertDevice, LicenceInv, LicenceTypes
    <2>2. UNCHANGED <<s1, s2, s3, s5, s6, s7>>
        BY <1>3 DEF Licence!InsertDevice
    <2>3. CASE Licence!End(q)
        BY <2>2, <2>3, RestMoves
    <2>4. CASE s4' = [s4 EXCEPT ![q].at = "vehicle", ![q].devices = @ \cup {m}]
        <3> DEFINE r == [s4[q] EXCEPT !.at = "vehicle", !.devices = @ \cup {m}]
        <3>1. s4' = [s4 EXCEPT ![q] = r]
            BY <2>4 DEF LicenceInv, LicenceTypes
        <3>2. s4[q].next \in DOMAIN s4[q].batch /\ s4[q].batch \in Seq(Devices)
            BY <2>1, KindsDiffer DEF Sound, OnboardSound, Onboarding, Licence!LicencesAssumption
        <3>3. m \in Devices /\ m \in Ordered(s4[q].batch)
            BY <3>2 DEF Ordered
        <3>4. /\ r \in Onboarding /\ r.at = "vehicle" /\ r.excused = s4[q].excused
              /\ r.batch = s4[q].batch /\ r.next = s4[q].next
              /\ r.devices = s4[q].devices \cup {m} /\ r.vehicles = s4[q].vehicles
            BY <2>1, <3>3 DEF Onboarding
        <3> HIDE DEF r
        <3>5. Sound(r)
            BY <2>1, <3>2, <3>3, <3>4, KindsDiffer DEF Sound, OnboardSound
        <3>6. \A p \in Dealings \ {q} : Apart(s4[p], r) /\ Apart(r, s4[p])
            BY <2>1, <3>4 DEF LicenceInv, Apart
        <3> QED  BY <2>2, <3>1, <3>4, <3>5, <3>6, DealingMoves DEF Dealing
    <2> QED  BY <1>3, <2>3, <2>4 DEF Licence!InsertDevice
<1>4. CASE Licence!InsertVehicle(q)
    <2> DEFINE m == s4[q].batch[s4[q].next]
               place == IF s4[q].next = Len(s4[q].batch) THEN "commit" ELSE "device"
    <2>1. s4[q] \in Onboarding /\ Sound(s4[q]) /\ s4[q].at = "vehicle"
        BY <1>4, DealingKinds DEF Licence!InsertVehicle, LicenceInv, LicenceTypes
    <2>2. UNCHANGED <<s1, s2, s3, s5, s6, s7>>
        BY <1>4 DEF Licence!InsertVehicle
    <2>3. CASE Licence!End(q)
        BY <2>2, <2>3, RestMoves
    <2>4. CASE /\ s3[m] = None
               /\ s4' = [s4 EXCEPT ![q].at = place, ![q].next = @ + 1, ![q].vehicles = @ \cup {m}]
        <3> DEFINE r == [s4[q] EXCEPT !.at = place, !.next = @ + 1, !.vehicles = @ \cup {m}]
        <3>1. s4' = [s4 EXCEPT ![q] = r]
            BY <2>4 DEF LicenceInv, LicenceTypes
        <3>2. s4[q].next \in DOMAIN s4[q].batch /\ s4[q].batch \in Seq(Devices)
            BY <2>1, KindsDiffer DEF Sound, OnboardSound, Onboarding, Licence!LicencesAssumption
        <3>3. m \in Devices
            BY <3>2
        <3>0. place \in {"commit", "device"}
            OBVIOUS
        <3>4. /\ r \in Onboarding /\ r.at = place /\ r.excused = s4[q].excused
              /\ r.batch = s4[q].batch /\ r.next = s4[q].next + 1
              /\ r.devices = s4[q].devices /\ r.vehicles = s4[q].vehicles \cup {m}
            <4> HIDE DEF place, m
            <4>1. r \in Onboarding
                <5>1. s4[q].next + 1 \in Nat
                    BY <2>1 DEF Onboarding
                <5>2. s4[q].vehicles \cup {m} \in SUBSET Devices
                    BY <2>1, <3>3 DEF Onboarding
                <5>3. ASSUME NEW n \in Nat, NEW V \in SUBSET Devices
                      PROVE  [s4[q] EXCEPT !.at = place, !.next = n, !.vehicles = V] \in Onboarding
                    BY <2>1, <3>0 DEF Onboarding
                <5> QED  BY <5>1, <5>2, <5>3
            <4>2. r.at = place /\ r.next = s4[q].next + 1
                BY <2>1 DEF Onboarding
            <4>3. r.excused = s4[q].excused /\ r.batch = s4[q].batch /\ r.devices = s4[q].devices
                BY <2>1 DEF Onboarding
            <4>4. r.vehicles = s4[q].vehicles \cup {m}
                BY <2>1 DEF Onboarding
            <4> QED  BY <4>1, <4>2, <4>3, <4>4
        <3>5. s4[q].next \in Nat /\ Len(s4[q].batch) \in Nat /\ DOMAIN s4[q].batch = 1..Len(s4[q].batch)
            BY <2>1, <3>2 DEF Onboarding
        <3>6. r.at # "commit" => r.next \in DOMAIN r.batch
            BY <3>2, <3>4, <3>5
        <3>7. r.at # "vehicle"
            BY <3>4
        <3>8. \A p \in Dealings \ {q} : s4[p] \in Onboarding => m \notin s4[p].vehicles
            <4> SUFFICES ASSUME NEW p \in Dealings \ {q}, s4[p] \in Onboarding
                         PROVE  m \notin s4[p].vehicles
                OBVIOUS
            <4>1. p \in Licence!Others(q)
                BY DEF Licence!Others, Licence!Open, Onboarding
            <4> QED  BY <1>4, <2>1, <4>1 DEF Licence!InsertVehicle, Licence!Blocked, Licence!Waits
        <3> HIDE DEF r, place, m
        <3>9. OnboardSound(s4[q]) /\ s4[q].devices \subseteq s4[q].vehicles \cup {m}
            BY <2>1 DEF Sound, OnboardSound, m
        <3>10. OnboardSound(r)
            BY <2>1, <2>4, <3>4, <3>6, <3>7, <3>9 DEF OnboardSound
        <3>11. Sound(r)
            BY <3>4, <3>10, KindsDiffer DEF Sound
        <3>12. \A p \in Dealings \ {q} : Apart(s4[p], r) /\ Apart(r, s4[p])
            BY <2>1, <3>4, <3>8 DEF LicenceInv, Apart
        <3> QED  BY <2>2, <3>1, <3>4, <3>11, <3>12, DealingMoves DEF Dealing
    <2> QED  BY <1>4, <2>3, <2>4 DEF Licence!InsertVehicle
<1>5. CASE Licence!DeadlockAborts(q)
    BY <1>5, RestMoves DEF Licence!DeadlockAborts
<1> QED  BY <1>1, <1>2, <1>3, <1>4, <1>5

(* A renewal falls short by no more than its vehicle did when it was read. *)
LEMMA RenewedFallsShort ==
    ASSUME NEW o \in Nat, NEW e \in Int, NEW l \in Nat, o - e <= l
    PROVE  Licence!Renewed(o) - Licence!Renewed(e) <= l
    BY DEF Licence!Renewed

(* verifyRenewal and the edit page up to the write. *)
LEMMA ExpiryMoves ==
    ASSUME Licence!LicencesAssumption, LicenceInv, NEW q \in Dealings,
           \/ \E m \in Devices : Licence!StartRenewal(q, m) \/ Licence!OpenEditPage(q, m)
           \/ Licence!ReadExpiry(q) \/ Licence!WriteExpiry(q)
    PROVE  LicenceInv'
<1> USE DEF Licence!At
<1>1. ASSUME NEW m \in Devices, Licence!StartRenewal(q, m) \/ Licence!OpenEditPage(q, m)
      PROVE  LicenceInv'
    <2>1. PICK o \in {"renew", "edit"} :
              s4' = [s4 EXCEPT ![q] = [op |-> o, at |-> "read", imei |-> m, lapped |-> 0]]
        BY <1>1 DEF Licence!StartRenewal, Licence!OpenEditPage
    <2>2. UNCHANGED <<s1, s2, s3, s5, s6, s7>> /\ s3[m] # None
        BY <1>1 DEF Licence!StartRenewal, Licence!OpenEditPage
    <2> DEFINE r == [op |-> o, at |-> "read", imei |-> m, lapped |-> 0]
    <2>3. r \in Reading /\ r.imei = m
        BY DEF Reading
    <2> HIDE DEF r
    <2>4. Sound(r) /\ \A u : Apart(u, r) /\ Apart(r, u)
        BY <2>2, <2>3, KindsDiffer DEF Sound, Apart
    <2> QED  BY <2>1, <2>2, <2>3, <2>4, DealingMoves DEF Dealing, r
<1>2. CASE Licence!ReadExpiry(q)
    <2> DEFINE m == s4[q].imei
               d == IF s4[q].op = "renew" THEN Licence!Renewed(s3[m]) ELSE s3[m]
               r == [op |-> s4[q].op, at |-> "write", imei |-> m, lapped |-> 0, date |-> d]
    <2>1. s4[q] \in Reading /\ Sound(s4[q])
        BY <1>2, DealingKinds DEF Licence!ReadExpiry, LicenceInv, LicenceTypes
    <2>2. UNCHANGED <<s1, s2, s3, s5, s6, s7>> /\ s4' = [s4 EXCEPT ![q] = r]
        BY <1>2 DEF Licence!ReadExpiry
    <2>3. m \in Devices /\ s3[m] \in Int /\ s3[m] # None
        BY <2>1 DEF Sound, Reading, LicenceInv, LicenceTypes
    <2>4. s6[m] \in Nat /\ s7[m] \in Nat /\ s6[m] - s3[m] <= s7[m]
        BY <2>3 DEF LicenceInv, LicenceTypes, Licence!ShortfallHasCause
    <2>5. d \in Int
        BY <2>3 DEF Licence!Renewed
    <2> HIDE DEF d
    <2>6. r \in Writing /\ r.op = s4[q].op /\ r.imei = m /\ r.date = d /\ r.lapped = 0
        BY <2>1, <2>3, <2>5 DEF Reading, Writing
    <2> HIDE DEF m, r
    <2>7. WriteSound(r)
        <3>1. CASE s4[q].op = "renew"
            <4>1. d = Licence!Renewed(s3[m]) /\ Owed(r) = Licence!Renewed(s6[m])
                BY <2>6, <3>1 DEF Owed, d
            <4>2. Licence!Renewed(s6[m]) - Licence!Renewed(s3[m]) <= s7[m]
                BY <2>3, <2>4, RenewedFallsShort
            <4> QED  BY <2>4, <2>6, <4>1, <4>2 DEF WriteSound
        <3>2. CASE s4[q].op # "renew"
            BY <2>4, <2>6, <3>2 DEF WriteSound, Owed, d
        <3> QED  BY <3>1, <3>2
    <2>8. Sound(r) /\ \A u : Apart(u, r) /\ Apart(r, u)
        BY <2>3, <2>6, <2>7, KindsDiffer DEF Sound, Apart
    <2> QED  BY <2>2, <2>6, <2>8, DealingMoves DEF Dealing
<1>3. CASE Licence!WriteExpiry(q)
    <2> DEFINE r == [s4[q] EXCEPT !.at = "commit"]
    <2>1. s4[q] \in Writing /\ Sound(s4[q])
        BY <1>3, DealingKinds DEF Licence!WriteExpiry, LicenceInv, LicenceTypes
    <2>2. UNCHANGED <<s1, s2, s3, s5, s6, s7>> /\ s4' = [s4 EXCEPT ![q] = r]
        BY <1>3 DEF Licence!WriteExpiry, Licence!Go
    <2>3. /\ r \in Writing /\ r.op = s4[q].op /\ r.imei = s4[q].imei
          /\ r.date = s4[q].date /\ r.lapped = s4[q].lapped
        BY <2>1 DEF Writing
    <2> HIDE DEF r
    <2>4. Sound(r) /\ \A u : Apart(u, r) /\ Apart(r, u)
        BY <2>1, <2>3, KindsDiffer DEF Sound, Apart, WriteSound, Owed
    <2> QED  BY <2>2, <2>3, <2>4, DealingMoves DEF Dealing
<1> QED  BY <1>1, <1>2, <1>3

(* What holds of every value that a task takes holds of the tasks. *)
LEMMA TasksSound ==
    ASSUME \A p \in Dealings : \A u : u = s4'[p] => Sound(u)'
    PROVE  (\A p \in Dealings : Sound(s4[p]))'
<1> SUFFICES ASSUME NEW p \in Dealings
             PROVE  Sound(s4[p])'
    OBVIOUS
<1>1. PICK u : u = s4'[p]
    OBVIOUS
<1>2. Sound(u)'
    BY <1>1
<1> QED  BY <1>1, <1>2 DEF Sound, OnboardSound, WriteSound, Owed, Licence!RoomFor, Licence!Used

LEMMA RenewedGrows ==
    ASSUME NEW o \in Nat
    PROVE  /\ Licence!Renewed(o) \in Nat /\ Licence!Renewed(o) <= o + 1
           /\ Licence!Renewed(Licence!Renewed(o)) = Licence!Renewed(o) + 1
    BY DEF Licence!Renewed

(* The expiry of m is written, and whoever has read it has one write more  *)
(* that it does not know of.                                               *)
LEMMA LapsMove ==
    ASSUME Licence!LicencesAssumption, LicenceInv, NEW q \in Dealings,
           NEW m \in Devices, NEW d \in Int, NEW l \in Nat, s3[m] # None,
           NEW o \in {s6[m], Licence!Renewed(s6[m])}, o - d <= s7[m] + l,
           UNCHANGED <<s1, s2, s5>>,
           s3' = [s3 EXCEPT ![m] = d], s6' = [s6 EXCEPT ![m] = o], s7' = [s7 EXCEPT ![m] = @ + l],
           s4' = Licence!Lapping(m, [s4 EXCEPT ![q] = Licence!Ended])
    PROVE  LicenceInv'
<1>1. d # None
    BY DEF Licence!LicencesAssumption
<1>2. s6[m] \in Nat /\ s7[m] \in Nat /\ o \in Nat
    BY RenewedGrows DEF LicenceInv, LicenceTypes
<1>3. /\ s3' \in [Devices -> Int \cup {None}] /\ s6' \in [Devices -> Nat] /\ s7' \in [Devices -> Nat]
      /\ s2' \subseteq {v \in Devices : s3'[v] # None}
    BY <1>1, <1>2 DEF LicenceInv, LicenceTypes
<1>4. /\ \A v \in Devices \ {m} : s3'[v] = s3[v] /\ s6'[v] = s6[v] /\ s7'[v] = s7[v]
      /\ s3'[m] = d /\ s6'[m] = o /\ s7'[m] = s7[m] + l
    BY DEF LicenceInv, LicenceTypes
<1>5. Licence!Ended \in Unasked
    BY DEF Licence!Ended, Unasked
<1>6. ASSUME NEW p \in Dealings
      PROVE  \/ s4'[p] = Licence!Ended
             \/ s4'[p] = s4[p] /\ (s4[p] \in Writing => s4[p].imei # m)
             \/ /\ s4[p] \in Writing /\ s4[p].imei = m
                /\ s4'[p] = [s4[p] EXCEPT !.lapped = @ + 1]
    <2>1. CASE p = q
        BY <1>5, <2>1 DEF LicenceInv, LicenceTypes, Licence!Lapping, Licence!Ended
    <2>2. CASE p # q
        <3>1. s4[p] \in Dealing /\ [s4 EXCEPT ![q] = Licence!Ended][p] = s4[p]
            BY <2>2 DEF LicenceInv, LicenceTypes
        <3>2. s4'[p] = IF s4[p].at \in {"write", "commit"} /\ s4[p].op \in {"renew", "edit"} /\ s4[p].imei = m
                       THEN [s4[p] EXCEPT !.lapped = @ + 1] ELSE s4[p]
            BY <3>1 DEF Licence!Lapping
        <3> QED  BY <3>1, <3>2, DealingKinds DEF Writing
    <2> QED  BY <2>1, <2>2
<1>7. ASSUME NEW r \in Writing, r.imei = m, WriteSound(r), NEW u, u = [r EXCEPT !.lapped = @ + 1]
      PROVE  u \in Writing /\ WriteSound(u)'
    <2>1. /\ u \in Writing /\ u.op = r.op /\ u.imei = m /\ u.date = r.date /\ u.lapped = r.lapped + 1
          /\ r.lapped \in Nat /\ r.date \in Int
        BY <1>7 DEF Writing
    <2>2. CASE r.op = "renew"
        <3>1. Owed(r) = Licence!Renewed(s6[m]) /\ Owed(u)' = Licence!Renewed(o)
            BY <1>4, <1>7, <2>1, <2>2 DEF Owed
        <3>2. Licence!Renewed(s6[m]) \in Nat /\ Licence!Renewed(o) \in Nat
              /\ Licence!Renewed(o) <= Licence!Renewed(s6[m]) + 1
            BY <1>2, RenewedGrows
        <3>3. Licence!Renewed(s6[m]) - r.date <= s7[m] + r.lapped
            BY <1>7, <3>1 DEF WriteSound
        <3> QED  BY <1>2, <1>4, <2>1, <3>1, <3>2, <3>3 DEF WriteSound
    <2>3. CASE r.op # "renew"
        <3>1. Owed(r) = s6[m] /\ Owed(u)' = o
            BY <1>4, <1>7, <2>1, <2>3 DEF Owed
        <3>2. o <= s6[m] + 1
            BY <1>2, RenewedGrows
        <3>3. s6[m] - r.date <= s7[m] + r.lapped
            BY <1>7, <3>1 DEF WriteSound
        <3> QED  BY <1>2, <1>4, <2>1, <3>1, <3>2, <3>3 DEF WriteSound
    <2> QED  BY <2>1, <2>2, <2>3
<1>8. ASSUME NEW r \in Dealing, Sound(r), r \in Writing => r.imei # m
      PROVE  Sound(r)'
    <2>1. r \in Onboarding => OnboardSound(r)'
        <3> SUFFICES ASSUME r \in Onboarding
                     PROVE  OnboardSound(r)'
            OBVIOUS
        <3>1. OnboardSound(r) /\ r.vehicles \subseteq Devices
            BY <1>8 DEF Sound, Onboarding
        <3>2. \A v \in r.vehicles : s3'[v] = None
            BY <1>4, <3>1 DEF OnboardSound
        <3> QED  BY <3>1, <3>2 DEF OnboardSound, Licence!RoomFor, Licence!Used
    <2>2. r \in Reading \cup Writing => s3'[r.imei] # None
        BY <1>1, <1>4, <1>8 DEF Sound, Reading, Writing
    <2>3. r \in Writing => WriteSound(r)'
        BY <1>4, <1>8 DEF Sound, WriteSound, Owed, Writing
    <2> QED  BY <2>1, <2>2, <2>3 DEF Sound
<1>9. ASSUME NEW p \in Dealings, NEW u, u = s4'[p]
      PROVE  u \in Dealing /\ Sound(u)'
    <2>1. s4[p] \in Dealing /\ Sound(s4[p])
        BY DEF LicenceInv, LicenceTypes
    <2>2. PICK r \in Dealing : r = s4[p] /\ Sound(r)
        BY <2>1
    <2>3. CASE u = Licence!Ended
        BY <1>5, <2>3, KindsDiffer DEF Dealing, Sound
    <2>4. CASE u = r /\ (r \in Writing => r.imei # m)
        BY <1>8, <2>2, <2>4
    <2>5. CASE r \in Writing /\ r.imei = m /\ u = [r EXCEPT !.lapped = @ + 1]
        <3>1. WriteSound(r)
            BY <2>2, <2>5 DEF Sound
        <3>2. u \in Writing /\ WriteSound(u)' /\ u.imei = m
            BY <1>7, <2>5, <3>1 DEF Writing
        <3> QED  BY <1>1, <1>4, <3>2, KindsDiffer DEF Dealing, Sound
    <2> QED  BY <1>6, <1>9, <2>2, <2>3, <2>4, <2>5
<1>10. (\A p \in Dealings : Sound(s4[p]))'
    BY <1>9, TasksSound
<1>11. s4' \in [Dealings -> Dealing]
    BY <1>9 DEF Licence!Lapping
<1>12. \A p \in Dealings : s4'[p] \in Onboarding => s4'[p] = s4[p]
    <2> SUFFICES ASSUME NEW p \in Dealings, s4'[p] \in Onboarding
                 PROVE  s4'[p] = s4[p]
        OBVIOUS
    <2>1. s4'[p] # Licence!Ended
        BY <1>5, KindsDiffer
    <2>2. s4[p] \in Writing => [s4[p] EXCEPT !.lapped = @ + 1] \in Writing
        BY DEF Writing
    <2> QED  BY <1>6, <2>1, <2>2, KindsDiffer
<1>13. (\A p, r \in Dealings : p # r => Apart(s4[p], s4[r]))'
    BY <1>12 DEF LicenceInv, Apart
<1>14. Licence!ShortfallHasCause'
    BY <1>2, <1>3, <1>4 DEF LicenceInv, LicenceTypes, Licence!ShortfallHasCause
<1>15. Licence!ExcessHasCause'
    BY DEF LicenceInv, Licence!ExcessHasCause, Licence!Used
<1> QED  BY <1>3, <1>10, <1>11, <1>13, <1>14, <1>15 DEF LicenceInv, LicenceTypes

LEMMA ExpiryIsWritten ==
    ASSUME Licence!LicencesAssumption, LicenceInv, NEW q \in Dealings,
           Licence!CommitRenewal(q) \/ Licence!SaveEditPage(q)
    PROVE  LicenceInv'
<1> DEFINE m == s4[q].imei
           d == s4[q].date
           l == s4[q].lapped
           o == IF s4[q].op = "renew" THEN Licence!Renewed(s6[m]) ELSE s6[m]
<1>1. s4[q] \in Writing /\ Sound(s4[q])
    BY DealingKinds DEF Licence!CommitRenewal, Licence!SaveEditPage, Licence!At, LicenceInv, LicenceTypes
<1>2. m \in Devices /\ d \in Int /\ l \in Nat /\ s3[m] # None
    BY <1>1 DEF Sound, Writing
<1>3. o - d <= s7[m] + l /\ o \in {s6[m], Licence!Renewed(s6[m])}
    BY <1>1 DEF Sound, WriteSound, Owed
<1>4. /\ UNCHANGED <<s1, s2, s5>>
      /\ s3' = [s3 EXCEPT ![m] = d] /\ s7' = [s7 EXCEPT ![m] = @ + l]
      /\ s4' = Licence!Lapping(m, [s4 EXCEPT ![q] = Licence!Ended])
    BY DEF Licence!CommitRenewal, Licence!SaveEditPage
<1>5. s6' = [s6 EXCEPT ![m] = o]
    BY <1>2 DEF Licence!CommitRenewal, Licence!SaveEditPage, Licence!Renewed, LicenceInv, LicenceTypes
<1> HIDE DEF m, d, l, o
<1> QED  BY <1>2, <1>3, <1>4, <1>5, LapsMove

(* Counting the devices of a tier. *)
LEMMA SameCardinality ==
    ASSUME NEW S
    PROVE  Licence!Cardinality(S) = Cardinality(S)
    BY Zenon DEF Licence!Cardinality, Cardinality

LEMMA TierFinite ==
    ASSUME NEW S, IsFiniteSet(S), NEW t
    PROVE  /\ IsFiniteSet(Licence!OfTier(S, t)) /\ Cardinality(Licence!OfTier(S, t)) \in Nat
           /\ Licence!Cardinality(Licence!OfTier(S, t)) = Cardinality(Licence!OfTier(S, t))
<1>1. Licence!OfTier(S, t) \in SUBSET S
    BY DEF Licence!OfTier
<1>2. IsFiniteSet(Licence!OfTier(S, t))
    BY <1>1, FS_Subset
<1> QED  BY <1>2, FS_CardinalityType, SameCardinality

LEMMA BatchBound ==
    ASSUME Licence!LicencesAssumption, NEW b \in Batches, NEW D \in SUBSET Ordered(b), NEW t
    PROVE  /\ IsFiniteSet(D) /\ Licence!InBatch(b, t) \in Nat
           /\ Cardinality(Licence!OfTier(D, t)) <= Licence!InBatch(b, t)
<1> DEFINE N == {n \in DOMAIN b : Tier[b[n]] = t}
           image(S) == {b[n] : n \in S}
<1>1. DOMAIN b = 1..Len(b) /\ Len(b) \in Nat
    BY DEF Licence!LicencesAssumption
<1>2. IsFiniteSet(DOMAIN b)
    BY <1>1, FS_Interval
<1>3. IsFiniteSet(N)
    <2>1. N \in SUBSET DOMAIN b
        OBVIOUS
    <2> QED  BY <1>2, <2>1, FS_Subset
<1>4. ASSUME NEW S, IsFiniteSet(S)
      PROVE  IsFiniteSet(image(S)) /\ Cardinality(image(S)) <= Cardinality(S)
    <2> DEFINE f == [n \in S |-> b[n]]
    <2>1. f \in Surjection(S, image(S))
        BY DEF Surjection
    <2> HIDE DEF f, image
    <2> QED  BY <1>4, <2>1, FS_Surjection, FS_CardinalityType
<1>5. Licence!InBatch(b, t) = Cardinality(N)
    BY Zenon, SameCardinality DEF Licence!InBatch
<1>6. Cardinality(N) \in Nat
    BY <1>3, FS_CardinalityType
<1>7. IsFiniteSet(D)
    <2>1. D \in SUBSET image(DOMAIN b)
        BY DEF Ordered
    <2> HIDE DEF image
    <2> QED  BY <1>2, <1>4, <2>1, FS_Subset
<1>8. Licence!OfTier(D, t) \in SUBSET image(N)
    BY DEF Licence!OfTier, Ordered
<1> HIDE DEF N, image
<1>9. IsFiniteSet(image(N)) /\ Cardinality(image(N)) <= Cardinality(N)
    BY <1>3, <1>4
<1>10. Cardinality(Licence!OfTier(D, t)) <= Cardinality(image(N)) /\ Cardinality(image(N)) \in Nat
    BY <1>8, <1>9, FS_Subset, FS_CardinalityType
<1>11. Cardinality(Licence!OfTier(D, t)) \in Nat
    BY <1>7, TierFinite
<1> QED  BY <1>5, <1>6, <1>7, <1>9, <1>10, <1>11

LEMMA UsedIs ==
    ASSUME LicenceInv, NEW t \in Tiers
    PROVE  /\ Licence!Used(t) \in Nat /\ Licence!Used(t) = Cardinality(Licence!OfTier(s2, t))
           /\ s1[t] \in Nat /\ s5[t] \in Nat /\ Licence!Monus(Licence!Used(t), s1[t]) <= s5[t]
    BY TierFinite DEF LicenceInv, LicenceTypes, Licence!Used, Licence!ExcessHasCause

(* With every count out of date, each onboarding is excused. *)
LEMMA OutdatedTasks ==
    ASSUME LicenceInv, NEW q \in Dealings,
           s4' = [Licence!Outdated(s4) EXCEPT ![q] = Licence!Ended]
    PROVE  /\ s4' \in [Dealings -> Dealing]
           /\ s4'[q] \in Unasked
           /\ \A p \in Dealings \ {q} :
                 \/ s4[p] \notin Onboarding /\ s4'[p] = s4[p]
                 \/ s4[p] \in Onboarding /\ s4'[p] = [s4[p] EXCEPT !.excused = TRUE]
           /\ \A p \in Dealings \ {q} : s4'[p] \in Onboarding =>
                 s4[p] \in Onboarding /\ s4'[p].vehicles = s4[p].vehicles
<1>1. Licence!Ended \in Unasked
    BY DEF Licence!Ended, Unasked
<1>2. s4'[q] = Licence!Ended
    BY DEF Licence!Outdated
<1>3. ASSUME NEW p \in Dealings \ {q}
      PROVE  \/ s4[p] \notin Onboarding /\ s4'[p] = s4[p]
             \/ s4[p] \in Onboarding /\ s4'[p] = [s4[p] EXCEPT !.excused = TRUE]
    <2>1. s4[p] \in Dealing
        BY DEF LicenceInv, LicenceTypes
    <2>2. s4'[p] = IF s4[p].at \in Licence!Open /\ s4[p].op = "onboard"
                   THEN [s4[p] EXCEPT !.excused = TRUE] ELSE s4[p]
        BY DEF Licence!Outdated
    <2>3. s4[p] \in Onboarding => s4[p].at \in Licence!Open /\ s4[p].op = "onboard"
        BY DEF Onboarding, Licence!Open
    <2> QED  BY <2>1, <2>2, <2>3, DealingKinds
<1>4. ASSUME NEW p \in Dealings \ {q}, s4[p] \in Onboarding
      PROVE  /\ [s4[p] EXCEPT !.excused = TRUE] \in Onboarding
             /\ [s4[p] EXCEPT !.excused = TRUE].vehicles = s4[p].vehicles
    BY <1>4 DEF Onboarding
<1>5. \A p \in Dealings : s4'[p] \in Dealing
    <2> SUFFICES ASSUME NEW p \in Dealings
                 PROVE  s4'[p] \in Dealing
        OBVIOUS
    <2>1. s4[p] \in Dealing
        BY DEF LicenceInv, LicenceTypes
    <2>2. Onboarding \subseteq Dealing /\ Unasked \subseteq Dealing
        BY DEF Dealing
    <2>3. CASE p = q
        BY <1>1, <1>2, <2>2, <2>3
    <2>4. CASE p # q /\ s4[p] \notin Onboarding
        BY <1>3, <2>1, <2>4
    <2>5. CASE p # q /\ s4[p] \in Onboarding
        <3>1. s4'[p] = [s4[p] EXCEPT !.excused = TRUE]
            BY <1>3, <2>5
        <3>2. [s4[p] EXCEPT !.excused = TRUE] \in Onboarding
            BY <1>4, <2>5
        <3> QED  BY <2>2, <3>1, <3>2
    <2> QED  BY <2>3, <2>4, <2>5
<1>6. s4' \in [Dealings -> Dealing]
    BY <1>5 DEF Licence!Outdated
<1> QED  BY <1>1, <1>2, <1>3, <1>4, <1>6

(* setDeviceLimits: what is above the new limits is excused. *)
LEMMA LimitsMove ==
    ASSUME Licence!LicencesAssumption, LicenceInv, NEW q \in Dealings,
           NEW l \in [Tiers -> Limits], Licence!SetDeviceLimits(q, l)
    PROVE  LicenceInv'
<1>1. /\ s1' = l /\ s5' = Licence!Overrun(s2, l) /\ UNCHANGED <<s2, s3, s6, s7>>
      /\ s4' = [Licence!Outdated(s4) EXCEPT ![q] = Licence!Ended]
    BY DEF Licence!SetDeviceLimits
<1>2. s1' \in [Tiers -> Nat]
    BY <1>1 DEF Licence!LicencesAssumption
<1>3. \A t \in Tiers : s5'[t] = Licence!Monus(Cardinality(Licence!OfTier(s2, t)), l[t]) /\ s5'[t] \in Nat
    <2> SUFFICES ASSUME NEW t \in Tiers
                 PROVE  s5'[t] = Licence!Monus(Cardinality(Licence!OfTier(s2, t)), l[t]) /\ s5'[t] \in Nat
        OBVIOUS
    <2>1. /\ Cardinality(Licence!OfTier(s2, t)) \in Nat /\ l[t] \in Nat
          /\ Licence!Cardinality(Licence!OfTier(s2, t)) = Cardinality(Licence!OfTier(s2, t))
        BY <1>1, <1>2, TierFinite DEF LicenceInv, LicenceTypes
    <2> QED  BY <1>1, <2>1 DEF Licence!Overrun, Licence!Monus
<1>4. s5' \in [Tiers -> Nat]
    BY <1>1, <1>3 DEF Licence!Overrun
<1>5. Licence!ExcessHasCause'
    <2> SUFFICES ASSUME NEW t \in Tiers
                 PROVE  Licence!Monus(Licence!Used(t)', s1'[t]) <= s5'[t]
        BY DEF Licence!ExcessHasCause
    <2>1. Licence!Used(t)' = Cardinality(Licence!OfTier(s2, t))
        BY <1>1, UsedIs DEF Licence!Used
    <2> QED  BY <1>1, <1>3, <2>1
<1>6. ASSUME NEW p \in Dealings, NEW u, u = s4'[p]
      PROVE  Sound(u)'
    <2>1. CASE p = q
        BY <1>1, <1>6, <2>1, OutdatedTasks, KindsDiffer DEF Sound
    <2>2. CASE p # q
        <3>1. PICK r : r = s4[p]
            OBVIOUS
        <3>2. Sound(r)
            BY <3>1 DEF LicenceInv
        <3>3. CASE r \notin Onboarding /\ u = r
            BY <1>1, <3>2, <3>3 DEF Sound, WriteSound, Owed
        <3>4. CASE r \in Onboarding /\ u = [r EXCEPT !.excused = TRUE]
            <4>1. /\ u \in Onboarding /\ u.excused /\ u.at = r.at /\ u.batch = r.batch /\ u.next = r.next
                  /\ u.devices = r.devices /\ u.vehicles = r.vehicles
                BY <3>4 DEF Onboarding
            <4> QED  BY <1>1, <3>2, <3>4, <4>1, KindsDiffer DEF Sound, OnboardSound
        <3> QED  BY <1>1, <1>6, <2>2, <3>1, <3>3, <3>4, OutdatedTasks
    <2> QED  BY <2>1, <2>2
<1>7. (\A p \in Dealings : Sound(s4[p]))'
    BY <1>6, TasksSound
<1>8. (\A p, r \in Dealings : p # r => Apart(s4[p], s4[r]))'
    BY <1>1, OutdatedTasks, KindsDiffer DEF LicenceInv, Apart
<1>9. Licence!ShortfallHasCause'
    BY <1>1 DEF LicenceInv, Licence!ShortfallHasCause
<1>10. LicenceTypes'
    BY <1>1, <1>2, <1>4, OutdatedTasks DEF LicenceInv, LicenceTypes
<1> QED  BY <1>5, <1>7, <1>8, <1>9, <1>10 DEF LicenceInv

(* deleteDevice: what was above the limit shrinks with the devices.        *)
LEMMA DeviceGoes ==
    ASSUME Licence!LicencesAssumption, LicenceInv, NEW q \in Dealings,
           NEW m \in Devices, Licence!DeleteDevice(q, m)
    PROVE  LicenceInv'
<1>1. /\ s2' = s2 \ {m} /\ m \in s2 /\ s5' = [s5 EXCEPT ![Tier[m]] = Licence!Monus(@, 1)]
      /\ UNCHANGED <<s1, s3, s6, s7>> /\ s4' = [s4 EXCEPT ![q] = Licence!Ended]
    BY DEF Licence!DeleteDevice, Licence!End
<1>2. Licence!Ended \in Unasked /\ Licence!Ended \in Dealing
    BY DEF Licence!Ended, Unasked, Dealing
<1>3. IsFiniteSet(s2')
    BY <1>1, FS_RemoveElement DEF LicenceInv, LicenceTypes
<1>4. ASSUME NEW t \in Tiers
      PROVE  /\ Licence!Used(t)' \in Nat
             /\ Licence!Used(t)' = IF t = Tier[m] THEN Licence!Used(t) - 1 ELSE Licence!Used(t)
    <2>1. Licence!OfTier(s2', t) = Licence!OfTier(s2, t) \ {m}
        BY <1>1 DEF Licence!OfTier
    <2>2. m \in Licence!OfTier(s2, t) <=> t = Tier[m]
        BY <1>1 DEF Licence!OfTier
    <2>3. IsFiniteSet(Licence!OfTier(s2, t))
        BY TierFinite DEF LicenceInv, LicenceTypes
    <2>4. Cardinality(Licence!OfTier(s2', t)) =
              IF t = Tier[m] THEN Cardinality(Licence!OfTier(s2, t)) - 1 ELSE Cardinality(Licence!OfTier(s2, t))
        BY <2>1, <2>2, <2>3, FS_RemoveElement
    <2>5. Licence!Used(t)' = Cardinality(Licence!OfTier(s2', t)) /\ Cardinality(Licence!OfTier(s2', t)) \in Nat
        BY <1>3, TierFinite DEF Licence!Used
    <2> QED  BY <2>4, <2>5, UsedIs
<1>5. \A t \in Tiers : s5'[t] = (IF t = Tier[m] THEN Licence!Monus(s5[t], 1) ELSE s5[t])
    BY <1>1 DEF LicenceInv, LicenceTypes
<1>6. s5' \in [Tiers -> Nat]
    <2>1. \A t \in Tiers : Licence!Monus(s5[t], 1) \in Nat
        BY UsedIs DEF Licence!Monus
    <2> QED  BY <1>1, <2>1 DEF LicenceInv, LicenceTypes
<1>7. Licence!ExcessHasCause'
    <2> SUFFICES ASSUME NEW t \in Tiers
                 PROVE  Licence!Monus(Licence!Used(t)', s1[t]) <= s5'[t]
        BY <1>1 DEF Licence!ExcessHasCause
    <2> QED  BY <1>4, <1>5, UsedIs DEF Licence!Monus
<1>8. \A t \in Tiers : Licence!Used(t)' <= Licence!Used(t)
    BY <1>4, UsedIs
<1>9. ASSUME NEW b \in Batches, Licence!RoomFor(b)
      PROVE  Licence!RoomFor(b)'
    <2>1. \A t \in Tiers : Licence!InBatch(b, t) \in Nat
        BY BatchBound, {} \in SUBSET Ordered(b)
    <2> QED  BY <1>1, <1>4, <1>8, <1>9, <2>1, UsedIs DEF Licence!RoomFor, Licence!Monus
<1>10. \A u \in Dealing : Sound(u) => Sound(u)'
    <2> SUFFICES ASSUME NEW u \in Dealing, Sound(u)
                 PROVE  Sound(u)'
        OBVIOUS
    <2>1. u \in Onboarding => OnboardSound(u)'
        <3> SUFFICES ASSUME u \in Onboarding
                     PROVE  OnboardSound(u)'
            OBVIOUS
        <3>1. u.batch \in Batches /\ OnboardSound(u)
            BY DEF Onboarding, Sound
        <3> QED  BY <1>1, <1>9, <3>1 DEF OnboardSound
    <2> QED  BY <1>1, <2>1 DEF Sound, WriteSound, Owed
<1>11. \A p \in Dealings : s4'[p] \in Dealing /\ Sound(s4'[p])
    BY <1>1, <1>2, RestIsSound DEF LicenceInv, LicenceTypes
<1>12. (\A p \in Dealings : Sound(s4[p]))'
    BY <1>10, <1>11, TasksSound
<1>13. (\A p, r \in Dealings : p # r => Apart(s4[p], s4[r]))'
    BY <1>1, <1>2, RestIsSound DEF LicenceInv, LicenceTypes, Apart
<1>14. Licence!ShortfallHasCause'
    BY <1>1 DEF LicenceInv, Licence!ShortfallHasCause
<1>15. LicenceTypes'
    BY <1>1, <1>3, <1>6, <1>11 DEF LicenceInv, LicenceTypes
<1> QED  BY <1>7, <1>12, <1>13, <1>14, <1>15 DEF LicenceInv

(* COMMIT of an onboarding: it had room, or what it brings is excused; its *)
(* vehicles are nobody else's.                                             *)
LEMMA OnboardCommits ==
    ASSUME Licence!LicencesAssumption, LicenceInv, NEW q \in Dealings, Licence!CommitOnboard(q)
    PROVE  LicenceInv'
<1> DEFINE D == s4[q].devices
           V == s4[q].vehicles
           b == s4[q].batch
<1>1. /\ s2' = s2 \cup D /\ UNCHANGED <<s1, s7>>
      /\ s3' = [m \in Devices |-> IF m \in V THEN 1 ELSE s3[m]]
      /\ s6' = [m \in Devices |-> IF m \in V THEN 1 ELSE s6[m]]
      /\ s5' = (IF s4[q].excused THEN Licence!Overrun(s2', s1) ELSE s5)
      /\ s4' = [Licence!Outdated(s4) EXCEPT ![q] = Licence!Ended]
    BY DEF Licence!CommitOnboard
<1>2. s4[q] \in Onboarding /\ s4[q].at = "commit" /\ OnboardSound(s4[q])
    BY DealingKinds DEF Licence!CommitOnboard, Licence!At, LicenceInv, LicenceTypes, Sound
<1>3. /\ b \in Batches /\ D \in SUBSET Ordered(b) /\ V \subseteq Devices /\ D \subseteq V
      /\ \A m \in V : s3[m] = None
      /\ s4[q].excused \/ Licence!RoomFor(b)
    BY <1>2 DEF Onboarding, OnboardSound
<1> HIDE DEF D, V, b
<1>4. IsFiniteSet(D) /\ IsFiniteSet(s2')
    <2>1. IsFiniteSet(D)
        BY <1>3, BatchBound
    <2> QED  BY <1>1, <2>1, FS_Union DEF LicenceInv, LicenceTypes
<1>5. 1 # None
    BY DEF Licence!LicencesAssumption
<1>6. /\ s3' \in [Devices -> Int \cup {None}] /\ s6' \in [Devices -> Nat]
      /\ s2' \subseteq {m \in Devices : s3'[m] # None}
      /\ \A m \in Devices : s3[m] # None => s3'[m] = s3[m] /\ s6'[m] = s6[m]
    BY <1>1, <1>3, <1>5 DEF LicenceInv, LicenceTypes
<1>7. ASSUME NEW t \in Tiers
      PROVE  /\ Licence!Used(t)' \in Nat /\ Licence!Used(t)' = Cardinality(Licence!OfTier(s2', t))
             /\ Licence!Used(t)' <= Licence!Used(t) + Licence!InBatch(b, t)
             /\ Licence!InBatch(b, t) \in Nat
    <2>1. Licence!OfTier(s2', t) = Licence!OfTier(s2, t) \cup Licence!OfTier(D, t)
        BY <1>1 DEF Licence!OfTier
    <2>2. IsFiniteSet(Licence!OfTier(s2, t)) /\ IsFiniteSet(Licence!OfTier(D, t))
        BY <1>4, TierFinite DEF LicenceInv, LicenceTypes
    <2>3. Licence!OfTier(s2, t) \cap Licence!OfTier(D, t) \in SUBSET Licence!OfTier(s2, t)
        OBVIOUS
    <2>4. Cardinality(Licence!OfTier(s2, t) \cap Licence!OfTier(D, t)) \in Nat
        BY <2>2, <2>3, FS_Subset, FS_CardinalityType
    <2>5. Cardinality(Licence!OfTier(s2', t)) = Cardinality(Licence!OfTier(s2, t))
              + Cardinality(Licence!OfTier(D, t)) - Cardinality(Licence!OfTier(s2, t) \cap Licence!OfTier(D, t))
        BY <2>1, <2>2, FS_Union
    <2>6. /\ Licence!Used(t)' = Cardinality(Licence!OfTier(s2', t)) /\ Cardinality(Licence!OfTier(s2', t)) \in Nat
        BY <1>4, TierFinite DEF Licence!Used
    <2>7. /\ Cardinality(Licence!OfTier(D, t)) <= Licence!InBatch(b, t) /\ Licence!InBatch(b, t) \in Nat
          /\ Cardinality(Licence!OfTier(D, t)) \in Nat
        BY <1>3, <1>4, BatchBound, TierFinite
    <2> HIDE DEF b
    <2> QED  BY <2>4, <2>5, <2>6, <2>7, UsedIs
<1>8. \A t \in Tiers : s4[q].excused => s5'[t] = Licence!Monus(Licence!Used(t)', s1[t])
    <2> SUFFICES ASSUME NEW t \in Tiers, s4[q].excused
                 PROVE  s5'[t] = Licence!Monus(Licence!Used(t)', s1[t])
        OBVIOUS
    <2>1. Licence!Cardinality(Licence!OfTier(s2', t)) = Cardinality(Licence!OfTier(s2', t))
        BY SameCardinality
    <2>2. s5' = Licence!Overrun(s2', s1)
        BY <1>1
    <2> QED  BY <1>7, <2>1, <2>2 DEF Licence!Overrun
<1>9. s5' \in [Tiers -> Nat]
    <2>1. CASE ~s4[q].excused
        BY <1>1, <2>1 DEF LicenceInv, LicenceTypes
    <2>2. CASE s4[q].excused
        <3>1. \A t \in Tiers : s5'[t] \in Nat
            BY <1>7, <1>8, <2>2, UsedIs DEF Licence!Monus
        <3>2. s5' = Licence!Overrun(s2', s1)
            BY <1>1, <2>2
        <3> QED  BY <3>1, <3>2 DEF Licence!Overrun
    <2> QED  BY <2>1, <2>2
<1>10. Licence!ExcessHasCause'
    <2> SUFFICES ASSUME NEW t \in Tiers
                 PROVE  Licence!Monus(Licence!Used(t)', s1[t]) <= s5'[t]
        BY <1>1 DEF Licence!ExcessHasCause
    <2>1. CASE s4[q].excused
        BY <1>8, <1>9, <2>1
    <2>2. CASE ~s4[q].excused
        <3>1. Licence!InBatch(b, t) <= Licence!Monus(s1[t], Licence!Used(t)) /\ s5'[t] = s5[t]
            BY <1>1, <1>3, <2>2 DEF Licence!RoomFor
        <3> QED  BY <1>7, <3>1, UsedIs DEF Licence!Monus
    <2> QED  BY <2>1, <2>2
<1>11. Licence!ShortfallHasCause'
    <2> SUFFICES ASSUME NEW m \in Devices, s3'[m] # None
                 PROVE  s6'[m] - s3'[m] <= s7[m]
        BY <1>1 DEF Licence!ShortfallHasCause
    <2> QED  BY <1>1 DEF LicenceInv, LicenceTypes, Licence!ShortfallHasCause
<1>12. ASSUME NEW p \in Dealings, NEW u, u = s4'[p]
      PROVE  Sound(u)'
    <2>1. CASE p = q
        BY <1>1, <1>12, <2>1, OutdatedTasks, KindsDiffer DEF Sound
    <2>2. CASE p # q
        <3>1. PICK r \in Dealing : r = s4[p]
            BY DEF LicenceInv, LicenceTypes
        <3>2. Sound(r) /\ Apart(r, s4[q])
            BY <2>2, <3>1 DEF LicenceInv
        <3>3. CASE r \notin Onboarding /\ u = r
            BY <1>1, <1>6, <3>2, <3>3 DEF Sound, WriteSound, Owed, Reading, Writing
        <3>4. CASE r \in Onboarding /\ u = [r EXCEPT !.excused = TRUE]
            <4>1. /\ u \in Onboarding /\ u.excused /\ u.at = r.at /\ u.batch = r.batch /\ u.next = r.next
                  /\ u.devices = r.devices /\ u.vehicles = r.vehicles /\ r.vehicles \subseteq Devices
                BY <3>4 DEF Onboarding
            <4>2. OnboardSound(r)
                BY <3>2, <3>4 DEF Sound
            <4>3. \A m \in r.vehicles : s3'[m] = None
                BY <1>1, <1>2, <3>2, <3>4, <4>1, <4>2 DEF OnboardSound, Apart, V
            <4> QED  BY <1>1, <4>1, <4>2, <4>3, KindsDiffer DEF Sound, OnboardSound
        <3> QED  BY <1>1, <1>12, <2>2, <3>1, <3>3, <3>4, OutdatedTasks
    <2> QED  BY <2>1, <2>2
<1>13. (\A p \in Dealings : Sound(s4[p]))'
    BY <1>12, TasksSound
<1>14. (\A p, r \in Dealings : p # r => Apart(s4[p], s4[r]))'
    BY <1>1, OutdatedTasks, KindsDiffer DEF LicenceInv, Apart
<1>15. LicenceTypes'
    BY <1>1, <1>4, <1>6, <1>9, OutdatedTasks DEF LicenceInv, LicenceTypes
<1> QED  BY <1>10, <1>11, <1>13, <1>14, <1>15 DEF LicenceInv

LEMMA LicenceStarts ==
    ASSUME Licence!LicencesAssumption, Licence!Init
    PROVE  LicenceInv
<1>1. \A q \in Dealings : s4[q] \in Unasked
    BY DEF Licence!Init, Unasked
<1>2. 0 # None /\ s2 = {} /\ IsFiniteSet(s2)
    BY FS_EmptySet DEF Licence!LicencesAssumption, Licence!Init
<1>3. s1 \in [Tiers -> Nat] /\ s5 \in [Tiers -> Nat] /\ s3 \in [Devices -> Int \cup {None}]
    <2>1. s1 \in [Tiers -> Nat]
        BY DEF Licence!LicencesAssumption, Licence!Init
    <2>2. s5 \in [Tiers -> Nat]
        BY DEF Licence!Init
    <2>3. s3 \in [Devices -> Int \cup {None}]
        BY DEF Licence!Init
    <2> QED  BY <2>1, <2>2, <2>3
<1>4. s6 \in [Devices -> Nat] /\ s7 \in [Devices -> Nat]
    BY <1>2 DEF Licence!Init
<1>5. s4 \in [Dealings -> Dealing]
    BY <1>1 DEF Licence!Init, Dealing
<1>6. LicenceTypes
    BY <1>2, <1>3, <1>4, <1>5 DEF LicenceTypes
<1>7. Licence!ExcessHasCause
    <2> SUFFICES ASSUME NEW t \in Tiers
                 PROVE  Licence!Monus(Licence!Used(t), s1[t]) <= s5[t]
        BY DEF Licence!ExcessHasCause
    <2>1. Licence!OfTier(s2, t) = {}
        BY <1>2 DEF Licence!OfTier
    <2>2. Licence!Used(t) = 0
        BY <1>2, <2>1, TierFinite, FS_EmptySet DEF Licence!Used
    <2> QED  BY <1>3, <2>2 DEF Licence!Monus, Licence!Init
<1>8. Licence!ShortfallHasCause
    BY <1>2, <1>3 DEF Licence!Init, Licence!ShortfallHasCause
<1> QED  BY <1>1, <1>6, <1>7, <1>8, RestIsSound DEF LicenceInv

LEMMA LicenceMoves ==
    ASSUME Licence!LicencesAssumption, LicenceInv, Licence!Next
    PROVE  LicenceInv'
    BY OnboardMoves, ExpiryMoves, ExpiryIsWritten, LimitsMove, DeviceGoes, OnboardCommits DEF Licence!Next


-----------------------------------------------------------------------------
(* The rate limiter.  What an address has earned is what its bucket holds  *)
(* once refilled, or a full bucket where it has none.                      *)
Bucket == [key : Addresses, tokens : 0..Capacity, lastRefill : Nat]
Filled(b, t) == Limit!Least(Capacity, b.tokens + (t - b.lastRefill) * Rate)

(* The buckets of a map are sound at t when they agree with the earnings.  *)
Buckets(map, t) ==
    /\ map \in Seq(Bucket)
    /\ \A n \in DOMAIN map : map[n].lastRefill <= t
    /\ \A m, n \in DOMAIN map : map[m].key = map[n].key => m = n
Agrees(map, t, earnings) ==
    /\ \A n \in DOMAIN map : earnings[map[n].key] = Filled(map[n], t)
    /\ \A a \in Addresses : (\A n \in DOMAIN map : map[n].key # a) => earnings[a] = Capacity

LimitInv ==
    /\ s1 \in 0..LastTick
    /\ Buckets(s2, s1) /\ Len(s2) <= MaxKeys
    /\ s3.status \in {200, 429} /\ s3.short = FALSE
    /\ s4 \in [Addresses -> 0..Capacity]
    /\ Agrees(s2, s1, s4)

LEMMA RateFacts ==
    ASSUME Limit!RateAssumption
    PROVE  /\ Capacity \in Nat /\ Capacity > 0 /\ Unit \in Nat /\ Unit > 0 /\ Rate \in Nat /\ Rate > 0
           /\ MaxKeys \in Nat /\ MaxKeys > 0 /\ IdleAfter \in Nat /\ LastTick \in Nat
           /\ IdleAfter * Rate >= Capacity
BY DEF Limit!RateAssumption

(* A bucket is full after IdleAfter ticks, gains Rate in a tick, and what  *)
(* retryAfterSec rounds up is enough.                                      *)
LEMMA Refilling ==
    ASSUME Limit!RateAssumption, NEW b \in Bucket, NEW t \in Nat, b.lastRefill <= t
    PROVE  /\ Filled(b, t) \in 0..Capacity
           /\ Filled(b, t + 1) = Limit!Least(Capacity, Filled(b, t) + Rate)
           /\ t - b.lastRefill > IdleAfter => Filled(b, t) = Capacity
<1> DEFINE d == t - b.lastRefill
<1>1. d \in Nat /\ b.tokens \in 0..Capacity /\ b.lastRefill \in Nat
    BY DEF Bucket
<1>2. d * Rate \in Nat
    BY <1>1, RateFacts
<1>3. (t + 1 - b.lastRefill) * Rate = d * Rate + Rate
    BY <1>1, RateFacts
<1>4. d > IdleAfter => IdleAfter * Rate <= d * Rate
    BY <1>1, RateFacts
<1> QED  BY <1>1, <1>2, <1>3, <1>4, RateFacts DEF Filled, Limit!Least

LEMMA Refilled ==
    ASSUME Limit!RateAssumption, s1 \in Nat, NEW c \in Bucket, c.lastRefill <= s1
    PROVE  LET b == Limit!Refill(c)
           IN  b \in Bucket /\ b.key = c.key /\ b.tokens = Filled(c, s1) /\ b.lastRefill = s1
<1> DEFINE x == Filled(c, s1)
<1>1. x \in 0..Capacity
    BY Refilling
<1>2. Limit!Refill(c) = [c EXCEPT !.tokens = x, !.lastRefill = s1]
    BY DEF Limit!Refill, Filled, Bucket
<1> HIDE DEF x
<1>3. Limit!Refill(c) \in Bucket
    BY <1>1, <1>2 DEF Bucket
<1>4. Limit!Refill(c).key = c.key /\ Limit!Refill(c).tokens = x /\ Limit!Refill(c).lastRefill = s1
    BY <1>2 DEF Bucket
<1> QED  BY <1>3, <1>4 DEF x

LEMMA RetryIsLongEnough ==
    ASSUME Limit!RateAssumption, NEW b \in Bucket, b.tokens < Unit
    PROVE  b.tokens + Limit!retryAfterSec(b) * Rate >= Unit
<1> DEFINE n == Unit - b.tokens
<1>1. n \in Nat /\ b.tokens \in Nat
    BY RateFacts DEF Bucket
<1>2. \A m \in Nat : ((m + Rate - 1) \div Rate) * Rate >= m
    BY RateFacts
<1>3. ((n + Rate - 1) \div Rate) * Rate >= n
    BY <1>1, <1>2
<1>4. (n + Rate - 1) \div Rate \in Int
    BY <1>1, RateFacts
<1>5. Limit!retryAfterSec(b) = (n + Rate - 1) \div Rate
    BY DEF Limit!retryAfterSec
<1> HIDE DEF n
<1>6. Limit!retryAfterSec(b) * Rate >= n /\ Limit!retryAfterSec(b) * Rate \in Int
    BY <1>3, <1>4, <1>5, RateFacts
<1> QED  BY <1>1, <1>6, RateFacts DEF n

LEMMA LimitStarts ==
    ASSUME Limit!RateAssumption, Limit!LimitInit
    PROVE  LimitInv
BY RateFacts DEF Limit!LimitInit, LimitInv, Buckets, Agrees

(* Time passes.                                                            *)
LEMMA LimitTicks ==
    ASSUME Limit!RateAssumption, LimitInv, Limit!Tick
    PROVE  LimitInv'
<1>1. /\ s1 < LastTick /\ s1' = s1 + 1 /\ s2' = s2 /\ s3' = s3
      /\ s4' = [a \in Addresses |-> Limit!Least(Capacity, s4[a] + Rate)]
    BY DEF Limit!Tick
<1>2. s1 \in Nat /\ s1' \in 0..LastTick
    BY <1>1, RateFacts DEF LimitInv
<1>3. s4' \in [Addresses -> 0..Capacity]
    <2>1. \A a \in Addresses : Limit!Least(Capacity, s4[a] + Rate) \in 0..Capacity
        BY RateFacts DEF LimitInv, Limit!Least
    <2> QED  BY <1>1, <2>1
<1>4. ASSUME NEW n \in DOMAIN s2
      PROVE  s2[n] \in Bucket /\ s2[n].lastRefill <= s1' /\ s4'[s2[n].key] = Filled(s2[n], s1')
    <2>1. s2[n] \in Bucket /\ s2[n].lastRefill <= s1 /\ s4[s2[n].key] = Filled(s2[n], s1)
        BY DEF LimitInv, Buckets, Agrees
    <2>2. s2[n].key \in Addresses /\ s2[n].lastRefill \in Nat
        BY <2>1 DEF Bucket
    <2>3. Filled(s2[n], s1 + 1) = Limit!Least(Capacity, Filled(s2[n], s1) + Rate)
        BY <1>2, <2>1, Refilling
    <2> QED  BY <1>1, <1>2, <2>1, <2>2, <2>3
<1>5. ASSUME NEW a \in Addresses, \A n \in DOMAIN s2 : s2[n].key # a
      PROVE  s4'[a] = Capacity
    BY <1>1, <1>5, RateFacts DEF LimitInv, Agrees, Limit!Least
<1>6. Buckets(s2, s1')
    BY <1>4 DEF LimitInv, Buckets
<1>7. Agrees(s2, s1', s4')
    BY <1>4, <1>5 DEF Agrees
<1> QED  BY <1>1, <1>2, <1>3, <1>6, <1>7 DEF LimitInv, Buckets, Agrees

(* Only buckets that are full by now are pruned.                           *)
LEMMA LimitPrunes ==
    ASSUME Limit!RateAssumption, LimitInv, Limit!Prune
    PROVE  LimitInv'
<1> DEFINE kept == {n \in DOMAIN s2 : s1 - s2[n].lastRefill <= IdleAfter}
<1>1. PICK count \in 0..Len(s2) : \E place \in [1..count -> kept] :
          /\ \A m, n \in 1..count : m < n => place[m] < place[n]
          /\ \A n \in kept : \E m \in 1..count : place[m] = n
          /\ s2' = [m \in 1..count |-> s2[place[m]]]
    BY DEF Limit!Prune
<1>2. PICK place \in [1..count -> kept] :
          /\ \A m, n \in 1..count : m < n => place[m] < place[n]
          /\ \A n \in kept : \E m \in 1..count : place[m] = n
          /\ s2' = [m \in 1..count |-> s2[place[m]]]
    BY <1>1
<1>3. UNCHANGED <<s1, s3, s4>> /\ s1 \in Nat /\ s2 \in Seq(Bucket)
    BY DEF Limit!Prune, LimitInv, Buckets
<1>4. \A m \in 1..count : place[m] \in DOMAIN s2 /\ s2[place[m]] \in Bucket
    BY <1>3
<1>5. \A m, n \in 1..count : place[m] = place[n] => m = n
    <2> SUFFICES ASSUME NEW m \in 1..count, NEW n \in 1..count, place[m] = place[n]
                 PROVE  m = n
        OBVIOUS
    <2>1. place[m] \in Int /\ place[n] \in Int /\ count \in Nat
        BY <1>1, <1>3, <1>4
    <2>2. ~(m < n) /\ ~(n < m)
        BY <1>2, <2>1
    <2> QED  BY <2>1, <2>2
<1>6. ASSUME NEW n \in DOMAIN s2, n \notin kept
      PROVE  s4[s2[n].key] = Capacity
    <2>1. s2[n] \in Bucket /\ s2[n].lastRefill <= s1 /\ s4[s2[n].key] = Filled(s2[n], s1)
        BY DEF LimitInv, Buckets, Agrees
    <2>2. s1 - s2[n].lastRefill > IdleAfter
        BY <1>3, <1>6, <2>1, RateFacts DEF Bucket
    <2> QED  BY <1>3, <2>1, <2>2, Refilling
<1> HIDE DEF kept
<1>7. /\ s2' \in Seq(Bucket) /\ Len(s2') = count /\ DOMAIN s2' = 1..count
      /\ \A m \in 1..count : s2'[m] = s2[place[m]]
    <2>1. count \in Nat
        BY <1>1, <1>3
    <2>2. s2' \in [1..count -> Bucket]
        BY <1>2, <1>4
    <2> QED  BY <1>2, <2>1, <2>2
<1>8. Buckets(s2', s1)
    BY <1>4, <1>5, <1>7 DEF LimitInv, Buckets
<1>9. Agrees(s2', s1, s4)
    <2>1. \A m \in DOMAIN s2' : s4[s2'[m].key] = Filled(s2'[m], s1)
        BY <1>4, <1>7 DEF LimitInv, Agrees
    <2>2. ASSUME NEW a \in Addresses, \A m \in DOMAIN s2' : s2'[m].key # a
          PROVE  s4[a] = Capacity
        <3>1. CASE \A n \in DOMAIN s2 : s2[n].key # a
            BY <3>1 DEF LimitInv, Agrees
        <3>2. CASE \E n \in DOMAIN s2 : s2[n].key = a
            <4>1. PICK n \in DOMAIN s2 : s2[n].key = a
                BY <3>2
            <4>2. n \notin kept
                BY <1>2, <1>7, <2>2, <4>1
            <4> QED  BY <1>6, <4>1, <4>2
        <3> QED  BY <3>1, <3>2
    <2> QED  BY <2>1, <2>2 DEF Agrees
<1>10. Len(s2') <= MaxKeys
    <2>1. Len(s2) \in Nat
        BY <1>3
    <2> QED  BY <1>1, <1>7, <2>1, RateFacts DEF LimitInv
<1> QED  BY <1>3, <1>8, <1>9, <1>10 DEF LimitInv, Buckets, Agrees

(* A request takes a bucket: the map with it, and what was dropped.        *)
LEMMA BucketTaken ==
    ASSUME Limit!RateAssumption, LimitInv, NEW a \in Addresses
    PROVE  LET map == Limit!WithBucket(a)
               given == [o \in Addresses |->
                            IF Limit!Evicts(a) /\ o = s2[1].key THEN Capacity ELSE s4[o]]
           IN  /\ Buckets(map, s1) /\ Len(map) <= MaxKeys
               /\ \E n \in DOMAIN map : map[n].key = a
               /\ given \in [Addresses -> 0..Capacity]
               /\ Agrees(map, s1, given)
               /\ given[a] = s4[a]
<1> DEFINE map == Limit!WithBucket(a)
           given == [o \in Addresses |-> IF Limit!Evicts(a) /\ o = s2[1].key THEN Capacity ELSE s4[o]]
           new == [key |-> a, tokens |-> Capacity, lastRefill |-> s1]
           left == IF Limit!Evicts(a) THEN Tail(s2) ELSE s2
<1>1. s1 \in Nat /\ s2 \in Seq(Bucket) /\ Len(s2) \in Nat /\ DOMAIN s2 = 1..Len(s2)
    BY DEF LimitInv, Buckets
<1>2. CASE a \in Limit!Bucketed
    <2>1. map = s2 /\ ~Limit!Evicts(a) /\ \E n \in DOMAIN s2 : s2[n].key = a
        BY <1>2 DEF Limit!WithBucket, Limit!Evicts, Limit!Bucketed
    <2>2. given = s4
        BY <2>1 DEF LimitInv
    <2> HIDE DEF map, given
    <2> QED  BY <2>1, <2>2 DEF LimitInv, map, given
<1>3. CASE a \notin Limit!Bucketed
    <2>1. map = Append(left, new) /\ \A n \in DOMAIN s2 : s2[n].key # a
        BY <1>3 DEF Limit!WithBucket, Limit!Evicts, Limit!Bucketed
    <2>2. Limit!Evicts(a) <=> Len(s2) >= MaxKeys
        BY <1>3 DEF Limit!Evicts
    <2>3. new \in Bucket /\ new.key = a /\ new.lastRefill = s1
        BY <1>1, RateFacts DEF Bucket
    <2>4. Filled(new, s1) = Capacity
        BY <1>1, RateFacts DEF Filled, Limit!Least
    <2> HIDE DEF new
    <2> DEFINE from == IF Limit!Evicts(a) THEN 1 ELSE 0
    <2>5. /\ left \in Seq(Bucket) /\ Len(left) = Len(s2) - from
          /\ \A n \in 1..Len(left) : n + from \in DOMAIN s2 /\ left[n] = s2[n + from]
          /\ from \in {0, 1} /\ Len(left) \in Nat
        BY <1>1, <2>2, RateFacts
    <2>6. Len(left) < MaxKeys
        BY <1>1, <2>2, <2>5, RateFacts DEF LimitInv
    <2>7. from = 1 => 1 \in DOMAIN s2
        BY <1>1, <2>2, RateFacts
    <2>8. from = 1 <=> Limit!Evicts(a)
        OBVIOUS
    <2> HIDE DEF left, from
    <2>9. /\ map \in Seq(Bucket) /\ Len(map) = Len(left) + 1 /\ DOMAIN map = 1..(Len(left) + 1)
          /\ map[Len(left) + 1] = new /\ \A n \in 1..Len(left) : map[n] = left[n]
        BY <2>1, <2>3, <2>5
    <2> HIDE DEF map
    <2>10. \A n \in 1..Len(left) : map[n] = s2[n + from] /\ n + from \in DOMAIN s2
        BY <2>5, <2>9
    <2>11. \A n \in DOMAIN map : n \in 1..Len(left) \/ n = Len(left) + 1
        BY <2>5, <2>9
    <2>12. \A n \in 1..Len(left) : map[n].key # a /\ map[n].lastRefill <= s1
        BY <2>1, <2>10 DEF LimitInv, Buckets
    <2>13. \A n \in DOMAIN map : map[n].lastRefill <= s1
        BY <1>1, <2>3, <2>9, <2>11, <2>12
    <2>14. \A m, n \in DOMAIN map : map[m].key = map[n].key => m = n
        <3> SUFFICES ASSUME NEW m \in DOMAIN map, NEW n \in DOMAIN map, map[m].key = map[n].key
                     PROVE  m = n
            OBVIOUS
        <3>1. CASE m \in 1..Len(left) /\ n \in 1..Len(left)
            <4>1. m + from = n + from
                BY <2>10, <3>1 DEF LimitInv, Buckets
            <4> QED  BY <2>5, <3>1, <4>1
        <3>2. CASE ~(m \in 1..Len(left) /\ n \in 1..Len(left))
            BY <2>3, <2>9, <2>11, <2>12, <3>2
        <3> QED  BY <3>1, <3>2
    <2>15. given \in [Addresses -> 0..Capacity] /\ \A o \in Addresses :
               given[o] = IF Limit!Evicts(a) /\ o = s2[1].key THEN Capacity ELSE s4[o]
        BY RateFacts DEF LimitInv
    <2> HIDE DEF given
    <2>16. given[a] = s4[a] /\ s4[a] = Capacity
        <3>1. s4[a] = Capacity
            BY <2>1 DEF LimitInv, Agrees
        <3> QED  BY <2>15, <3>1
    <2>17. \A n \in DOMAIN map : given[map[n].key] = Filled(map[n], s1)
        <3> SUFFICES ASSUME NEW n \in DOMAIN map
                     PROVE  given[map[n].key] = Filled(map[n], s1)
            OBVIOUS
        <3>1. CASE n = Len(left) + 1
            BY <2>3, <2>4, <2>9, <2>16, <3>1
        <3>2. CASE n \in 1..Len(left)
            <4>1. map[n] = s2[n + from] /\ n + from \in DOMAIN s2 /\ map[n].key \in Addresses
                <5>1. map[n] = s2[n + from] /\ n + from \in DOMAIN s2
                    BY <2>10, <3>2
                <5>2. s2[n + from] \in Bucket
                    BY <1>1, <5>1
                <5> QED  BY <5>1, <5>2 DEF Bucket
            <4>2. s4[map[n].key] = Filled(map[n], s1)
                BY <4>1 DEF LimitInv, Agrees
            <4>3. Limit!Evicts(a) => s2[1].key # map[n].key
                <5> SUFFICES ASSUME Limit!Evicts(a), s2[1].key = map[n].key
                             PROVE  FALSE
                    OBVIOUS
                <5>1. from = 1 /\ 1 \in DOMAIN s2
                    BY <2>7, <2>8
                <5>2. n + from = 1
                    BY <4>1, <5>1 DEF LimitInv, Buckets
                <5> QED  BY <2>5, <3>2, <5>1, <5>2
            <4> QED  BY <2>15, <4>1, <4>2, <4>3
        <3> QED  BY <2>11, <3>1, <3>2
    <2>18. ASSUME NEW o \in Addresses, \A n \in DOMAIN map : map[n].key # o
           PROVE  given[o] = Capacity
        <3>1. CASE Limit!Evicts(a) /\ o = s2[1].key
            BY <2>15, <3>1
        <3>2. CASE ~(Limit!Evicts(a) /\ o = s2[1].key)
            <4>1. ASSUME NEW n \in DOMAIN s2 PROVE s2[n].key # o
                <5>1. CASE n - from \in 1..Len(left)
                    <6>1. map[n - from] = s2[n] /\ n - from \in DOMAIN map
                        BY <1>1, <2>5, <2>9, <2>10, <5>1
                    <6> QED  BY <2>18, <6>1
                <5>2. CASE n - from \notin 1..Len(left)
                    <6>1. from = 1 /\ n = 1
                        BY <1>1, <2>5, <5>2
                    <6> QED  BY <2>8, <3>2, <6>1
                <5> QED  BY <5>1, <5>2
            <4>2. s4[o] = Capacity
                BY <4>1 DEF LimitInv, Agrees
            <4> QED  BY <2>15, <3>2, <4>2
        <3> QED  BY <3>1, <3>2
    <2>19. Buckets(map, s1) /\ Len(map) <= MaxKeys /\ \E n \in DOMAIN map : map[n].key = a
        <3>1. Len(left) + 1 \in DOMAIN map /\ map[Len(left) + 1].key = a /\ Len(map) <= MaxKeys
            BY <2>3, <2>5, <2>6, <2>9, RateFacts
        <3> QED  BY <2>9, <2>13, <2>14, <3>1 DEF Buckets
    <2>20. Agrees(map, s1, given)
        BY <2>17, <2>18 DEF Agrees
    <2> QED  BY <2>15, <2>16, <2>19, <2>20 DEF map, given
<1> QED  BY <1>2, <1>3

(* A read takes a token of its bucket, or is told when to come again.      *)
LEMMA LimitReads ==
    ASSUME Limit!RateAssumption, LimitInv, NEW a \in Addresses, Limit!Read(a)
    PROVE  LimitInv'
<1> DEFINE map == Limit!WithBucket(a)
           n == CHOOSE i \in DOMAIN map : map[i].key = a
           b == Limit!Refill(map[n])
           granted == b.tokens >= Unit
           taken == IF granted THEN [b EXCEPT !.tokens = @ - Unit] ELSE b
           given == [o \in Addresses |-> IF Limit!Evicts(a) /\ o = s2[1].key THEN Capacity ELSE s4[o]]
<1>1. /\ s1' = s1 /\ s2' = [map EXCEPT ![n] = taken]
      /\ s3' = IF granted THEN [status |-> 200, short |-> FALSE]
               ELSE [status |-> 429, short |-> b.tokens + Limit!retryAfterSec(b) * Rate < Unit]
      /\ s4' = [o \in Addresses |-> IF o = a /\ granted THEN s4[a] - Unit
                                    ELSE IF Limit!Evicts(a) /\ o = s2[1].key THEN Capacity ELSE s4[o]]
    BY DEF Limit!Read
<1>2. /\ Buckets(map, s1) /\ Len(map) <= MaxKeys /\ \E i \in DOMAIN map : map[i].key = a
      /\ given \in [Addresses -> 0..Capacity] /\ Agrees(map, s1, given) /\ given[a] = s4[a]
    BY BucketTaken
<1>3. s4' = [o \in Addresses |-> IF o = a /\ granted THEN s4[a] - Unit ELSE given[o]]
    BY <1>1
<1> HIDE DEF map, given
<1>4. n \in DOMAIN map /\ map[n].key = a
    BY <1>2
<1> HIDE DEF n
<1>5. s1 \in Nat /\ s1 \in 0..LastTick /\ map[n] \in Bucket /\ map[n].lastRefill <= s1 /\ map \in Seq(Bucket)
    BY <1>2, <1>4 DEF LimitInv, Buckets
<1>6. Limit!Refill(map[n]) = b
    OBVIOUS
<1> HIDE DEF b
<1>7. b \in Bucket /\ b.key = a /\ b.tokens = s4[a] /\ b.lastRefill = s1
    <2>1. s4[a] = Filled(map[n], s1)
        BY <1>2, <1>4 DEF Agrees
    <2>2. /\ b \in Bucket /\ b.key = map[n].key /\ b.tokens = Filled(map[n], s1) /\ b.lastRefill = s1
        BY <1>5, <1>6, Refilled
    <2> QED  BY <1>4, <2>1, <2>2
<1>8. /\ taken \in Bucket /\ taken.key = a /\ taken.lastRefill = s1
      /\ taken.tokens = IF granted THEN s4[a] - Unit ELSE s4[a]
    BY <1>7, RateFacts DEF Bucket
<1>9. s3'.status \in {200, 429} /\ s3'.short = FALSE
    <2>1. CASE granted
        BY <1>1, <2>1
    <2>2. CASE ~granted
        <3>1. b.tokens < Unit /\ b.tokens \in Nat
            BY <1>7, <2>2, RateFacts DEF Bucket
        <3>2. b.tokens + Limit!retryAfterSec(b) * Rate >= Unit
            BY <1>7, <3>1, RetryIsLongEnough
        <3>3. Limit!retryAfterSec(b) * Rate \in Int
            BY <3>1, RateFacts DEF Limit!retryAfterSec
        <3>4. ~(b.tokens + Limit!retryAfterSec(b) * Rate < Unit)
            BY <3>1, <3>2, <3>3, RateFacts
        <3>5. s3' = [status |-> 429, short |-> b.tokens + Limit!retryAfterSec(b) * Rate < Unit]
            BY <1>1, <2>2
        <3>6. s3'.status = 429 /\ s3'.short = (b.tokens + Limit!retryAfterSec(b) * Rate < Unit)
            BY Zenon, <3>5
        <3>7. (b.tokens + Limit!retryAfterSec(b) * Rate < Unit) = FALSE
            BY <3>4
        <3>8. s3'.short = FALSE
            BY Zenon, <3>6, <3>7
        <3> QED  BY <3>6, <3>8
    <2> QED  BY <2>1, <2>2
<1>10. Filled(taken, s1) = taken.tokens
    <2>1. taken.tokens \in 0..Capacity
        BY <1>8 DEF Bucket
    <2>2. taken.tokens + (s1 - taken.lastRefill) * Rate = taken.tokens
        BY <1>5, <1>8, <2>1, RateFacts
    <2> QED  BY <2>1, <2>2, RateFacts DEF Filled, Limit!Least
<1>11. s4' \in [Addresses -> 0..Capacity] /\ s4'[a] = taken.tokens /\ \A o \in Addresses \ {a} : s4'[o] = given[o]
    <2>1. taken.tokens \in 0..Capacity
        BY <1>8 DEF Bucket
    <2> QED  BY <1>2, <1>3, <1>8, <2>1
<1> HIDE DEF taken
<1>12. /\ s2' \in Seq(Bucket) /\ Len(s2') = Len(map) /\ DOMAIN s2' = DOMAIN map
       /\ s2'[n] = taken /\ \A m \in DOMAIN map \ {n} : s2'[m] = map[m]
    BY <1>1, <1>4, <1>5, <1>8
<1>13. \A m \in DOMAIN map : s2'[m].key = map[m].key /\ s2'[m].lastRefill <= s1
    BY <1>2, <1>4, <1>5, <1>8, <1>12 DEF Buckets
<1>14. Buckets(s2', s1)
    BY <1>2, <1>12, <1>13 DEF Buckets
<1>15. \A m \in DOMAIN s2' : s4'[s2'[m].key] = Filled(s2'[m], s1)
    <2> SUFFICES ASSUME NEW m \in DOMAIN map
                 PROVE  s4'[s2'[m].key] = Filled(s2'[m], s1)
        BY <1>12
    <2>1. CASE m = n
        BY <1>8, <1>10, <1>11, <1>12, <2>1
    <2>2. CASE m # n
        <3>1. map[m].key # a /\ s2'[m] = map[m] /\ map[m].key \in Addresses
            <4>1. map[m].key # a /\ s2'[m] = map[m]
                BY <1>2, <1>4, <1>12, <2>2 DEF Buckets
            <4>2. map[m] \in Bucket
                BY <1>5
            <4> QED  BY <4>1, <4>2 DEF Bucket
        <3> QED  BY <1>2, <1>11, <3>1 DEF Agrees
    <2> QED  BY <2>1, <2>2
<1>16. ASSUME NEW o \in Addresses, \A m \in DOMAIN s2' : s2'[m].key # o
       PROVE  s4'[o] = Capacity
    <2>1. o # a /\ \A m \in DOMAIN map : map[m].key # o
        BY <1>4, <1>12, <1>13, <1>16
    <2> QED  BY <1>2, <1>11, <2>1 DEF Agrees
<1>17. Agrees(s2', s1, s4')
    BY <1>15, <1>16 DEF Agrees
<1> QED  BY <1>1, <1>2, <1>5, <1>9, <1>11, <1>12, <1>14, <1>17 DEF LimitInv, Buckets, Agrees

LEMMA LimitMoves ==
    ASSUME Limit!RateAssumption, LimitInv, Limit!LimitNext
    PROVE  LimitInv'
<1>1. CASE Limit!Write
    BY <1>1 DEF Limit!Write, LimitInv, Buckets, Agrees
<1> QED  BY <1>1, LimitReads, LimitPrunes, LimitTicks DEF Limit!LimitNext

LEMMA LimitAsPromised ==
    ASSUME Limit!RateAssumption, LimitInv
    PROVE  Limit!LimitIsKept /\ Limit!LimitTypeOK
<1>1. Limit!LimitTypeOK
    <2>1. \A n \in DOMAIN s2 : s2[n] \in Bucket
        BY DEF LimitInv, Buckets
    <2>2. \A n \in DOMAIN s2 : s2[n].tokens \in 0..Capacity
        BY <2>1 DEF Bucket
    <2> QED  BY <2>2 DEF LimitInv, Buckets, Limit!LimitTypeOK
<1>2. ASSUME NEW a \in Addresses
      PROVE  s4[a] = IF a \in Limit!Bucketed THEN Limit!Refill(s2[Limit!Position(a)]).tokens ELSE Capacity
    <2>1. CASE a \in Limit!Bucketed
        <3>1. Limit!Position(a) \in DOMAIN s2 /\ s2[Limit!Position(a)].key = a
            BY <2>1 DEF Limit!Bucketed, Limit!Position
        <3>2. s2[Limit!Position(a)] \in Bucket
            BY <3>1 DEF LimitInv, Buckets
        <3>3. Limit!Refill(s2[Limit!Position(a)]).tokens = Filled(s2[Limit!Position(a)], s1)
            BY <3>2 DEF Limit!Refill, Filled, Bucket
        <3> QED  BY <2>1, <3>1, <3>3 DEF LimitInv, Agrees
    <2>2. CASE a \notin Limit!Bucketed
        BY <2>2 DEF LimitInv, Agrees, Limit!Bucketed
    <2> QED  BY <2>1, <2>2
<1> QED  BY <1>1, <1>2 DEF LimitInv, Limit!LimitIsKept

-----------------------------------------------------------------------------
(* Organisations, users and groups.  A request is to come, in progress, or *)
(* answered; Told says what its record and the log have to do with each    *)
(* other.                                                                  *)
Accounts == Ones \cup Twos \cup GroupIds
Ops == {"create", "update", "delete"}
ToCome == [at : {"new"}, answer : {None}, list : {None}, changed : {{}}]
Lists == (SUBSET GroupIds) \cup (SUBSET Vehicles) \cup {None}
Serving ==
    [at : {"write", "filter", "assign"}, op : Ops, kind : {"org", "user", "group"},
     id : Accounts \cup {None}, org : Ones \cup {None}, type : Tenants!Types \cup {None},
     email : Emails \cup {None}, columns : BOOLEAN, list : Lists, filters : BOOLEAN,
     answer : {None}, changed : SUBSET {"row", "list"}, lost : {FALSE}]
Served ==
    [at : {"audit", "end"}, op : Ops, list : {None, {}}, answer : {None, "ok", "error"},
     changed : SUBSET {"row", "list"}, lost : BOOLEAN]

(* A request names a row of its kind, unless it is to create one, and a    *)
(* list of what can be assigned to it; a body that creates names all.      *)
Fitting(r) ==
    /\ r.kind = "org" => r.list = None
    /\ r.kind = "user" => r.list \in (SUBSET GroupIds) \cup {None}
    /\ r.kind = "group" => r.list \in (SUBSET Vehicles) \cup {None}
    /\ r.op # "create" \/ r.at # "write" => r.id \in Tenants!Ids(r.kind)
    /\ r.op = "create" /\ r.at = "write" =>
          /\ r.kind = "org" => r.type \in Tenants!Types
          /\ r.kind # "org" => r.org \in Ones
          /\ r.kind = "user" => r.email \in Emails
    /\ r.filters => r.kind = "user"

Told(q, r, log) ==
    /\ r.at \in {"write", "filter", "assign"} => Fitting(r)
    /\ r.at = "write" => r.changed = {}
    /\ r.at \in {"filter", "assign"} =>
          /\ r.list # None /\ "list" \notin r.changed
          /\ r.op # "update" => "row" \in r.changed
    /\ r.at = "filter" => r.kind = "user"
    /\ r.at = "audit" =>
          /\ r.answer = "ok" /\ "row" \in r.changed
          /\ r.list # None => "list" \in r.changed
    /\ r.at = "end" =>
          /\ r.answer = "ok" => /\ r.list # None => "list" \in r.changed
                                /\ r.op # "update" => "row" \in r.changed
          /\ r.answer = "error" => /\ "list" \notin r.changed
                                   /\ "row" \in r.changed => r.list # None
          /\ r.answer = "ok" /\ "row" \in r.changed /\ ~r.lost => <<q, Tenants!Action(r.op)>> \in log
    /\ \A a \in {"CREATED", "UPDATED", "DELETED"} : <<q, a>> \in log =>
          r.at = "end" /\ r.answer = "ok" /\ "row" \in r.changed /\ a = Tenants!Action(r.op)

Answered(map, log) ==
    /\ map \in [Askers -> ToCome \cup Serving \cup Served]
    /\ log \in SUBSET (Askers \X {"CREATED", "UPDATED", "DELETED"})
    /\ \A q \in Askers : Told(q, map[q], log)

TableTypes ==
    /\ s1 \in [Ones -> Tenants!OrgRows \cup {Absent}]
    /\ s2 \in [Twos -> Tenants!UserRows \cup {Absent}]
    /\ s3 \in [GroupIds -> Ones \cup {Absent}]
    /\ s4 \in SUBSET (Twos \X GroupIds) /\ s5 \in SUBSET (GroupIds \X Vehicles)
    /\ \A u \in Twos, g \in GroupIds : <<u, g>> \in s4 => s2[u] # Absent /\ s3[g] # Absent
    /\ \A g \in GroupIds, v \in Vehicles : <<g, v>> \in s5 => s3[g] # Absent

TenancyInv == TableTypes /\ Answered(s6, s7)

LEMMA TenancyFacts ==
    ASSUME Tenants!TenancyAssumption
    PROVE  /\ None \notin Ones /\ None \notin SUBSET GroupIds /\ None \notin SUBSET Vehicles /\ None # {}
           /\ None # "ok" /\ None # "error" /\ None \notin Tenants!Types
           /\ Absent \notin Ones /\ Absent \notin Tenants!OrgRows /\ Absent \notin Tenants!UserRows
           /\ Ones \cap Twos = {} /\ Ones \cap GroupIds = {} /\ Twos \cap GroupIds = {}
<1>1. {} \in SUBSET GroupIds
    OBVIOUS
<1> QED  BY <1>1 DEF Tenants!TenancyAssumption

(* One request goes on, and the log is the same.                           *)
LEMMA GoesOn ==
    ASSUME Answered(s6, s7), NEW q \in Askers, NEW r \in ToCome \cup Serving \cup Served,
           Told(q, r, s7), s6' = [s6 EXCEPT ![q] = r], s7' = s7
    PROVE  Answered(s6, s7)'
<1>1. s6' \in [Askers -> ToCome \cup Serving \cup Served]
    BY DEF Answered
<1>2. \A p \in Askers : s6'[p] = IF p = q THEN r ELSE s6[p]
    BY DEF Answered
<1>3. \A p \in Askers : Told(p, s6'[p], s7)
    BY <1>2 DEF Answered
<1> QED  BY <1>1, <1>3 DEF Answered

(* What is kept of a request that is answered.                             *)
LEMMA RestIs ==
    ASSUME NEW r, NEW place, NEW answer, NEW lost
    PROVE  LET o == Tenants!Rest(r, place, answer, lost)
           IN  /\ o.at = place /\ o.op = r.op /\ o.list = (IF r.list = None THEN None ELSE {})
               /\ o.answer = answer /\ o.changed = r.changed /\ o.lost = lost
               /\ /\ r.op \in Ops /\ r.changed \in SUBSET {"row", "list"}
                  /\ place \in {"audit", "end"} /\ answer \in {None, "ok", "error"} /\ lost \in BOOLEAN
                  => o \in Served
<1> DEFINE l == IF r.list = None THEN None ELSE {}
<1>1. l \in {None, {}}
    OBVIOUS
<1>2. Tenants!Rest(r, place, answer, lost) =
          [at |-> place, op |-> r.op, list |-> l, answer |-> answer, changed |-> r.changed, lost |-> lost]
    BY DEF Tenants!Rest
<1> HIDE DEF l
<1> QED  BY <1>1, <1>2 DEF Served, l

LEMMA OverIs ==
    ASSUME NEW r \in Serving \cup Served, NEW answer \in {None, "ok", "error"}, NEW lost \in BOOLEAN
    PROVE  LET o == Tenants!Over(r, answer, lost)
           IN  /\ o \in Served
               /\ o.at = "end" /\ o.op = r.op /\ o.list = (IF r.list = None THEN None ELSE {})
               /\ o.answer = answer /\ o.changed = r.changed /\ o.lost = lost
<1>1. r.op \in Ops /\ r.changed \in SUBSET {"row", "list"}
    BY DEF Serving, Served
<1> QED  BY <1>1, RestIs DEF Tenants!Over

(* A request that is at a place is in progress, and tells of its work.     *)
LEMMA InProgress ==
    ASSUME Answered(s6, s7), NEW q \in Askers,
           s6[q].at \in {"write", "filter", "assign"}
    PROVE  /\ s6[q] \in Serving /\ Told(q, s6[q], s7) /\ Fitting(s6[q])
           /\ \A a \in {"CREATED", "UPDATED", "DELETED"} : <<q, a>> \notin s7
<1>1. s6[q] \in ToCome \cup Serving \cup Served /\ Told(q, s6[q], s7)
    BY DEF Answered
<1>2. s6[q] \in Serving
    BY <1>1 DEF ToCome, Served
<1> QED  BY <1>1, <1>2 DEF Told

(* It ends with an error, changing nothing; or with a row but no list.     *)
LEMMA EndsInError ==
    ASSUME Tenants!TenancyAssumption, Answered(s6, s7), NEW q \in Askers,
           s6[q].at \in {"write", "filter", "assign"}, Tenants!Leave(q, "error"), s7' = s7
    PROVE  Answered(s6, s7)'
<1>1. /\ s6[q] \in Serving /\ Told(q, s6[q], s7)
      /\ \A a \in {"CREATED", "UPDATED", "DELETED"} : <<q, a>> \notin s7
    BY InProgress
<1> DEFINE o == Tenants!Over(s6[q], "error", FALSE)
<1>2. /\ o \in Served /\ o.at = "end" /\ o.op = s6[q].op /\ o.list = (IF s6[q].list = None THEN None ELSE {})
      /\ o.answer = "error" /\ o.changed = s6[q].changed
    BY <1>1, OverIs
<1>3. s6' = [s6 EXCEPT ![q] = o]
    BY DEF Tenants!Leave
<1> HIDE DEF o
<1>4. "list" \notin o.changed /\ ("row" \in o.changed => o.list # None)
    BY <1>1, <1>2, TenancyFacts DEF Told
<1>5. Told(q, o, s7)
    <2>1. "error" # "ok"
        OBVIOUS
    <2> QED  BY <1>1, <1>2, <1>4, <2>1 DEF Told
<1> QED  BY <1>2, <1>3, <1>5, GoesOn

-----------------------------------------------------------------------------
(* A request arrives: it is well formed, or over at once.                  *)
Opening(r) == r \in Serving /\ r.at = "write" /\ r.changed = {} /\ Fitting(r)
Arrived(q, r) ==
    /\ s6[q].at = "new" /\ UNCHANGED <<s1, s2, s3, s4, s5, s7>>
    /\ s6' = [s6 EXCEPT ![q] = r] \/ s6' = [s6 EXCEPT ![q] = Tenants!Over(r, "error", FALSE)]

LEMMA ArrivalKept ==
    ASSUME Tenants!TenancyAssumption, TenancyInv, NEW q \in Askers, NEW r, Opening(r), Arrived(q, r)
    PROVE  TenancyInv'
<1>1. TableTypes'
    BY DEF Arrived, TenancyInv, TableTypes
<1>2. Answered(s6, s7) /\ s7' = s7 /\ \A a \in {"CREATED", "UPDATED", "DELETED"} : <<q, a>> \notin s7
    BY DEF Arrived, TenancyInv, Answered, Told
<1>3. Told(q, r, s7)
    BY <1>2 DEF Opening, Told
<1> DEFINE o == Tenants!Over(r, "error", FALSE)
<1>4. o \in Served /\ o.at = "end" /\ o.answer = "error" /\ o.changed = {}
    BY OverIs DEF Opening
<1>5. s6' = [s6 EXCEPT ![q] = r] \/ s6' = [s6 EXCEPT ![q] = o]
    BY DEF Arrived
<1> HIDE DEF o
<1>6. Told(q, o, s7)
    <2>1. "error" # "ok"
        OBVIOUS
    <2> QED  BY <1>2, <1>4, <2>1 DEF Told
<1>7. Answered(s6, s7)'
    BY <1>2, <1>3, <1>4, <1>5, <1>6, GoesOn DEF Opening
<1> QED  BY <1>1, <1>7 DEF TenancyInv

(* The requests that the handlers begin with.                              *)
LEMMA RequestIs ==
    ASSUME NEW op \in Ops, NEW kind \in {"org", "user", "group"}, NEW actor,
           NEW id \in Tenants!Ids(kind) \cup {None}, NEW b \in Tenants!AllBodies,
           NEW list \in Tenants!Choices(kind),
           op = "create" => b \in Tenants!Creating(kind),
           op # "create" => id \in Tenants!Ids(kind)
    PROVE  Opening(Tenants!Request(op, kind, id, actor, b, list))
<1> DEFINE r == Tenants!Request(op, kind, id, actor, b, list)
           f == kind = "user" /\ list \notin {None, {}} /\ actor # "superadmin"
<1>1. id \in Accounts \cup {None} /\ list \in Lists
    BY DEF Tenants!Ids, Accounts, Tenants!Choices, Lists
<1>2. /\ b.org \in Ones \cup {None} /\ b.type \in Tenants!Types \cup {None}
      /\ b.email \in Emails \cup {None} /\ b.columns \in BOOLEAN
    BY DEF Tenants!AllBodies
<1>3. r = [at |-> "write", op |-> op, kind |-> kind, id |-> id, org |-> b.org, type |-> b.type,
           email |-> b.email, columns |-> b.columns, list |-> list, filters |-> f,
           answer |-> None, changed |-> {}, lost |-> FALSE]
    BY DEF Tenants!Request
<1>4. f \in BOOLEAN /\ (f => kind = "user")
    OBVIOUS
<1> HIDE DEF f, r
<1>5. r \in Serving
    BY <1>1, <1>2, <1>3, <1>4 DEF Serving
<1>6. /\ r.at = "write" /\ r.op = op /\ r.kind = kind /\ r.id = id /\ r.org = b.org /\ r.email = b.email
      /\ r.type = b.type /\ r.list = list /\ r.filters = f /\ r.changed = {}
    BY <1>3
<1>7. op = "create" => /\ kind = "org" => b.type \in Tenants!Types
                       /\ kind # "org" => b.org \in Ones
                       /\ kind = "user" => b.email \in Emails
    BY <1>2 DEF Tenants!Creating
<1>8. /\ kind = "org" => list = None
      /\ kind = "user" => list \in (SUBSET GroupIds) \cup {None}
      /\ kind = "group" => list \in (SUBSET Vehicles) \cup {None}
    BY DEF Tenants!Choices
<1>9. Fitting(r)
    BY <1>4, <1>6, <1>7, <1>8 DEF Fitting
<1> QED  BY <1>5, <1>6, <1>9 DEF Opening, r

(* The first step of each handler.                                         *)
LEMMA Receives ==
    ASSUME NEW q, NEW r, NEW permitted, s6[q].at = "new", Tenants!Receive(q, r, permitted)
    PROVE  Arrived(q, r)
BY DEF Tenants!Receive, Tenants!tables, Arrived

LEMMA CreationsReceive ==
    ASSUME Tenants!TenancyAssumption, TenancyInv, NEW q \in Askers, s6[q].at = "new",
           \/ Tenants!ReceiveCreate(q, "org", Tenants!ForCustomer)
           \/ Tenants!ReceiveCreate(q, "user", Tenants!InOwnTree)
           \/ Tenants!ReceiveCreate(q, "group", Tenants!Anyone)
    PROVE  TenancyInv'
<1>1. PICK kind, actor, b, list :
          /\ kind \in {"org", "user", "group"} /\ b \in Tenants!Creating(kind)
          /\ list \in Tenants!Choices(kind)
          /\ Arrived(q, Tenants!Request("create", kind, None, actor, b, list))
    <2>1. CASE Tenants!ReceiveCreate(q, "org", Tenants!ForCustomer)
        BY <2>1, Receives DEF Tenants!ReceiveCreate, Tenants!Ask
    <2>2. CASE Tenants!ReceiveCreate(q, "user", Tenants!InOwnTree)
        BY <2>2, Receives DEF Tenants!ReceiveCreate, Tenants!Ask
    <2>3. CASE Tenants!ReceiveCreate(q, "group", Tenants!Anyone)
        BY <2>3, Receives DEF Tenants!ReceiveCreate, Tenants!Ask
    <2> QED  BY <2>1, <2>2, <2>3
<1>2. b \in Tenants!AllBodies
    BY <1>1 DEF Tenants!Creating
<1>3. Opening(Tenants!Request("create", kind, None, actor, b, list))
    BY <1>1, <1>2, RequestIs DEF Ops
<1> QED  BY <1>1, <1>3, ArrivalKept

LEMMA UpdatesReceive ==
    ASSUME Tenants!TenancyAssumption, TenancyInv, NEW q \in Askers, s6[q].at = "new",
           \/ Tenants!ReceiveUpdate(q, "org", Tenants!OfOwnTree)
           \/ Tenants!ReceiveUpdate(q, "user", Tenants!NotAnotherDealer)
           \/ Tenants!ReceiveUpdate(q, "group", Tenants!OfOwnTree)
    PROVE  TenancyInv'
<1>1. PICK kind, actor, id, b, list :
          /\ kind \in {"org", "user", "group"} /\ id \in Tenants!Ids(kind) /\ b \in Bodies
          /\ list \in Tenants!Choices(kind)
          /\ Arrived(q, Tenants!Request("update", kind, id, actor, b, list))
    <2>1. CASE Tenants!ReceiveUpdate(q, "org", Tenants!OfOwnTree)
        BY <2>1, Receives DEF Tenants!ReceiveUpdate, Tenants!Ask, Tenants!Changing
    <2>2. CASE Tenants!ReceiveUpdate(q, "user", Tenants!NotAnotherDealer)
        BY <2>2, Receives DEF Tenants!ReceiveUpdate, Tenants!Ask, Tenants!Changing
    <2>3. CASE Tenants!ReceiveUpdate(q, "group", Tenants!OfOwnTree)
        BY <2>3, Receives DEF Tenants!ReceiveUpdate, Tenants!Ask, Tenants!Changing
    <2> QED  BY <2>1, <2>2, <2>3
<1>2. b \in Tenants!AllBodies
    BY <1>1 DEF Tenants!TenancyAssumption
<1>3. Opening(Tenants!Request("update", kind, id, actor, b, list))
    BY <1>1, <1>2, RequestIs DEF Ops
<1> QED  BY <1>1, <1>3, ArrivalKept

LEMMA DeletionsReceive ==
    ASSUME Tenants!TenancyAssumption, TenancyInv, NEW q \in Askers, s6[q].at = "new",
           \/ Tenants!ReceiveDelete(q, "org", Tenants!Child)
           \/ Tenants!ReceiveDelete(q, "user", Tenants!OfOwn)
           \/ Tenants!ReceiveDelete(q, "group", Tenants!OfOwnTree)
    PROVE  TenancyInv'
<1>1. PICK kind, actor, id :
          /\ kind \in {"org", "user", "group"} /\ id \in Tenants!Ids(kind)
          /\ Arrived(q, Tenants!Request("delete", kind, id, actor, Tenants!NoBody, None))
    <2>1. CASE Tenants!ReceiveDelete(q, "org", Tenants!Child)
        BY <2>1, Receives DEF Tenants!ReceiveDelete, Tenants!Ask
    <2>2. CASE Tenants!ReceiveDelete(q, "user", Tenants!OfOwn)
        BY <2>2, Receives DEF Tenants!ReceiveDelete, Tenants!Ask
    <2>3. CASE Tenants!ReceiveDelete(q, "group", Tenants!OfOwnTree)
        BY <2>3, Receives DEF Tenants!ReceiveDelete, Tenants!Ask
    <2> QED  BY <2>1, <2>2, <2>3
<1>2. None \in Tenants!Choices(kind) /\ Tenants!NoBody \in Tenants!AllBodies
    BY DEF Tenants!Choices, Tenants!NoBody, Tenants!AllBodies
<1>3. Opening(Tenants!Request("delete", kind, id, actor, Tenants!NoBody, None))
    BY <1>1, <1>2, RequestIs DEF Ops
<1> QED  BY <1>1, <1>3, ArrivalKept

-----------------------------------------------------------------------------
(* The row is written, and the request goes on to its list or its entry.   *)
LEMMA WroteRow ==
    ASSUME Tenants!TenancyAssumption, Answered(s6, s7), NEW q \in Askers, s6[q].at = "write",
           NEW id \in Tenants!Ids(s6[q].kind), NEW org \in Ones \cup {None},
           Tenants!Wrote(q, id, org), s7' = s7
    PROVE  Answered(s6, s7)'
<1> DEFINE r == s6[q]
           m == [r EXCEPT !.changed = {"row"}, !.id = id, !.org = org]
           a == Tenants!After(m)
<1>1. /\ r \in Serving /\ Told(q, r, s7) /\ Fitting(r)
      /\ \A e \in {"CREATED", "UPDATED", "DELETED"} : <<q, e>> \notin s7
    BY InProgress
<1>2. id \in Accounts
    <2>1. r.kind \in {"org", "user", "group"}
        BY <1>1 DEF Serving
    <2> QED  BY <2>1 DEF Tenants!Ids, Accounts
<1>3. /\ m \in Serving /\ m.list = r.list /\ m.op = r.op /\ m.kind = r.kind /\ m.id = id /\ m.at = "write"
      /\ m.changed = {"row"} /\ m.filters = r.filters
    BY <1>1, <1>2 DEF Serving
<1>4. s6' = [s6 EXCEPT ![q] = IF m.list = None THEN Tenants!Rest(m, a, "ok", FALSE)
                              ELSE [m EXCEPT !.at = a, !.type = None, !.email = None]]
    BY DEF Tenants!Wrote
<1>5. a = (IF m.list = None THEN "audit" ELSE IF m.filters THEN "filter" ELSE "assign")
    BY DEF Tenants!After
<1> HIDE DEF m, a
<1>6. CASE m.list = None
    <2> DEFINE o == Tenants!Rest(m, "audit", "ok", FALSE)
    <2>2. /\ o \in Served /\ o.at = "audit" /\ o.list = None /\ o.answer = "ok" /\ o.changed = {"row"}
        <3>1. m.op \in Ops /\ m.changed \in SUBSET {"row", "list"}
            BY <1>3 DEF Serving
        <3>2. /\ o.at = "audit" /\ o.answer = "ok" /\ o.changed = m.changed
              /\ o.list = IF m.list = None THEN None ELSE {}
            BY DEF Tenants!Rest
        <3>3. o \in Served
            BY ONLY <3>1, RestIs
        <3> HIDE DEF o
        <3> QED  BY <1>3, <1>6, <3>2, <3>3
    <2>3. s6' = [s6 EXCEPT ![q] = o]
        BY <1>4, <1>5, <1>6
    <2> HIDE DEF o
    <2>4. Told(q, o, s7)
        BY <1>1, <2>2 DEF Told
    <2> QED  BY <2>2, <2>3, <2>4, GoesOn
<1>7. CASE m.list # None
    <2> DEFINE w == [m EXCEPT !.at = a, !.type = None, !.email = None]
    <2>1. a \in {"filter", "assign"} /\ (a = "filter" => r.filters)
        BY <1>3, <1>5, <1>7
    <2>2. /\ w \in Serving /\ w.at = a /\ w.list = m.list /\ w.op = m.op /\ w.kind = m.kind /\ w.id = m.id
          /\ w.changed = m.changed /\ w.filters = m.filters
        BY <1>3, <2>1 DEF Serving
    <2>3. s6' = [s6 EXCEPT ![q] = w]
        BY <1>4, <1>7
    <2> HIDE DEF w
    <2>4. w.kind = r.kind /\ w.id \in Tenants!Ids(w.kind) /\ w.list = r.list /\ w.filters = r.filters
        BY <1>3, <2>2
    <2>5. Fitting(w)
        BY <1>1, <2>1, <2>2, <2>4 DEF Fitting
    <2>6. a = "filter" => w.kind = "user"
        BY <1>1, <2>1, <2>4 DEF Fitting
    <2>7. Told(q, w, s7)
        BY <1>1, <1>3, <1>7, <2>1, <2>2, <2>5, <2>6 DEF Told
    <2> QED  BY <2>2, <2>3, <2>7, GoesOn
<1> QED  BY <1>6, <1>7

(* A row that was not there is inserted: nothing referred to it.           *)
LEMMA TenancyCreates ==
    ASSUME Tenants!TenancyAssumption, TenancyInv, NEW q \in Askers, s6[q].op = "create", Tenants!Create(q)
    PROVE  TenancyInv'
<1> DEFINE r == s6[q]
<1>1. s6[q].at = "write" /\ UNCHANGED <<s4, s5, s7>>
    BY DEF Tenants!Create, Tenants!At
<1>2. r \in Serving /\ Fitting(r)
    BY <1>1, InProgress DEF TenancyInv
<1>3. CASE Tenants!Leave(q, "error") /\ UNCHANGED <<s1, s2, s3>>
    <2>1. Answered(s6, s7)'
        BY <1>1, <1>3, EndsInError DEF TenancyInv
    <2> QED  BY <1>1, <1>3, <2>1 DEF TenancyInv, TableTypes
<1>4. ASSUME NEW id \in Tenants!Ids(r.kind), ~Tenants!Exists(r.kind, id), Tenants!Wrote(q, id, r.org),
             CASE r.kind = "org" -> Tenants!InsertOrg(id, r)
               [] r.kind = "user" -> Tenants!InsertUser(id, r)
               [] r.kind = "group" -> Tenants!InsertGroup(id, r)
      PROVE  TenancyInv'
    <2>1. /\ r.org \in Ones \cup {None}
          /\ r.kind \in {"org", "user", "group"}
          /\ r.kind = "org" => r.type \in Tenants!Types
          /\ r.kind # "org" => r.org \in Ones
          /\ r.kind = "user" => r.email \in Emails
        BY <1>1, <1>2 DEF Serving, Fitting
    <2>2. Answered(s6, s7)'
        BY <1>1, <1>4, <2>1, WroteRow DEF TenancyInv
    <2>3. CASE r.kind = "org"
        <3>1. s1' = [s1 EXCEPT ![id] = [parent |-> r.org, type |-> r.type]] /\ UNCHANGED <<s2, s3>>
            BY <1>4, <2>3 DEF Tenants!InsertOrg
        <3>2. [parent |-> r.org, type |-> r.type] \in Tenants!OrgRows
            BY <2>1, <2>3 DEF Tenants!OrgRows
        <3> QED  BY <1>1, <2>2, <3>1, <3>2 DEF TenancyInv, TableTypes
    <2>4. CASE r.kind = "user"
        <3>1. s2' = [s2 EXCEPT ![id] = [org |-> r.org, email |-> r.email]] /\ UNCHANGED <<s1, s3>>
            BY <1>4, <2>4 DEF Tenants!InsertUser
        <3>2. [org |-> r.org, email |-> r.email] \in Tenants!UserRows
            BY <2>1, <2>4 DEF Tenants!UserRows
        <3>3. id \in Twos
            BY <1>4, <2>4 DEF Tenants!Ids
        <3>4. s2[id] = Absent
            BY <1>4, <2>4, <3>3, TenancyFacts DEF Tenants!Exists, Tenants!OrgOf, TenancyInv, TableTypes, Tenants!UserRows
        <3> HIDE DEF r
        <3>5. TableTypes'
            BY <1>1, <3>1, <3>2, <3>3, <3>4 DEF TenancyInv, TableTypes
        <3> QED  BY <2>2, <3>5 DEF TenancyInv
    <2>5. CASE r.kind = "group"
        <3>1. s3' = [s3 EXCEPT ![id] = r.org] /\ UNCHANGED <<s1, s2>> /\ r.org \in Ones
            BY <1>4, <2>1, <2>5 DEF Tenants!InsertGroup
        <3>2. id \in GroupIds /\ s3[id] = Absent
            BY <1>4, <2>5 DEF Tenants!Ids, Tenants!Exists, Tenants!OrgOf
        <3> HIDE DEF r
        <3>3. TableTypes'
            BY <1>1, <3>1, <3>2 DEF TenancyInv, TableTypes
        <3> QED  BY <2>2, <3>3 DEF TenancyInv
    <2> QED  BY <2>1, <2>3, <2>4, <2>5
<1> QED  BY <1>3, <1>4 DEF Tenants!Create

(* The columns are written; or the UPDATE is refused; or there are none, or*)
(* no row, and the request ends or goes on.                                *)
LEMMA TenancyUpdates ==
    ASSUME Tenants!TenancyAssumption, TenancyInv, NEW q \in Askers, s6[q].op = "update", Tenants!Update(q)
    PROVE  TenancyInv'
<1> DEFINE r == s6[q]
<1>1. s6[q].at = "write" /\ s7' = s7
    BY DEF Tenants!Update, Tenants!At
<1>2. /\ r \in Serving /\ Told(q, r, s7) /\ Fitting(r)
      /\ \A c \in {"CREATED", "UPDATED", "DELETED"} : <<q, c>> \notin s7
    BY <1>1, InProgress DEF TenancyInv
<1>3. /\ r.kind \in {"org", "user", "group"} /\ r.id \in Tenants!Ids(r.kind)
      /\ r.org \in Ones \cup {None} /\ r.type \in Tenants!Types \cup {None} /\ r.email \in Emails \cup {None}
    BY <1>2 DEF Serving, Fitting
<1>4. ASSUME Tenants!Exists(r.kind, r.id),
             CASE r.kind = "org" -> Tenants!UpdateOrg(q)
               [] r.kind = "user" -> Tenants!UpdateUser(q)
               [] r.kind = "group" -> Tenants!UpdateGroup(q)
      PROVE  TenancyInv'
    <2>1. CASE r.kind = "org"
        <3> DEFINE new == Tenants!Given(r.type, s1[r.id].type)
        <3>1. r.id \in Ones /\ s1[r.id] \in Tenants!OrgRows
            BY <1>3, <1>4, <2>1 DEF Tenants!Ids, Tenants!Exists, Tenants!OrgOf, TenancyInv, TableTypes
        <3>2. /\ s1' = [s1 EXCEPT ![r.id] = [s1[r.id] EXCEPT !.type = new]]
              /\ UNCHANGED <<s2, s3, s4, s5>> /\ Tenants!Wrote(q, r.id, None)
            BY <1>4, <2>1 DEF Tenants!UpdateOrg
        <3>3. new \in Tenants!Types
            BY <1>3, <3>1 DEF Tenants!Given, Tenants!OrgRows
        <3> HIDE DEF new
        <3>4. [s1[r.id] EXCEPT !.type = new] \in Tenants!OrgRows
            BY <3>1, <3>3 DEF Tenants!OrgRows
        <3>5. TableTypes'
            BY <3>1, <3>2, <3>4 DEF TenancyInv, TableTypes
        <3>6. Answered(s6, s7)'
            BY <1>1, <1>3, <3>2, WroteRow DEF TenancyInv
        <3> QED  BY <3>5, <3>6 DEF TenancyInv
    <2>2. CASE r.kind = "user"
        <3> DEFINE o == Tenants!Given(r.org, s2[r.id].org)
                   e == Tenants!Given(r.email, s2[r.id].email)
                   row == [org |-> o, email |-> e]
        <3>1. r.id \in Twos /\ s2[r.id] \in Tenants!UserRows
            BY <1>3, <1>4, <2>2 DEF Tenants!Ids, Tenants!Exists, Tenants!OrgOf, TenancyInv, TableTypes
        <3>2. /\ s2' = [s2 EXCEPT ![r.id] = row]
              /\ UNCHANGED <<s1, s3, s4, s5>> /\ Tenants!Wrote(q, r.id, row.org)
            BY <1>4, <2>2 DEF Tenants!UpdateUser
        <3>3. o \in Ones /\ e \in Emails
            BY <1>3, <3>1 DEF Tenants!Given, Tenants!UserRows
        <3> HIDE DEF o, e
        <3>4. row \in Tenants!UserRows /\ row.org \in Ones
            BY <3>3 DEF Tenants!UserRows
        <3>5. s2[r.id] # Absent
            BY <1>4, <2>2 DEF Tenants!Exists, Tenants!OrgOf
        <3>6. Answered(s6, s7)'
            BY <1>1, <1>3, <3>2, <3>4, WroteRow DEF TenancyInv
        <3>7. row # Absent \/ Absent \in Tenants!UserRows
            BY <3>4
        <3> HIDE DEF row, r
        <3>8. s2' \in [Twos -> Tenants!UserRows \cup {Absent}]
            BY <3>1, <3>2, <3>4 DEF TenancyInv, TableTypes
        <3>9. ASSUME NEW u \in Twos, s2[u] # Absent
              PROVE  s2'[u] # Absent
            BY <3>1, <3>2, <3>4, <3>9, TenancyFacts DEF TenancyInv, TableTypes
        <3>10. TableTypes'
            BY <3>2, <3>8, <3>9 DEF TenancyInv, TableTypes
        <3> QED  BY <3>6, <3>10 DEF TenancyInv
    <2>3. CASE r.kind = "group"
        <3>1. Tenants!Wrote(q, r.id, None) /\ UNCHANGED <<s1, s2, s3, s4, s5>>
            BY <1>4, <2>3 DEF Tenants!UpdateGroup, Tenants!tables
        <3>2. Answered(s6, s7)'
            BY <1>1, <1>3, <3>1, WroteRow DEF TenancyInv
        <3> QED  BY <3>1, <3>2 DEF TenancyInv, TableTypes
    <2> QED  BY <1>3, <2>1, <2>2, <2>3
<1>5. CASE Tenants!Leave(q, "error") /\ UNCHANGED <<s1, s2, s3, s4, s5>>
    <2>1. Answered(s6, s7)'
        BY <1>1, <1>5, EndsInError DEF TenancyInv
    <2> QED  BY <1>5, <2>1 DEF TenancyInv, TableTypes
<1>6. CASE r.list = None /\ Tenants!Leave(q, "ok") /\ UNCHANGED <<s1, s2, s3, s4, s5>>
    <2> DEFINE o == Tenants!Over(r, "ok", FALSE)
    <2>1. /\ o \in Served /\ o.at = "end" /\ o.op = "update" /\ o.list = None
          /\ o.answer = "ok" /\ o.changed = {}
        BY <1>1, <1>2, <1>6, OverIs DEF Told
    <2>2. s6' = [s6 EXCEPT ![q] = o]
        BY <1>6 DEF Tenants!Leave
    <2> HIDE DEF o
    <2>3. Told(q, o, s7)
        BY <1>2, <2>1 DEF Told
    <2>4. Answered(s6, s7)'
        BY <1>1, <2>1, <2>2, <2>3, GoesOn DEF TenancyInv
    <2> QED  BY <1>6, <2>4 DEF TenancyInv, TableTypes
<1>7. CASE r.list # None /\ s6' = [s6 EXCEPT ![q].at = Tenants!After(r)] /\ UNCHANGED <<s1, s2, s3, s4, s5>>
    <2> DEFINE a == Tenants!After(r)
               w == [r EXCEPT !.at = a]
    <2>1. s6' = [s6 EXCEPT ![q] = w]
        BY <1>7
    <2>2. a \in {"filter", "assign"} /\ (a = "filter" => r.filters)
        BY <1>7 DEF Tenants!After
    <2> HIDE DEF r, a
    <2>3. w \in Serving /\ w.at = a
        BY <1>2, <2>2 DEF Serving
    <2>4. /\ w.list = r.list /\ w.op = r.op /\ w.kind = r.kind /\ w.id = r.id /\ w.org = r.org /\ w.email = r.email
          /\ w.filters = r.filters /\ w.changed = r.changed
        BY <1>2 DEF Serving
    <2> HIDE DEF w
    <2>5. Fitting(w)
        BY <1>2, <1>3, <2>2, <2>3, <2>4 DEF Fitting
    <2>6. r.changed = {} /\ r.op = "update"
        BY <1>1, <1>2 DEF Told, r
    <2>7. a = "filter" => w.kind = "user"
        BY <1>2, <2>2, <2>4 DEF Fitting
    <2>8. Told(q, w, s7)
        BY <1>2, <1>7, <2>2, <2>3, <2>4, <2>5, <2>6, <2>7 DEF Told
    <2>9. Answered(s6, s7)'
        BY <1>1, <2>1, <2>3, <2>8, GoesOn DEF TenancyInv
    <2> QED  BY <1>7, <2>9 DEF TenancyInv, TableTypes
<1> QED  BY <1>4, <1>5, <1>6, <1>7 DEF Tenants!Update, Tenants!tables

(* What is deleted takes with it what refers to it.                        *)
LEMMA TenancyDeletes ==
    ASSUME Tenants!TenancyAssumption, TenancyInv, NEW q \in Askers, s6[q].op = "delete", Tenants!Delete(q)
    PROVE  TenancyInv'
<1> DEFINE r == s6[q]
           gone == {r.id}
<1>1. s6[q].at = "write" /\ s7' = s7
    BY DEF Tenants!Delete, Tenants!At
<1>2. CASE Tenants!Leave(q, "error") /\ UNCHANGED <<s1, s2, s3, s4, s5>>
    <2>1. Answered(s6, s7)'
        BY <1>1, <1>2, EndsInError DEF TenancyInv
    <2> QED  BY <1>2, <2>1 DEF TenancyInv, TableTypes
<1>3. CASE Tenants!Without(gone) /\ Tenants!Wrote(q, r.id, None)
    <2>0. r.id \in Tenants!Ids(r.kind)
        BY <1>1, InProgress DEF TenancyInv, Fitting
    <2>9. Answered(s6, s7)'
        BY <1>1, <1>3, <2>0, WroteRow DEF TenancyInv
    <2> HIDE DEF gone
    <2>1. /\ s1' = [o \in Ones |-> IF o \in gone THEN Absent ELSE Tenants!Orphaned(s1[o], gone)]
          /\ s2' = [u \in Twos |-> IF u \in gone \/ (Tenants!Exists("user", u) /\ s2[u].org \in gone)
                                   THEN Absent ELSE s2[u]]
          /\ s3' = [g \in GroupIds |-> IF g \in gone \/ s3[g] \in gone THEN Absent ELSE s3[g]]
        BY <1>3 DEF Tenants!Without
    <2>2. /\ s4' = {p \in s4 : s2'[p[1]] # Absent /\ s3'[p[2]] # Absent}
          /\ s5' = {p \in s5 : s3'[p[1]] # Absent}
        BY <1>3 DEF Tenants!Without
    <2>3. s1' \in [Ones -> Tenants!OrgRows \cup {Absent}]
        <3>1. \A row \in Tenants!OrgRows \cup {Absent} :
                  Tenants!Orphaned(row, gone) \in Tenants!OrgRows \cup {Absent}
            BY DEF Tenants!Orphaned, Tenants!OrgRows
        <3> QED  BY <2>1, <3>1 DEF TenancyInv, TableTypes
    <2>4. s2' \in [Twos -> Tenants!UserRows \cup {Absent}] /\ s3' \in [GroupIds -> Ones \cup {Absent}]
        BY <2>1 DEF TenancyInv, TableTypes
    <2>5. s4' \in SUBSET (Twos \X GroupIds) /\ s5' \in SUBSET (GroupIds \X Vehicles)
        BY <2>2 DEF TenancyInv, TableTypes
    <2>6. /\ \A u \in Twos, g \in GroupIds : <<u, g>> \in s4' => s2'[u] # Absent /\ s3'[g] # Absent
          /\ \A g \in GroupIds, v \in Vehicles : <<g, v>> \in s5' => s3'[g] # Absent
        BY <2>2
    <2>7. TableTypes'
        BY <2>3, <2>4, <2>5, <2>6 DEF TableTypes
    <2> QED  BY <2>7, <2>9 DEF TenancyInv
<1> QED  BY <1>2, <1>3 DEF Tenants!Delete, Tenants!tables

(* A dealer's list loses what does not belong.                             *)
LEMMA TenancyFilters ==
    ASSUME Tenants!TenancyAssumption, TenancyInv, NEW q \in Askers, Tenants!Filter(q)
    PROVE  TenancyInv'
<1> DEFINE r == s6[q]
           l == {g \in r.list : Tenants!OwnOrChild(s3[g], r.org)}
           w == [r EXCEPT !.at = "assign", !.list = l]
<1>1. s6[q].at = "filter" /\ UNCHANGED <<s1, s2, s3, s4, s5, s7>>
    BY DEF Tenants!Filter, Tenants!At, Tenants!tables
<1>2. /\ r \in Serving /\ Told(q, r, s7) /\ Fitting(r)
      /\ \A c \in {"CREATED", "UPDATED", "DELETED"} : <<q, c>> \notin s7
    BY <1>1, InProgress DEF TenancyInv
<1>3. CASE Tenants!Leave(q, "error")
    <2>1. Answered(s6, s7)'
        BY <1>1, <1>3, EndsInError DEF TenancyInv
    <2> QED  BY <1>1, <2>1 DEF TenancyInv, TableTypes
<1>4. CASE s6' = [s6 EXCEPT ![q].at = "assign", ![q].list = {g \in @ : Tenants!OwnOrChild(s3[g], r.org)}]
    <2>1. s6' = [s6 EXCEPT ![q] = w]
        BY <1>4
    <2>2. r.kind = "user" /\ r.list # None /\ "list" \notin r.changed /\ (r.op # "update" => "row" \in r.changed)
        BY <1>1, <1>2 DEF Told
    <2>3. r.list \in SUBSET GroupIds
        BY <1>2, <2>2 DEF Fitting
    <2>4. l \in SUBSET GroupIds /\ l # None
        BY <2>3, TenancyFacts
    <2> HIDE DEF l
    <2>5. l \in Lists
        BY <2>4 DEF Lists
    <2>6. w \in Serving /\ w.at = "assign" /\ w.list = l
        BY <1>2, <2>5 DEF Serving
    <2>7. /\ w.op = r.op /\ w.kind = r.kind /\ w.id = r.id /\ w.filters = r.filters /\ w.changed = r.changed
        BY <1>2 DEF Serving
    <2> HIDE DEF w
    <2>8. r.at = "filter"
        BY <1>1
    <2>9. Fitting(w)
        BY <1>2, <2>2, <2>4, <2>6, <2>7, <2>8 DEF Fitting
    <2>10. Told(q, w, s7)
        BY <1>2, <2>2, <2>4, <2>6, <2>7, <2>9 DEF Told
    <2>11. Answered(s6, s7)'
        BY <1>1, <2>1, <2>6, <2>10, GoesOn DEF TenancyInv
    <2> QED  BY <1>1, <2>11 DEF TenancyInv, TableTypes
<1> QED  BY <1>3, <1>4 DEF Tenants!Filter

(* The list is assigned, to a user or group that is there; an update that  *)
(* wrote no row is over.                                                   *)
LEMMA TenancyAssigns ==
    ASSUME Tenants!TenancyAssumption, TenancyInv, NEW q \in Askers,
           s6[q].kind \in {"user", "group"}, Tenants!Assign(q)
    PROVE  TenancyInv'
<1> DEFINE r == s6[q]
           place == IF r.changed = {} THEN "end" ELSE "audit"
           m == [r EXCEPT !.changed = @ \cup {"list"}]
           o == Tenants!Rest(m, place, "ok", FALSE)
<1>1. s6[q].at = "assign" /\ UNCHANGED <<s1, s2, s3, s7>>
    BY DEF Tenants!Assign, Tenants!At
<1>2. /\ r \in Serving /\ Told(q, r, s7) /\ Fitting(r)
      /\ \A c \in {"CREATED", "UPDATED", "DELETED"} : <<q, c>> \notin s7
    BY <1>1, InProgress DEF TenancyInv
<1>3. CASE Tenants!Leave(q, "error") /\ UNCHANGED <<s4, s5>>
    <2>1. Answered(s6, s7)'
        BY <1>1, <1>3, EndsInError DEF TenancyInv
    <2> QED  BY <1>1, <1>3, <2>1 DEF TenancyInv, TableTypes
<1>4. CASE ~Tenants!AssignThrows(q)
    <2>1. /\ s6' = [s6 EXCEPT ![q] = o]
          /\ s4' = (IF r.kind = "user" /\ (r.op = "update" \/ r.list # {})
                    THEN Tenants!Replaced(s4, r.id, r.list) ELSE s4)
          /\ s5' = (IF r.kind = "group" THEN Tenants!Replaced(s5, r.id, r.list) ELSE s5)
        BY <1>4 DEF Tenants!Assign
    <2>2. /\ r.list # {} => Tenants!Exists(r.kind, r.id)
          /\ r.kind = "user" => \A g \in r.list : Tenants!Exists("group", g)
        BY <1>4 DEF Tenants!AssignThrows
    <2>3. r.list # None /\ "list" \notin r.changed /\ (r.op # "update" => "row" \in r.changed)
        BY <1>1, <1>2 DEF Told
    <2>4. TableTypes'
        <3>1. CASE r.kind = "user"
            <4>1. r.id \in Twos /\ r.list \in SUBSET GroupIds
                BY <1>1, <1>2, <2>3, <3>1 DEF Fitting, Tenants!Ids
            <4>2. r.list # {} => s2[r.id] # Absent
                BY <2>2, <3>1 DEF Tenants!Exists, Tenants!OrgOf
            <4>3. \A g \in r.list : s3[g] # Absent
                BY <2>2, <3>1 DEF Tenants!Exists, Tenants!OrgOf
            <4>4. /\ s5' = s5
                  /\ s4' = s4 \/ s4' = {p \in s4 : p[1] # r.id} \cup ({r.id} \X r.list)
                BY <2>1, <3>1 DEF Tenants!Replaced
            <4> HIDE DEF r
            <4>5. s4' \in SUBSET (Twos \X GroupIds)
                BY <4>1, <4>4 DEF TenancyInv, TableTypes
            <4>6. ASSUME NEW u \in Twos, NEW g \in GroupIds, <<u, g>> \in s4'
                  PROVE  s2[u] # Absent /\ s3[g] # Absent
                BY <4>2, <4>3, <4>4, <4>6 DEF TenancyInv, TableTypes
            <4> QED  BY <1>1, <4>4, <4>5, <4>6 DEF TenancyInv, TableTypes
        <3>2. CASE r.kind = "group"
            <4>1. r.id \in GroupIds /\ r.list \in SUBSET Vehicles
                BY <1>1, <1>2, <2>3, <3>2 DEF Fitting, Tenants!Ids
            <4>2. r.list # {} => s3[r.id] # Absent
                BY <2>2, <3>2 DEF Tenants!Exists, Tenants!OrgOf
            <4>3. s5' = {p \in s5 : p[1] # r.id} \cup ({r.id} \X r.list) /\ s4' = s4
                BY <2>1, <3>2 DEF Tenants!Replaced
            <4> HIDE DEF r
            <4>4. s5' \in SUBSET (GroupIds \X Vehicles)
                BY <4>1, <4>3 DEF TenancyInv, TableTypes
            <4>5. ASSUME NEW g \in GroupIds, NEW v \in Vehicles, <<g, v>> \in s5'
                  PROVE  s3[g] # Absent
                BY <4>2, <4>3, <4>5 DEF TenancyInv, TableTypes
            <4> QED  BY <1>1, <4>3, <4>4, <4>5 DEF TenancyInv, TableTypes
        <3>3. r.kind \in {"user", "group"}
            BY <1>1, <1>2, <2>3 DEF Fitting, Serving
        <3> QED  BY <3>1, <3>2, <3>3
    <2>5. m.op = r.op /\ m.list = r.list /\ m.changed = r.changed \cup {"list"} /\ r.op \in Ops
          /\ r.changed \in SUBSET {"row", "list"}
        BY <1>2 DEF Serving
    <2>6. place \in {"audit", "end"} /\ (place = "audit" => r.changed # {}) /\ (place = "end" => r.changed = {})
        OBVIOUS
    <2> HIDE DEF r, m, place
    <2>7. o \in Served /\ o.at = place /\ o.op = r.op /\ o.answer = "ok" /\ o.changed = r.changed \cup {"list"}
        <3>1. m.op \in Ops /\ m.changed \in SUBSET {"row", "list"} /\ place \in {"audit", "end"}
            BY <2>5, <2>6
        <3>2. o.at = place /\ o.op = m.op /\ o.answer = "ok" /\ o.changed = m.changed
            BY DEF Tenants!Rest
        <3>3. o \in Served
            BY ONLY <3>1, RestIs
        <3> HIDE DEF o
        <3> QED  BY <2>5, <3>2, <3>3
    <2> HIDE DEF o
    <2>8. "list" \in o.changed /\ ("row" \in o.changed <=> r.changed # {})
        BY <2>3, <2>5, <2>7
    <2>9. Told(q, o, s7)
        BY <1>2, <2>3, <2>6, <2>7, <2>8 DEF Told
    <2>10. Answered(s6, s7)'
        BY <1>1, <2>1, <2>7, <2>9, GoesOn DEF TenancyInv
    <2> QED  BY <2>4, <2>10 DEF TenancyInv
<1> QED  BY <1>3, <1>4 DEF Tenants!Assign

(* The entry is written, or lost; or a statement fails before.             *)
LEMMA TenancyEnds ==
    ASSUME Tenants!TenancyAssumption, TenancyInv, NEW q \in Askers, Tenants!Ends(q)
    PROVE  TenancyInv'
<1> DEFINE r == s6[q]
<1>0. CASE Tenants!StatementFails(q)
    <2>1. /\ s6[q].at \in {"write", "filter", "assign"} /\ Tenants!Leave(q, "error")
          /\ UNCHANGED <<s1, s2, s3, s4, s5, s7>>
        BY <1>0 DEF Tenants!StatementFails, Tenants!At, Tenants!tables
    <2>2. Answered(s6, s7)'
        BY <2>1, EndsInError DEF TenancyInv
    <2> QED  BY <2>1, <2>2 DEF TenancyInv, TableTypes
<1> SUFFICES ASSUME Tenants!Log(q) \/ Tenants!LogFails(q)
             PROVE  TenancyInv'
    BY <1>0 DEF Tenants!Ends
<1>1. s6[q].at = "audit" /\ UNCHANGED <<s1, s2, s3, s4, s5>>
    BY DEF Tenants!Log, Tenants!LogFails, Tenants!At, Tenants!tables
<1>2. /\ r \in Served /\ Told(q, r, s7)
      /\ \A c \in {"CREATED", "UPDATED", "DELETED"} : <<q, c>> \notin s7
    <2>1. r \in ToCome \cup Serving \cup Served /\ Told(q, r, s7)
        BY DEF TenancyInv, Answered
    <2> QED  BY <1>1, <2>1 DEF ToCome, Serving, Told
<1>3. TableTypes'
    BY <1>1 DEF TenancyInv, TableTypes
<1>4. r.answer = "ok" /\ "row" \in r.changed /\ (r.list # None => "list" \in r.changed)
    BY <1>1, <1>2 DEF Told
<1>5. CASE Tenants!LogFails(q)
    <2> DEFINE o == Tenants!Over(r, "ok", TRUE)
    <2>1. /\ o \in Served /\ o.at = "end" /\ o.op = r.op /\ o.list = (IF r.list = None THEN None ELSE {})
          /\ o.answer = "ok" /\ o.changed = r.changed /\ o.lost = TRUE
        BY <1>2, OverIs
    <2>2. s6' = [s6 EXCEPT ![q] = o] /\ s7' = s7
        BY <1>5 DEF Tenants!LogFails
    <2> HIDE DEF o
    <2>3. Told(q, o, s7)
        BY <1>2, <1>4, <2>1 DEF Told
    <2> QED  BY <1>3, <2>1, <2>2, <2>3, GoesOn DEF TenancyInv
<1>6. CASE Tenants!Log(q)
    <2> DEFINE o == Tenants!Over(r, "ok", FALSE)
               act == Tenants!Action(r.op)
    <2>1. /\ o \in Served /\ o.at = "end" /\ o.op = r.op /\ o.list = (IF r.list = None THEN None ELSE {})
          /\ o.answer = "ok" /\ o.changed = r.changed /\ o.lost = FALSE
        BY <1>2, OverIs
    <2>2. s6' = [s6 EXCEPT ![q] = o] /\ s7' = s7 \cup {<<q, act>>}
        BY <1>6 DEF Tenants!Log, Tenants!Leave
    <2>3. act \in {"CREATED", "UPDATED", "DELETED"}
        BY <1>2 DEF Served, Ops, Tenants!Action
    <2> HIDE DEF o
    <2>4. o.op = r.op /\ Tenants!Action(o.op) = act
        BY <2>1
    <2> HIDE DEF act, r
    <2>5. s6' \in [Askers -> ToCome \cup Serving \cup Served]
        BY <2>1, <2>2 DEF TenancyInv, Answered
    <2>6. s7' \in SUBSET (Askers \X {"CREATED", "UPDATED", "DELETED"})
        BY <2>2, <2>3 DEF TenancyInv, Answered
    <2>7. \A a : <<q, a>> \in s7' => <<q, a>> \in s7 \/ a = act
        BY <2>2
    <2>8. <<q, act>> \in s7'
        BY <2>2
    <2>9. Told(q, o, s7')
        BY <1>2, <1>4, <2>1, <2>4, <2>7, <2>8 DEF Told
    <2>10. ASSUME NEW p \in Askers, p # q
           PROVE  Told(p, s6'[p], s7')
        <3>1. s6'[p] = s6[p] /\ Told(p, s6[p], s7)
            BY <2>2, <2>10 DEF TenancyInv, Answered
        <3>2. \A a : <<p, a>> \in s7' <=> <<p, a>> \in s7
            BY <2>2, <2>10
        <3> QED  BY <3>1, <3>2 DEF Told
    <2>11. s6'[q] = o
        BY <2>2 DEF TenancyInv, Answered
    <2>12. \A p \in Askers : Told(p, s6'[p], s7')
        BY <2>9, <2>10, <2>11
    <2> QED  BY <1>3, <2>5, <2>6, <2>12 DEF TenancyInv, Answered
<1> QED  BY <1>5, <1>6

(* The process dies: what was in progress is over, as it was answered.     *)
LEMMA TenancyCrashes ==
    ASSUME Tenants!TenancyAssumption, TenancyInv, Tenants!Crash
    PROVE  TenancyInv'
<1>1. /\ UNCHANGED <<s1, s2, s3, s4, s5, s7>>
      /\ s6' = [q \in Askers |-> IF s6[q].at = "new" \/ s6[q].at = "end" THEN s6[q]
                                 ELSE Tenants!Over(s6[q], s6[q].answer, TRUE)]
    BY DEF Tenants!Crash, Tenants!At, Tenants!tables
<1>2. TableTypes'
    BY <1>1 DEF TenancyInv, TableTypes
<1>3. ASSUME NEW q \in Askers
      PROVE  s6'[q] \in ToCome \cup Serving \cup Served /\ Told(q, s6'[q], s7)
    <2>1. CASE s6[q].at = "new" \/ s6[q].at = "end"
        BY <1>1, <2>1 DEF TenancyInv, Answered
    <2>2. CASE ~(s6[q].at = "new" \/ s6[q].at = "end")
        <3> DEFINE r == s6[q]
                   o == Tenants!Over(r, r.answer, TRUE)
        <3>1. r \in Serving \cup Served /\ Told(q, r, s7)
            BY <2>2 DEF TenancyInv, Answered, ToCome
        <3>2. \/ r.at \in {"write", "filter", "assign"} /\ r.answer = None
              \/ r.at = "audit" /\ r.answer = "ok"
            BY <2>2, <3>1 DEF Serving, Served, Told
        <3>3. \A c \in {"CREATED", "UPDATED", "DELETED"} : <<q, c>> \notin s7
            BY <2>2, <3>1 DEF Told
        <3>4. s6'[q] = o
            BY <1>1, <2>2
        <3>5. /\ o \in Served /\ o.at = "end" /\ o.op = r.op /\ o.list = (IF r.list = None THEN None ELSE {})
              /\ o.answer = r.answer /\ o.changed = r.changed /\ o.lost = TRUE
            <4>1. r.answer \in {None, "ok", "error"}
                BY <3>2
            <4> QED  BY ZenonT(30), <3>1, <4>1, OverIs
        <3> HIDE DEF o, r
        <3>6. o.answer = "ok" =>
                 (o.list # None => "list" \in o.changed) /\ (o.op # "update" => "row" \in o.changed)
            <4> SUFFICES ASSUME o.answer = "ok"
                         PROVE  /\ o.list # None => "list" \in o.changed
                                /\ o.op # "update" => "row" \in o.changed
                OBVIOUS
            <4>1. CASE r.at = "audit"
                BY <3>1, <3>5, <4>1 DEF Told
            <4>2. CASE r.at # "audit"
                BY <3>2, <3>5, <4>2, TenancyFacts
            <4> QED  BY <4>1, <4>2
        <3>7. o.answer = "error" =>
                 "list" \notin o.changed /\ ("row" \in o.changed => o.list # None)
            BY <3>2, <3>5, TenancyFacts
        <3> QED  BY <3>3, <3>4, <3>5, <3>6, <3>7 DEF Told
    <2> QED  BY <2>1, <2>2
<1>4. s6' \in [Askers -> ToCome \cup Serving \cup Served]
    BY <1>1, <1>3
<1> QED  BY <1>1, <1>2, <1>3, <1>4 DEF TenancyInv, Answered

LEMMA TenancyMoves ==
    ASSUME Tenants!TenancyAssumption, TenancyInv, Tenants!Next
    PROVE  TenancyInv'
<1> USE DEF Tenants!At
<1>1. CASE Tenants!Crash
    BY <1>1, TenancyCrashes
<1>2. ASSUME NEW q \in Askers,
             \/ Tenants!createOrg(q) \/ Tenants!updateOrg(q) \/ Tenants!deleteOrg(q)
      PROVE  TenancyInv'
    BY <1>2, CreationsReceive, UpdatesReceive, DeletionsReceive, TenancyCreates, TenancyUpdates, TenancyDeletes
       DEF Tenants!createOrg, Tenants!updateOrg, Tenants!deleteOrg, Tenants!Is
<1>3. ASSUME NEW q \in Askers,
             \/ Tenants!createUser(q) \/ Tenants!updateUser(q) \/ Tenants!deleteUser(q)
      PROVE  TenancyInv'
    BY <1>3, CreationsReceive, UpdatesReceive, DeletionsReceive, TenancyCreates, TenancyUpdates, TenancyDeletes,
       TenancyFilters, TenancyAssigns DEF Tenants!createUser, Tenants!updateUser, Tenants!deleteUser, Tenants!Is
<1>4. ASSUME NEW q \in Askers,
             \/ Tenants!createGroup(q) \/ Tenants!updateGroup(q) \/ Tenants!deleteGroup(q)
      PROVE  TenancyInv'
    BY <1>4, CreationsReceive, UpdatesReceive, DeletionsReceive, TenancyCreates, TenancyUpdates, TenancyDeletes,
       TenancyAssigns DEF Tenants!createGroup, Tenants!updateGroup, Tenants!deleteGroup, Tenants!Is
<1>5. ASSUME NEW q \in Askers, Tenants!Ends(q)
      PROVE  TenancyInv'
    BY <1>5, TenancyEnds
<1> QED  BY <1>1, <1>2, <1>3, <1>4, <1>5 DEF Tenants!Next

LEMMA TenancyStarts ==
    ASSUME Tenants!TenancyAssumption, Tenants!Init
    PROVE  TenancyInv
<1>1. /\ s1 \in [Ones -> Tenants!OrgRows \cup {Absent}]
      /\ s2 \in [Twos -> Tenants!UserRows \cup {Absent}] /\ s3 \in [GroupIds -> Ones \cup {Absent}]
    <2>1. PICK t \in Tenants!Tables : s1 = t.orgs /\ s2 = t.users /\ s3 = t.groups
        BY DEF Tenants!Init, Tenants!TenancyAssumption
    <2> QED  BY <2>1 DEF Tenants!Tables
<1>6. /\ s4 = {} /\ s5 = {} /\ s7 = {}
      /\ s6 = [q \in Askers |-> [at |-> "new", answer |-> None, list |-> None, changed |-> {}]]
    BY DEF Tenants!Init
<1>2. [at |-> "new", answer |-> None, list |-> None, changed |-> {}] \in ToCome
    BY DEF ToCome
<1>3. TableTypes
    BY <1>1, <1>6 DEF TableTypes
<1>4. \A q \in Askers : s6[q].at = "new"
    BY <1>6
<1>5. Answered(s6, s7)
    BY <1>6, <1>2, <1>4 DEF Answered, Told
<1> QED  BY <1>3, <1>5 DEF TenancyInv

LEMMA TenancyAsPromised ==
    ASSUME Tenants!TenancyAssumption, TenancyInv
    PROVE  Tenants!EntriesMatchWrites /\ Tenants!AnswerIsTrue /\ Tenants!TypeOK
<1>1. \A q \in Askers : s6[q].at \in {"new", "write", "filter", "assign", "audit", "end"} /\ Told(q, s6[q], s7)
    BY DEF TenancyInv, Answered, ToCome, Serving, Served
<1>2. Tenants!EntriesMatchWrites
    BY <1>1 DEF Told, Tenants!EntriesMatchWrites, Tenants!At
<1>3. Tenants!AnswerIsTrue
    <2> SUFFICES ASSUME NEW q \in Askers
                 PROVE  /\ s6[q].answer = "ok" =>
                              /\ s6[q].list # None => "list" \in s6[q].changed
                              /\ s6[q].op # "update" => "row" \in s6[q].changed
                        /\ s6[q].answer = "error" =>
                              /\ "list" \notin s6[q].changed
                              /\ "row" \in s6[q].changed => s6[q].list # None
        BY DEF Tenants!AnswerIsTrue
    <2>1. CASE s6[q].at = "end"
        BY <1>1, <2>1 DEF Told
    <2>2. CASE s6[q].at = "audit"
        BY <1>1, <2>2, TenancyFacts DEF Told
    <2>3. CASE s6[q].at \in {"new", "write", "filter", "assign"}
        <3>1. s6[q].answer = None
            BY <1>1, <2>3 DEF Told, TenancyInv, Answered, ToCome, Serving, Served
        <3> QED  BY <3>1, TenancyFacts
    <2> QED  BY <1>1, <2>1, <2>2, <2>3
<1>4. Tenants!TypeOK
    <2>1. \A q \in Askers : /\ s6[q].answer \in {None, "ok", "error"}
                            /\ s6[q].changed \in SUBSET {"row", "list"}
        BY DEF TenancyInv, Answered, ToCome, Serving, Served
    <2>2. s4 \subseteq {u \in Twos : s2[u] # Absent} \X {g \in GroupIds : s3[g] # Absent}
        BY DEF TenancyInv, TableTypes
    <2>3. s5 \subseteq {g \in GroupIds : s3[g] # Absent} \X Vehicles
        BY DEF TenancyInv, TableTypes
    <2> QED  BY <1>1, <2>1, <2>2, <2>3 DEF TenancyInv, TableTypes, Answered, Tenants!TypeOK, Tenants!Changes
<1> QED  BY <1>2, <1>3, <1>4

-----------------------------------------------------------------------------
(* The profile of an organisation.  A save has read nothing yet, has read  *)
(* the row, or has written it; a change of password reads no row.          *)
Cipher == [text : Keys, under : Nat]
Profiles == {r \in [Profile!Columns -> Values \cup {None} \cup Cipher] :
                /\ \A c \in Profile!Columns \ {"key"} : r[c] \in Values \cup {None}
                /\ r["key"] \in Cipher \cup {None}}
SaveToCome == [at : {"new"}]
SaveSent == [at : {"read", "error"}, tab : Profile!Tabs, value : Values, key : Keys \cup {None}]
SaveRead == [at : {"write", "error"}, tab : Profile!Tabs, value : Values, key : Keys \cup {None}, old : Profiles]
SaveWrote == [at : {"audit", "ok", "error"}, tab : Profile!Tabs, value : Values, key : Keys \cup {None},
              old : Profiles, new : Profiles]
Password == [at : {"write", "audit", "ok", "error"}, tab : {"security"}, password : Passwords]
Refused == [at : {"error"}, tab : {"security"}]
SaveKinds == SaveToCome \cup SaveSent \cup SaveRead \cup SaveWrote \cup Password \cup Refused

Sent(r) == IF r.tab = "maps" THEN {"zoom", "key"} ELSE {r.tab}

(* What a save has read is still there when it writes, unless it was       *)
(* overtaken; and what it wrote differs only in what was sent.             *)
Recorded(q, r, table, over) ==
    /\ r \in SaveRead /\ r.at = "write" /\ q \notin over => r.old = table
    /\ r \in SaveWrote /\ q \notin over =>
          \A c \in Profile!Columns : r.new[c] # r.old[c] => c \in Sent(r)

ProfileTypes ==
    /\ s1 \in Profiles /\ s2 \in Passwords /\ s3 \in Nat
    /\ s4 \in [Saves -> SaveKinds]
    /\ s5 \in [from : {"nothing", "fetch", "save"}, key : Keys \cup {None},
               form : {None} \cup [key : Keys \cup {None}]]
    /\ s6 \in Seq(Saves)

SameAsStored ==
    /\ \A c \in Profile!Columns \ {"key"} : s1[c] = s7[c]
    /\ s1["key"] = None <=> s7["key"] = None
    /\ s1["key"] # None => /\ s7["key"] = s1["key"].text /\ s1["key"].under <= s3
                           /\ EnvKey => s1["key"].under = 0

Logged(map, log) == \A q \in Saves : map[q].at = "ok" <=> \E n \in DOMAIN log : log[n] = q

ProfileInv ==
    /\ ProfileTypes /\ SameAsStored /\ Logged(s4, s6)
    /\ \A q \in Saves : Recorded(q, s4[q], s1, s8)

LEMMA ProfileStarts ==
    ASSUME Profile!ProfileAssumption, Profile!ProfileInit
    PROVE  ProfileInv
<1>1. /\ s1 = [c \in Profile!Columns |-> None] /\ s7 = [c \in Profile!Columns |-> None]
      /\ s2 \in Passwords /\ s3 = 0 /\ s4 = [q \in Saves |-> [at |-> "new"]]
      /\ s5 = [from |-> "nothing", key |-> None, form |-> None] /\ s6 = <<>> /\ s8 = {}
    BY DEF Profile!ProfileInit, Profile!Empty
<1>2. s1 \in Profiles
    BY <1>1 DEF Profiles, Profile!Columns
<1>3. [at |-> "new"] \in SaveToCome
    BY DEF SaveToCome
<1>4. s4 \in [Saves -> SaveKinds] /\ \A q \in Saves : s4[q] = [at |-> "new"]
    BY <1>1, <1>3 DEF SaveKinds
<1>5. s5 \in [from : {"nothing", "fetch", "save"}, key : Keys \cup {None}, form : {None} \cup [key : Keys \cup {None}]]
    BY <1>1
<1>6. ProfileTypes
    BY <1>1, <1>2, <1>4, <1>5 DEF ProfileTypes
<1>7. SameAsStored
    BY <1>1 DEF SameAsStored, Profile!Columns
<1>8. \A q \in Saves : s4[q].at = "new"
    BY <1>4
<1>9. Logged(s4, s6)
    BY <1>1, <1>8 DEF Logged
<1>10. \A q \in Saves : Recorded(q, s4[q], s1, s8)
    BY <1>8 DEF Recorded, SaveRead, SaveWrote
<1> QED  BY <1>6, <1>7, <1>9, <1>10 DEF ProfileInv

(* One save goes on; the row, and what became of the others, stay.         *)
LEMMA SaveGoesOn ==
    ASSUME ProfileInv, NEW q \in Saves, NEW r \in SaveKinds,
           s4' = [s4 EXCEPT ![q] = r], s4[q].at # "ok", r.at # "ok",
           Recorded(q, r, s1, s8), UNCHANGED <<s1, s3, s6, s7, s8>>, s2' \in Passwords, s5' = s5
    PROVE  ProfileInv'
<1>1. s4' \in [Saves -> SaveKinds] /\ \A p \in Saves : s4'[p] = IF p = q THEN r ELSE s4[p]
    BY DEF ProfileInv, ProfileTypes
<1>2. ProfileTypes'
    BY <1>1 DEF ProfileInv, ProfileTypes
<1>3. SameAsStored'
    BY DEF ProfileInv, SameAsStored
<1>4. Logged(s4', s6)
    BY <1>1 DEF ProfileInv, Logged
<1>5. \A p \in Saves : Recorded(p, s4'[p], s1, s8)
    BY <1>1 DEF ProfileInv
<1> QED  BY <1>2, <1>3, <1>4, <1>5 DEF ProfileInv

(* What a request in each place is.                                        *)
LEMMA SavePlaces ==
    ASSUME NEW r \in SaveKinds
    PROVE  /\ r.at = "read" => r \in SaveSent
           /\ r.at = "write" => r \in SaveRead \/ r \in Password
           /\ r.at = "audit" => r \in SaveWrote \/ r \in Password
           /\ r \in SaveRead => r.tab \in Profile!Tabs
           /\ r \in Password => r.tab = "security"
           /\ r.tab \in Profile!Tabs /\ r.at = "write" => r \in SaveRead
           /\ r.tab = "security" /\ r.at = "write" => r \in Password
<1>1. "security" \notin Profile!Tabs
    BY DEF Profile!Tabs
<1> QED  BY <1>1 DEF SaveKinds, SaveToCome, SaveSent, SaveRead, SaveWrote, Password, Refused

(* The same record at another place.                                       *)
LEMMA SaveMoved ==
    ASSUME NEW r \in SaveKinds, NEW place
    PROVE  LET m == [r EXCEPT !.at = place]
           IN  /\ m.at = place
               /\ place = "error" /\ r.at # "new" => m \in SaveKinds
               /\ place = "audit" /\ r \in Password => m \in Password /\ m \in SaveKinds
               /\ place = "ok" /\ r.at = "audit" => m \in SaveKinds
               /\ m \in SaveWrote => r \in SaveWrote /\ m.old = r.old /\ m.new = r.new /\ Sent(m) = Sent(r)
BY DEF SaveKinds, SaveToCome, SaveSent, SaveRead, SaveWrote, Password, Refused, Sent

(* The page loads, opens the tab of the maps.                              *)
LEMMA ProfilePages ==
    ASSUME Profile!ProfileAssumption, ProfileInv,
           Profile!FetchProfile \/ \E k \in Keys \cup {None} : Profile!OpenMaps(k)
    PROVE  ProfileInv'
<1>1. UNCHANGED <<s1, s2, s3, s4, s6, s7, s8>>
    BY DEF Profile!FetchProfile, Profile!OpenMaps
<1>2. s5' \in [from : {"nothing", "fetch", "save"}, key : Keys \cup {None}, form : {None} \cup [key : Keys \cup {None}]]
    <2>1. CASE Profile!FetchProfile
        <3> DEFINE k == Profile!decrypt(s1["key"])
        <3>1. s1["key"] \in Cipher \cup {None}
            BY DEF ProfileInv, ProfileTypes, Profiles
        <3>2. k \in Keys \cup {None}
            BY <3>1 DEF Profile!decrypt, Cipher
        <3>3. s5' = [from |-> "fetch", key |-> k, form |-> None]
            BY <2>1 DEF Profile!FetchProfile
        <3> HIDE DEF k
        <3> QED  BY <3>2, <3>3
    <2>2. ASSUME NEW k \in Keys \cup {None}, Profile!OpenMaps(k)
          PROVE  s5' \in [from : {"nothing", "fetch", "save"}, key : Keys \cup {None},
                          form : {None} \cup [key : Keys \cup {None}]]
        <3> DEFINE f == [key |-> IF k = None THEN s5.key ELSE k]
        <3>1. f \in [key : Keys \cup {None}]
            BY DEF ProfileInv, ProfileTypes
        <3>2. s5' = [s5 EXCEPT !.form = f]
            BY <2>2 DEF Profile!OpenMaps
        <3> HIDE DEF f
        <3> QED  BY <3>1, <3>2 DEF ProfileInv, ProfileTypes
    <2> QED  BY <2>1, <2>2
<1>3. ProfileTypes'
    BY <1>1, <1>2 DEF ProfileInv, ProfileTypes
<1> QED  BY <1>1, <1>3 DEF ProfileInv, SameAsStored, Logged, Recorded

(* A tab is saved, a password compared: a request begins.                  *)
LEMMA ProfileBegins ==
    ASSUME Profile!ProfileAssumption, ProfileInv, NEW q \in Saves,
           \/ \E t \in Profile!Tabs, v \in Values : Profile!Save(q, t, v)
           \/ \E c, n \in Passwords : Profile!ReadPassword(q, c, n)
    PROVE  ProfileInv'
<1>1. CASE \E t \in Profile!Tabs, v \in Values : Profile!Save(q, t, v)
    <2>1. PICK t \in Profile!Tabs, v \in Values : Profile!Save(q, t, v)
        BY <1>1
    <2> DEFINE k == IF t = "maps" THEN s5.form.key ELSE None
               r == [at |-> "read", tab |-> t, value |-> v, key |-> k]
    <2>2. /\ s4' = [s4 EXCEPT ![q] = r] /\ s4[q].at = "new" /\ UNCHANGED <<s1, s2, s3, s5, s6, s7, s8>>
          /\ t = "maps" => s5.form # None
        BY <2>1 DEF Profile!Save, Profile!Become, Profile!At
    <2>3. k \in Keys \cup {None}
        BY <2>2 DEF ProfileInv, ProfileTypes
    <2> HIDE DEF k
    <2>4. r \in SaveSent /\ r.at = "read"
        BY <2>3 DEF SaveSent
    <2> HIDE DEF r
    <2>5. r \in SaveKinds
        BY <2>4 DEF SaveKinds
    <2>6. Recorded(q, r, s1, s8)
        BY <2>4 DEF Recorded, SaveRead, SaveWrote
    <2>7. s2' \in Passwords
        BY <2>2 DEF ProfileInv, ProfileTypes
    <2> QED  BY <2>2, <2>4, <2>5, <2>6, <2>7, SaveGoesOn
<1>2. ASSUME NEW c \in Passwords, NEW n \in Passwords, Profile!ReadPassword(q, c, n)
      PROVE  ProfileInv'
    <2> DEFINE a == [at |-> "write", tab |-> "security", password |-> n]
               b == [at |-> "error", tab |-> "security"]
    <2>1. /\ s4' = [s4 EXCEPT ![q] = a] \/ s4' = [s4 EXCEPT ![q] = b]
          /\ s4[q].at = "new" /\ UNCHANGED <<s1, s2, s3, s5, s6, s7, s8>>
        BY <1>2 DEF Profile!ReadPassword, Profile!Become, Profile!At
    <2>2. a \in Password /\ a.at = "write" /\ a.tab = "security"
        BY DEF Password
    <2>3. b \in Refused /\ b.at = "error" /\ b.tab = "security"
        BY DEF Refused
    <2> HIDE DEF a, b
    <2>4. a \in SaveKinds /\ b \in SaveKinds
        BY <2>2, <2>3 DEF SaveKinds
    <2>5. Recorded(q, a, s1, s8) /\ Recorded(q, b, s1, s8)
        <3>1. "security" \notin Profile!Tabs
            BY DEF Profile!Tabs
        <3> QED  BY <2>2, <2>3, <3>1 DEF Recorded, SaveRead, SaveWrote
    <2>6. s2' \in Passwords
        BY <2>1 DEF ProfileInv, ProfileTypes
    <2> QED  BY <2>1, <2>2, <2>3, <2>4, <2>5, <2>6, SaveGoesOn
<1> QED  BY <1>1, <1>2

(* The row is read; an empty key is refused; the password is written; a    *)
(* save fails at its entry.                                                *)
LEMMA ProfileGoesOn ==
    ASSUME Profile!ProfileAssumption, ProfileInv, NEW q \in Saves,
           Profile!ReadOld(q) \/ Profile!RefuseEmptyKey(q) \/ Profile!AuditFails(q) \/ Profile!WritePassword(q)
    PROVE  ProfileInv'
<1> DEFINE r == s4[q]
<1>1. r \in SaveKinds /\ Recorded(q, r, s1, s8)
    BY DEF ProfileInv, ProfileTypes
<1>2. CASE Profile!ReadOld(q)
    <2> DEFINE w == [at |-> "write", tab |-> r.tab, value |-> r.value, key |-> r.key, old |-> s1]
    <2>1. /\ s4' = [s4 EXCEPT ![q] = w] /\ s4[q].at = "read" /\ UNCHANGED <<s1, s2, s3, s5, s6, s7, s8>>
        BY <1>2 DEF Profile!ReadOld, Profile!Become, Profile!At
    <2>2. r \in SaveSent
        BY <1>1, <2>1, SavePlaces
    <2>3. r.tab \in Profile!Tabs /\ r.value \in Values /\ r.key \in Keys \cup {None} /\ s1 \in Profiles
        BY <2>2 DEF SaveSent, ProfileInv, ProfileTypes
    <2>4. w \in SaveRead /\ w.at = "write" /\ w.old = s1
        BY <2>3 DEF SaveRead
    <2> HIDE DEF w
    <2>5. w \in SaveKinds
        BY <2>4 DEF SaveKinds
    <2>6. Recorded(q, w, s1, s8)
        BY <2>4 DEF Recorded, SaveWrote
    <2>7. s2' \in Passwords
        BY <2>1 DEF ProfileInv, ProfileTypes
    <2> QED  BY <2>1, <2>4, <2>5, <2>6, <2>7, SaveGoesOn
<1>3. CASE Profile!RefuseEmptyKey(q) \/ Profile!AuditFails(q) \/ Profile!WritePassword(q)
    <2>1. PICK place \in {"audit", "error"} :
              /\ s4' = [s4 EXCEPT ![q].at = place] /\ UNCHANGED <<s1, s3, s5, s6, s7, s8>>
              /\ s4[q].at \in {"write", "audit"} /\ s2' \in Passwords
              /\ place = "audit" => r \in Password
        <3>1. CASE Profile!RefuseEmptyKey(q)
            BY <3>1 DEF Profile!RefuseEmptyKey, Profile!Go, Profile!At, ProfileInv, ProfileTypes
        <3>2. CASE Profile!AuditFails(q)
            BY <3>2 DEF Profile!AuditFails, Profile!Go, Profile!At, ProfileInv, ProfileTypes
        <3>3. CASE Profile!WritePassword(q)
            <4>1. r \in Password
                BY <1>1, <3>3, SavePlaces DEF Profile!WritePassword, Profile!At
            <4>2. r.password \in Passwords
                BY <4>1 DEF Password
            <4> QED  BY <3>3, <4>1, <4>2 DEF Profile!WritePassword, Profile!Go, Profile!At
        <3> QED  BY <1>3, <3>1, <3>2, <3>3
    <2> DEFINE m == [r EXCEPT !.at = place]
    <2>2. s4' = [s4 EXCEPT ![q] = m]
        BY <2>1
    <2>3. /\ m.at = place /\ m \in SaveKinds
          /\ m \in SaveWrote => r \in SaveWrote /\ m.old = r.old /\ m.new = r.new /\ Sent(m) = Sent(r)
        BY <1>1, <2>1, SaveMoved
    <2>4. s4[q].at # "ok" /\ place # "ok" /\ place # "write"
        BY <2>1
    <2> HIDE DEF m
    <2>5. Recorded(q, m, s1, s8)
        BY <1>1, <2>3, <2>4 DEF Recorded
    <2> QED  BY <2>1, <2>2, <2>3, <2>4, <2>5, SaveGoesOn
<1> QED  BY <1>2, <1>3

(* The entry of a save that was written.                                   *)
LEMMA ProfileLogs ==
    ASSUME Profile!ProfileAssumption, ProfileInv, NEW q \in Saves, Profile!createAuditLog(q)
    PROVE  ProfileInv'
<1> DEFINE r == s4[q]
           m == [r EXCEPT !.at = "ok"]
           saved == [s5 EXCEPT !.from = "save", !.key = None]
<1>1. /\ s4[q].at = "audit" /\ s6' = Append(s6, q) /\ s4' = [s4 EXCEPT ![q].at = "ok"]
      /\ s5' = s5 \/ s5' = saved
      /\ UNCHANGED <<s1, s2, s3, s7, s8>>
    BY DEF Profile!createAuditLog, Profile!At, Profile!Go
<1>2. r \in SaveKinds /\ Recorded(q, r, s1, s8)
    BY DEF ProfileInv, ProfileTypes
<1>3. s4' = [s4 EXCEPT ![q] = m]
    BY <1>1
<1>4. /\ m.at = "ok" /\ m \in SaveKinds
      /\ m \in SaveWrote => r \in SaveWrote /\ m.old = r.old /\ m.new = r.new /\ Sent(m) = Sent(r)
    BY <1>1, <1>2, SaveMoved
<1> HIDE DEF m
<1>5. Recorded(q, m, s1, s8)
    BY <1>2, <1>4 DEF Recorded
<1>6. s4' \in [Saves -> SaveKinds] /\ \A p \in Saves : s4'[p] = IF p = q THEN m ELSE s4[p]
    BY <1>3, <1>4 DEF ProfileInv, ProfileTypes
<1>7. s6' \in Seq(Saves) /\ \A p : (\E n \in DOMAIN s6' : s6'[n] = p) <=> p = q \/ \E n \in DOMAIN s6 : s6[n] = p
    <2>1. s6 \in Seq(Saves)
        BY DEF ProfileInv, ProfileTypes
    <2>2. s6' \in Seq(Saves) /\ Len(s6) \in Nat /\ Len(s6') = Len(s6) + 1
        BY <1>1, <2>1
    <2>3. s6'[Len(s6) + 1] = q /\ \A n \in 1..Len(s6) : s6'[n] = s6[n]
        BY <1>1, <2>1
    <2>4. DOMAIN s6 = 1..Len(s6) /\ DOMAIN s6' = 1..(Len(s6) + 1)
        BY <2>1, <2>2
    <2>5. ASSUME NEW p, NEW n \in DOMAIN s6', s6'[n] = p
          PROVE  p = q \/ \E i \in DOMAIN s6 : s6[i] = p
        <3>1. CASE n = Len(s6) + 1
            BY <2>3, <2>5, <3>1
        <3>2. CASE n # Len(s6) + 1
            <4>1. n \in 1..Len(s6)
                BY <2>2, <2>4, <3>2
            <4> QED  BY <2>3, <2>4, <2>5, <4>1
        <3> QED  BY <3>1, <3>2
    <2>6. \A n \in 1..Len(s6) : n \in 1..(Len(s6) + 1)
        BY <2>2
    <2>7. Len(s6) + 1 \in 1..(Len(s6) + 1)
        BY <2>2
    <2>8. ASSUME NEW p, p = q \/ \E i \in DOMAIN s6 : s6[i] = p
          PROVE  \E n \in DOMAIN s6' : s6'[n] = p
        BY <2>3, <2>4, <2>6, <2>7, <2>8
    <2> QED  BY <2>2, <2>5, <2>8
<1>8. s5' \in [from : {"nothing", "fetch", "save"}, key : Keys \cup {None}, form : {None} \cup [key : Keys \cup {None}]]
    BY <1>1 DEF ProfileInv, ProfileTypes
<1>9. ProfileTypes'
    BY <1>1, <1>6, <1>7, <1>8 DEF ProfileInv, ProfileTypes
<1>10. Logged(s4', s6')
    BY <1>4, <1>6, <1>7 DEF ProfileInv, Logged
<1>11. \A p \in Saves : Recorded(p, s4'[p], s1, s8)
    BY <1>5, <1>6 DEF ProfileInv
<1>12. SameAsStored'
    BY <1>1 DEF ProfileInv, SameAsStored
<1> QED  BY <1>1, <1>9, <1>10, <1>11, <1>12 DEF ProfileInv

(* The process starts anew: what was under way has failed.                 *)
LEMMA ProfileRestarts ==
    ASSUME Profile!ProfileAssumption, ProfileInv, Profile!Restart
    PROVE  ProfileInv'
<1>1. /\ s3' = s3 + 1 /\ UNCHANGED <<s1, s2, s5, s6, s7, s8>>
      /\ s4' = [q \in Saves |-> IF s4[q].at \in {"new", "ok"} THEN s4[q] ELSE [s4[q] EXCEPT !.at = "error"]]
    BY DEF Profile!Restart
<1>2. s3 \in Nat /\ s3' \in Nat
    BY <1>1 DEF ProfileInv, ProfileTypes
<1>3. ASSUME NEW q \in Saves
      PROVE  /\ s4'[q] \in SaveKinds /\ (s4'[q].at = "ok" <=> s4[q].at = "ok")
             /\ Recorded(q, s4'[q], s1, s8)
    <2> DEFINE r == s4[q]
               m == [r EXCEPT !.at = "error"]
    <2>1. r \in SaveKinds /\ Recorded(q, r, s1, s8)
        BY DEF ProfileInv, ProfileTypes
    <2>2. CASE r.at \in {"new", "ok"}
        BY <1>1, <2>1, <2>2
    <2>3. CASE r.at \notin {"new", "ok"}
        <3>1. s4'[q] = m
            BY <1>1, <2>3
        <3>2. /\ m.at = "error" /\ m \in SaveKinds
              /\ m \in SaveWrote => r \in SaveWrote /\ m.old = r.old /\ m.new = r.new /\ Sent(m) = Sent(r)
            BY <2>1, <2>3, SaveMoved
        <3> HIDE DEF m
        <3>3. Recorded(q, m, s1, s8)
            BY <2>1, <3>2 DEF Recorded
        <3> QED  BY <2>3, <3>1, <3>2, <3>3
    <2> QED  BY <2>2, <2>3
<1>4. s4' \in [Saves -> SaveKinds]
    BY <1>1, <1>3
<1>5. ProfileTypes'
    BY <1>1, <1>2, <1>4 DEF ProfileInv, ProfileTypes
<1>6. SameAsStored'
    <2>1. s1["key"] # None => s1["key"].under \in Nat
        BY DEF ProfileInv, ProfileTypes, Profiles, Cipher
    <2> QED  BY <1>1, <1>2, <2>1 DEF ProfileInv, SameAsStored
<1>7. Logged(s4', s6)
    BY <1>3 DEF ProfileInv, Logged
<1> QED  BY <1>1, <1>3, <1>5, <1>6, <1>7 DEF ProfileInv

(* What a save writes: its own columns, an encrypted key.                  *)
LEMMA WrittenIs ==
    ASSUME Profile!ProfileAssumption, ProfileInv, NEW r \in SaveRead, r.at = "write", ~(r.tab = "maps" /\ r.key = None)
    PROVE  /\ DOMAIN Profile!Written(r, FALSE) = Sent(r) /\ DOMAIN Profile!Written(r, TRUE) = Sent(r)
           /\ Sent(r) \subseteq Profile!Columns
           /\ \A c \in Sent(r) \ {"key"} :
                 /\ Profile!Written(r, FALSE)[c] = r.value /\ Profile!Written(r, TRUE)[c] = r.value
           /\ "key" \in Sent(r) => /\ Profile!Written(r, FALSE)["key"] = Profile!encrypt(r.key)
                                   /\ Profile!Written(r, TRUE)["key"] = r.key /\ r.key \in Keys
           /\ r.value \in Values
<1>1. r.tab \in Profile!Tabs /\ r.value \in Values /\ r.key \in Keys \cup {None}
    BY DEF SaveRead
<1>2. CASE r.tab = "maps"
    <2>1. Sent(r) = {"zoom", "key"}
        BY <1>2 DEF Sent
    <2>2. ASSUME NEW b \in BOOLEAN
          PROVE  Profile!Written(r, b) = [c \in {"zoom", "key"} |->
                     IF c = "zoom" THEN r.value ELSE IF b THEN r.key ELSE Profile!encrypt(r.key)]
        BY <1>2 DEF Profile!Written
    <2>3. ASSUME NEW b \in BOOLEAN
          PROVE  /\ DOMAIN Profile!Written(r, b) = {"zoom", "key"}
                 /\ Profile!Written(r, b)["zoom"] = r.value
                 /\ Profile!Written(r, b)["key"] = IF b THEN r.key ELSE Profile!encrypt(r.key)
        BY <2>2
    <2> QED  BY <1>1, <1>2, <2>1, <2>3 DEF Profile!Columns
<1>3. CASE r.tab # "maps"
    <2>1. Sent(r) = {r.tab} /\ r.tab \in Profile!Columns \ {"key"}
        BY <1>1, <1>3 DEF Sent, Profile!Tabs, Profile!Columns
    <2>2. ASSUME NEW b \in BOOLEAN
          PROVE  Profile!Written(r, b) = [c \in {r.tab} |-> r.value]
        BY <1>3 DEF Profile!Written
    <2>3. ASSUME NEW b \in BOOLEAN
          PROVE  DOMAIN Profile!Written(r, b) = {r.tab} /\ Profile!Written(r, b)[r.tab] = r.value
        BY <2>2
    <2> QED  BY <1>1, <2>1, <2>3
<1> QED  BY <1>2, <1>3

(* The columns sent are written, and nothing else.                         *)
LEMMA ProfileWrites ==
    ASSUME Profile!ProfileAssumption, ProfileInv, NEW q \in Saves,
           s4[q].tab \in Profile!Tabs, Profile!upsertProfile(q)
    PROVE  ProfileInv'
<1> DEFINE r == s4[q]
           w == [at |-> "audit", tab |-> r.tab, value |-> r.value, key |-> r.key, old |-> r.old, new |-> s1']
           plain == Profile!Written(r, FALSE)
           clear == Profile!Written(r, TRUE)
<1>1. /\ r.at = "write" /\ ~(r.tab = "maps" /\ r.key = None)
      /\ s1' = [c \in Profile!Columns |-> IF c \in DOMAIN plain THEN plain[c] ELSE s1[c]]
      /\ s7' = [c \in Profile!Columns |-> IF c \in DOMAIN clear THEN clear[c] ELSE s7[c]]
      /\ s8' = s8 \cup {p \in Saves \ {q} : s4[p].at = "write"}
      /\ s4' = [s4 EXCEPT ![q] = w]
      /\ UNCHANGED <<s2, s3, s5, s6>>
    BY DEF Profile!upsertProfile, Profile!At, Profile!Fails, Profile!Upsert, Profile!Over, Profile!Become
<1>2. r \in SaveKinds /\ Recorded(q, r, s1, s8) /\ s3 \in Nat /\ s1 \in Profiles
    BY DEF ProfileInv, ProfileTypes
<1>3. r \in SaveRead
    BY <1>1, <1>2, SavePlaces
<1>4. /\ DOMAIN plain = Sent(r) /\ DOMAIN clear = Sent(r) /\ Sent(r) \subseteq Profile!Columns
      /\ \A c \in Sent(r) \ {"key"} : plain[c] = r.value /\ clear[c] = r.value
      /\ "key" \in Sent(r) => plain["key"] = Profile!encrypt(r.key) /\ clear["key"] = r.key /\ r.key \in Keys
      /\ r.value \in Values
    BY <1>1, <1>3, WrittenIs
<1>5. "key" \in Profile!Columns
    BY DEF Profile!Columns
<1> HIDE DEF plain, clear
<1>6. /\ "key" \in Sent(r) => Profile!encrypt(r.key) \in Cipher
      /\ Profile!encrypt(r.key).text = r.key
      /\ "key" \in Sent(r) => Profile!encrypt(r.key).under <= s3 /\ (EnvKey => Profile!encrypt(r.key).under = 0)
    <2> DEFINE u == Profile!Under
    <2>1. u \in Nat /\ u <= s3 /\ (EnvKey => u = 0)
        BY <1>2 DEF Profile!Under
    <2>2. Profile!encrypt(r.key) = [text |-> r.key, under |-> u]
        BY DEF Profile!encrypt
    <2> HIDE DEF u, r
    <2>3. \A k \in Keys : [text |-> k, under |-> u] \in Cipher
        BY <2>1 DEF Cipher
    <2>4. Profile!encrypt(r.key).text = r.key /\ Profile!encrypt(r.key).under = u
        BY <2>2
    <2> QED  BY <1>4, <2>1, <2>2, <2>3, <2>4
<1>7. /\ \A c \in Profile!Columns \ {"key"} : s1'[c] = IF c \in Sent(r) THEN r.value ELSE s1[c]
      /\ \A c \in Profile!Columns \ {"key"} : s7'[c] = IF c \in Sent(r) THEN r.value ELSE s7[c]
      /\ s1'["key"] = IF "key" \in Sent(r) THEN Profile!encrypt(r.key) ELSE s1["key"]
      /\ s7'["key"] = IF "key" \in Sent(r) THEN r.key ELSE s7["key"]
      /\ \A c \in Profile!Columns \ Sent(r) : s1'[c] = s1[c]
    BY <1>1, <1>4, <1>5
<1>8. s1' \in Profiles
    <2>1. \A c \in Profile!Columns \ {"key"} : s1'[c] \in Values \cup {None}
        BY <1>2, <1>4, <1>7 DEF Profiles
    <2>2. s1'["key"] \in Cipher \cup {None}
        BY <1>2, <1>6, <1>7 DEF Profiles
    <2>3. s1' \in [Profile!Columns -> Values \cup {None} \cup Cipher]
        BY <1>1, <2>1, <2>2
    <2> QED  BY <2>1, <2>2, <2>3 DEF Profiles
<1>9. w \in SaveWrote /\ w.at = "audit" /\ w.old = r.old /\ w.new = s1' /\ w.tab = r.tab
    BY <1>3, <1>8 DEF SaveRead, SaveWrote
<1>10. Sent(w) = Sent(r)
    BY <1>9 DEF Sent
<1> HIDE DEF r, w
<1>11. s4' \in [Saves -> SaveKinds] /\ \A p \in Saves : s4'[p] = IF p = q THEN w ELSE s4[p]
    BY <1>1, <1>9 DEF ProfileInv, ProfileTypes, SaveKinds
<1>12. ProfileTypes'
    BY <1>1, <1>8, <1>11 DEF ProfileInv, ProfileTypes
<1>13. SameAsStored'
    <2>1. \A c \in Profile!Columns \ {"key"} : s1'[c] = s7'[c]
        BY <1>7 DEF ProfileInv, SameAsStored
    <2>2. CASE "key" \in Sent(r)
        <3>1. r.key # None /\ Profile!encrypt(r.key) # None
            BY <1>4, <1>6, <2>2 DEF Profile!ProfileAssumption, Cipher
        <3> QED  BY <1>1, <1>6, <1>7, <2>1, <2>2, <3>1 DEF SameAsStored
    <2>3. CASE "key" \notin Sent(r)
        <3>1. s1'["key"] = s1["key"] /\ s7'["key"] = s7["key"]
            BY <1>7, <2>3
        <3> QED  BY <1>1, <2>1, <3>1 DEF ProfileInv, SameAsStored
    <2> QED  BY <2>2, <2>3
<1>14. Logged(s4', s6)
    BY <1>1, <1>9, <1>11 DEF ProfileInv, Logged, r
<1>15. ASSUME NEW p \in Saves
       PROVE  Recorded(p, s4'[p], s1', s8')
    <2>1. CASE p = q
        <3>1. s4'[p] = w
            BY <1>11, <2>1
        <3>2. q \notin s8' => q \notin s8
            BY <1>1
        <3>3. q \notin s8 => r.old = s1
            BY <1>1, <1>2, <1>3 DEF Recorded
        <3>4. q \notin s8 => \A c \in Profile!Columns : w.new[c] # w.old[c] => c \in Sent(w)
            BY <1>7, <1>9, <1>10, <3>3
        <3> QED  BY <1>9, <2>1, <3>1, <3>2, <3>4 DEF Recorded
    <2>2. CASE p # q
        <3>1. s4'[p] = s4[p] /\ Recorded(p, s4[p], s1, s8)
            BY <1>11, <2>2 DEF ProfileInv
        <3>2. s4[p].at = "write" => p \in s8'
            BY <1>1, <2>2
        <3>3. p \notin s8' => p \notin s8
            BY <1>1
        <3> QED  BY <3>1, <3>2, <3>3 DEF Recorded
    <2> QED  BY <2>1, <2>2
<1> QED  BY <1>1, <1>12, <1>13, <1>14, <1>15 DEF ProfileInv

LEMMA ProfileMoves ==
    ASSUME Profile!ProfileAssumption, ProfileInv, Profile!ProfileNext
    PROVE  ProfileInv'
BY ProfilePages, ProfileBegins, ProfileGoesOn, ProfileLogs, ProfileRestarts, ProfileWrites DEF Profile!ProfileNext

LEMMA ProfileAsPromised ==
    ASSUME Profile!ProfileAssumption, ProfileInv
    PROVE  Profile!ProfileHolds /\ Profile!ProfileTypeOK
<1>1. Profile!NothingIsLost
    <2>1. s1["key"] \in Cipher \cup {None}
        BY DEF ProfileInv, ProfileTypes, Profiles
    <2>2. ASSUME s1["key"] # None
          PROVE  IF EnvKey \/ s1["key"].under = s3 THEN Profile!decrypt(s1["key"]) = s7["key"]
                 ELSE Profile!decrypt(s1["key"]) = None
        BY <2>2 DEF ProfileInv, SameAsStored, Profile!decrypt, Profile!Under
    <2> QED  BY <2>2 DEF ProfileInv, SameAsStored, Profile!NothingIsLost
<1>2. \A q \in Saves : Profile!At(q, "ok") <=> \E n \in DOMAIN s6 : s6[n] = q
    BY DEF ProfileInv, Logged, Profile!At
<1>3. ASSUME NEW q \in Saves \ s8, "new" \in DOMAIN s4[q], "old" \in DOMAIN s4[q]
      PROVE  \A c \in Profile!Columns :
                 s4[q].new[c] # s4[q].old[c] => c \in DOMAIN Profile!Written(s4[q], FALSE)
    <2>1. s4[q] \in SaveKinds /\ Recorded(q, s4[q], s1, s8)
        BY DEF ProfileInv, ProfileTypes
    <2>2. s4[q] \in SaveWrote
        BY <1>3, <2>1 DEF SaveKinds, SaveToCome, SaveSent, SaveRead, SaveWrote, Password, Refused
    <2>3. DOMAIN Profile!Written(s4[q], FALSE) = Sent(s4[q])
        BY DEF Profile!Written, Sent
    <2> QED  BY <2>1, <2>2, <2>3 DEF Recorded
<1>4. Profile!ProfileTypeOK
    <2>1. /\ \A c \in Profile!Columns \ {"key"} : s1[c] \in Values \cup {None}
          /\ s1["key"] # None => s1["key"] \in Cipher
        BY DEF ProfileInv, ProfileTypes, Profiles
    <2>2. s1["key"] # None => s1["key"].text \in Keys /\ s1["key"].under \in 0..s3
        BY <2>1 DEF Cipher, ProfileInv, ProfileTypes, SameAsStored
    <2>3. \A q \in Saves : s4[q].at \in {"new", "read", "write", "audit", "ok", "error"}
        BY DEF ProfileInv, ProfileTypes, SaveKinds, SaveToCome, SaveSent, SaveRead, SaveWrote, Password, Refused
    <2>4. s5.from \in {"nothing", "fetch", "save"}
        BY DEF ProfileInv, ProfileTypes
    <2> QED  BY <2>1, <2>2, <2>3, <2>4 DEF ProfileInv, ProfileTypes, Profile!ProfileTypeOK
<1> QED  BY <1>1, <1>2, <1>3, <1>4 DEF Profile!ProfileHolds, Profile!LogIsTrue

-----------------------------------------------------------------------------
(* Addresses of places.  A request at the API is of a browser that waits,  *)
(* or of none any more; its answer is the place's or nothing.              *)
AtRest == [at : {"idle"}]
Looking == [at : {"redis", "fetch", "store"}, by : Browsers \cup {None}, place : Places]
Sleeping == [at : {"sleep"}, by : Browsers \cup {None}, place : Places, until : Nat, after : Nat]
Answering == [at : {"answer"}, by : Browsers \cup {None}, place : Places, text : Places \cup {None}]
Lookups == AtRest \cup Looking \cup Sleeping \cup Answering
Address == Places \X (Places \cup {"Unknown Location"})

Nominatim == [time : Nat, after : Nat]

GeoTypes ==
    /\ s1 \in 0..LastTime
    /\ s2 \in [Browsers -> Seq(Address)] /\ \A b \in Browsers : Len(s2[b]) <= CacheMax
    /\ s3 \in [Browsers -> [Places -> Nat \cup {None}]]
    /\ s4 \in Seq(Address) /\ Len(s4) <= CacheMax
    /\ s5 \in SUBSET Places
    /\ s6 \in [Handlers -> Lookups]
    /\ s7 \in Nat /\ s7 <= s1
    /\ s8 \in Seq(Nominatim)

(* An entry of a browser is the address of its place, or what an answer    *)
(* without an address left.                                                *)
Honest(b, e, without) == e[2] = e[1] \/ (e[2] = "Unknown Location" /\ <<b, e[1]>> \in without)

(* A request answers of its place or with nothing; it sleeps until a second*)
(* is over after every call that there was when it looked at the clock.    *)
Lawful(r, list) ==
    /\ r.at = "answer" => r.text = None \/ r.text = r.place
    /\ r.at = "sleep" => /\ r.after <= Len(list)
                         /\ \A m \in 1..r.after : list[m].time + Gap <= r.until
Waits(r, b, p) == r.at # "idle" /\ r.by = b /\ r.place = p

(* Each waiting is of one request at most, and of a place not known yet.   *)
OneWaits(map, waiting) ==
    \A b \in Browsers, p \in Places :
        /\ \A g, h \in Handlers : Waits(map[g], b, p) /\ Waits(map[h], b, p) => g = h
        /\ \A h \in Handlers : Waits(map[h], b, p) => waiting[b][p] # None

Spaced(list) ==
    \A n \in DOMAIN list : /\ list[n].after < n
                           /\ \A m \in 1..list[n].after : list[n].time - list[m].time >= Gap

GeoInv ==
    /\ GeoTypes
    /\ \A n \in DOMAIN s4 : s4[n][2] = s4[n][1]
    /\ \A b \in Browsers : \A n \in DOMAIN s2[b] : Honest(b, s2[b][n], s9)
    /\ \A h \in Handlers : Lawful(s6[h], s8)
    /\ OneWaits(s6, s3)
    /\ \A b \in Browsers, p \in Places : s3[b][p] # None => \A n \in DOMAIN s2[b] : s2[b][n][1] # p
    /\ Spaced(s8) /\ \A n \in DOMAIN s8 : s8[n].time <= s7

LEMMA GeoFacts ==
    ASSUME Geo!GeocodeAssumption
    PROVE  /\ Gap \in Nat /\ Gap > 0 /\ Patience \in Nat /\ CacheMax \in Nat /\ CacheMax > 0
           /\ LastTime \in Nat /\ Gap <= LastTime /\ Calls \in Nat
           /\ None \notin Places /\ None \notin Browsers /\ None \notin Nat
BY DEF Geo!GeocodeAssumption

LEMMA GeoStarts ==
    ASSUME Geo!GeocodeAssumption, Geo!GeoInit
    PROVE  GeoInv
<1>1. /\ s1 = Gap /\ s7 = 0 /\ s2 = [b \in Browsers |-> <<>>]
      /\ s3 = [b \in Browsers |-> [p \in Places |-> None]] /\ s4 = <<>> /\ s5 \in SUBSET Places
      /\ s6 = [h \in Handlers |-> [at |-> "idle"]] /\ s8 = <<>> /\ s9 = {}
    BY DEF Geo!GeoInit, Geo!Idle
<1>2. [at |-> "idle"] \in AtRest
    BY DEF AtRest
<1>3. s6 \in [Handlers -> Lookups] /\ \A h \in Handlers : s6[h].at = "idle"
    BY <1>1, <1>2 DEF Lookups
<1>4. s3 \in [Browsers -> [Places -> Nat \cup {None}]]
    BY <1>1
<1>5. GeoTypes
    BY <1>1, <1>3, <1>4, GeoFacts DEF GeoTypes
<1> QED  BY <1>1, <1>3, <1>5 DEF GeoInv, Lawful, OneWaits, Waits, Spaced

(* What a request in each place is.                                        *)
LEMMA LookupPlaces ==
    ASSUME NEW r \in Lookups
    PROVE  /\ r.at = "idle" <=> r = [at |-> "idle"]
           /\ r.at \in {"redis", "fetch", "store"} => r \in Looking
           /\ r.at = "sleep" => r \in Sleeping
           /\ r.at = "answer" => r \in Answering
           /\ r.at # "idle" => r.by \in Browsers \cup {None} /\ r.place \in Places
           /\ r.at \in {"idle", "redis", "fetch", "store", "sleep", "answer"}
<1>1. \A x \in AtRest : x = [at |-> "idle"]
    BY DEF AtRest
<1> QED  BY <1>1 DEF Lookups, AtRest, Looking, Sleeping, Answering

(* Sequences: without the first, with one more, without one.               *)
LEMMA FirstGone ==
    ASSUME NEW S, NEW s \in Seq(S), Len(s) > 0
    PROVE  /\ Tail(s) \in Seq(S) /\ Len(Tail(s)) = Len(s) - 1
           /\ \A n \in 1..(Len(s) - 1) : n + 1 \in 1..Len(s) /\ Tail(s)[n] = s[n + 1]
OBVIOUS

LEMMA OneMore ==
    ASSUME NEW S, NEW s \in Seq(S), NEW e \in S
    PROVE  /\ Append(s, e) \in Seq(S) /\ Len(Append(s, e)) = Len(s) + 1
           /\ Append(s, e)[Len(s) + 1] = e
           /\ \A n \in 1..Len(s) : Append(s, e)[n] = s[n]
OBVIOUS

LEMMA Joined ==
    ASSUME NEW S, NEW a \in Seq(S), NEW b \in Seq(S)
    PROVE  /\ a \o b \in Seq(S) /\ Len(a \o b) = Len(a) + Len(b)
           /\ \A n \in 1..(Len(a) + Len(b)) : (a \o b)[n] = IF n <= Len(a) THEN a[n] ELSE b[n - Len(a)]
OBVIOUS

LEMMA OneGone ==
    ASSUME NEW S, NEW s \in Seq(S), NEW i \in 1..Len(s)
    PROVE  LET left == SubSeq(s, 1, i - 1) \o SubSeq(s, i + 1, Len(s))
           IN  /\ left \in Seq(S) /\ Len(left) = Len(s) - 1
               /\ \A n \in 1..(Len(s) - 1) : \E m \in 1..Len(s) : left[n] = s[m]
<1> DEFINE first == SubSeq(s, 1, i - 1)
           rest == SubSeq(s, i + 1, Len(s))
           left == first \o rest
<1>0. Len(s) \in Nat /\ i \in Nat
    OBVIOUS
<1>1. /\ first \in Seq(S) /\ Len(first) = i - 1
      /\ \A n \in 1..(i - 1) : first[n] = s[n] /\ n \in 1..Len(s)
    OBVIOUS
<1>2. /\ rest \in Seq(S) /\ Len(rest) = Len(s) - i
      /\ \A n \in 1..(Len(s) - i) : rest[n] = s[n + i] /\ n + i \in 1..Len(s)
    OBVIOUS
<1> HIDE DEF first, rest
<1>3. left \in Seq(S) /\ Len(left) = Len(first) + Len(rest)
    BY <1>1, <1>2, Joined
<1>4. \A n \in 1..(Len(first) + Len(rest)) : left[n] = IF n <= Len(first) THEN first[n] ELSE rest[n - Len(first)]
    BY <1>1, <1>2, Joined
<1> HIDE DEF left
<1>5. ASSUME NEW n \in 1..(Len(s) - 1)
      PROVE  \E m \in 1..Len(s) : left[n] = s[m]
    <2>1. CASE n <= Len(first)
        <3>1. n \in 1..(i - 1) /\ n \in 1..(Len(first) + Len(rest))
            BY <1>0, <1>1, <1>2, <2>1
        <3> QED  BY <1>1, <1>4, <2>1, <3>1
    <2>2. CASE ~(n <= Len(first))
        <3>1. n - Len(first) \in 1..(Len(s) - i) /\ n \in 1..(Len(first) + Len(rest))
            BY <1>0, <1>1, <1>2, <2>2
        <3> QED  BY <1>2, <1>4, <2>2, <3>1
    <2> QED  BY <2>1, <2>2
<1>6. left \in Seq(S) /\ Len(left) = Len(s) - 1
    BY <1>0, <1>1, <1>2, <1>3
<1> QED  BY <1>5, <1>6 DEF left, first, rest

LEMMA SomeReplaced ==
    ASSUME NEW S, NEW s \in Seq(S), NEW new \in [1..Len(s) -> S]
    PROVE  new \in Seq(S) /\ Len(new) = Len(s)
OBVIOUS

(* A full map loses its oldest entry.                                      *)
LEMMA RoomMade ==
    ASSUME Geo!GeocodeAssumption, NEW S, NEW cache \in Seq(S), Len(cache) <= CacheMax
    PROVE  LET c == IF Len(cache) >= CacheMax THEN Tail(cache) ELSE cache
           IN  /\ c \in Seq(S) /\ Len(c) < CacheMax
               /\ \A n \in 1..Len(c) : \E m \in 1..Len(cache) : c[n] = cache[m]
<1> DEFINE c == IF Len(cache) >= CacheMax THEN Tail(cache) ELSE cache
<1>1. Len(cache) \in Nat /\ CacheMax \in Nat /\ CacheMax > 0
    BY GeoFacts
<1>2. CASE Len(cache) >= CacheMax
    <2>1. c = Tail(cache) /\ Len(cache) > 0
        BY <1>1, <1>2
    <2>2. /\ Tail(cache) \in Seq(S) /\ Len(Tail(cache)) = Len(cache) - 1
          /\ \A n \in 1..(Len(cache) - 1) : n + 1 \in 1..Len(cache) /\ Tail(cache)[n] = cache[n + 1]
        BY <2>1, FirstGone
    <2> HIDE DEF c
    <2>3. c \in Seq(S) /\ Len(c) < CacheMax
        BY <1>1, <2>1, <2>2
    <2>4. \A n \in 1..Len(c) : \E m \in 1..Len(cache) : c[n] = cache[m]
        BY <1>1, <2>1, <2>2
    <2> QED  BY <2>3, <2>4 DEF c
<1>3. CASE Len(cache) < CacheMax
    <2>1. c = cache
        BY <1>1, <1>3
    <2> HIDE DEF c
    <2> QED  BY <1>3, <2>1 DEF c
<1> QED  BY <1>1, <1>2, <1>3

(* Map.set: the entry is there, the others stay, and the map is no longer  *)
(* than it may be.                                                         *)
LEMMA CacheSetIs ==
    ASSUME Geo!GeocodeAssumption, NEW S, NEW cache \in Seq(S), Len(cache) <= CacheMax,
           NEW p, NEW text, <<p, text>> \in S
    PROVE  LET new == Geo!CacheSet(cache, p, text)
           IN  /\ new \in Seq(S) /\ Len(new) <= CacheMax
               /\ \A n \in DOMAIN new : new[n] = <<p, text>> \/ \E m \in DOMAIN cache : new[n] = cache[m]
<1> DEFINE c == IF Len(cache) >= CacheMax THEN Tail(cache) ELSE cache
           e == <<p, text>>
           new == Geo!CacheSet(cache, p, text)
<1>1. e \in S
    OBVIOUS
<1>2. new = IF p \in Geo!CachedIn(c) THEN [n \in DOMAIN c |-> IF c[n][1] = p THEN e ELSE c[n]]
            ELSE Append(c, e)
    BY DEF Geo!CacheSet, Geo!Put
<1>3. /\ c \in Seq(S) /\ Len(c) < CacheMax
      /\ \A n \in 1..Len(c) : \E m \in 1..Len(cache) : c[n] = cache[m]
    BY RoomMade
<1> HIDE DEF c
<1>4. CacheMax \in Nat /\ DOMAIN cache = 1..Len(cache) /\ Len(c) \in Nat /\ DOMAIN c = 1..Len(c)
    BY <1>3, GeoFacts
<1> HIDE DEF e, new
<1>5. /\ new \in Seq(S) /\ Len(new) <= CacheMax
      /\ \A n \in DOMAIN new : new[n] = e \/ \E m \in 1..Len(c) : new[n] = c[m]
    <2>1. CASE p \in Geo!CachedIn(c)
        <3>1. new = [n \in 1..Len(c) |-> IF c[n][1] = p THEN e ELSE c[n]]
            BY <1>2, <1>4, <2>1
        <3>2. \A n \in 1..Len(c) : c[n] \in S
            BY <1>3
        <3>3. new \in [1..Len(c) -> S] /\ \A n \in 1..Len(c) : new[n] = e \/ new[n] = c[n]
            BY <1>1, <3>1, <3>2
        <3>4. new \in Seq(S) /\ Len(new) = Len(c)
            BY <1>3, <3>3, SomeReplaced
        <3>5. DOMAIN new = 1..Len(c)
            BY <3>3
        <3> QED  BY <1>3, <1>4, <3>3, <3>4, <3>5
    <2>2. CASE p \notin Geo!CachedIn(c)
        <3>1. new = Append(c, e)
            BY <1>2, <2>2
        <3>2. /\ new \in Seq(S) /\ Len(new) = Len(c) + 1 /\ new[Len(c) + 1] = e
              /\ \A n \in 1..Len(c) : new[n] = c[n]
            BY <1>1, <1>3, <3>1, OneMore
        <3>3. DOMAIN new = 1..(Len(c) + 1)
            BY <3>2
        <3>4. \A n \in DOMAIN new : new[n] = e \/ (n \in 1..Len(c) /\ new[n] = c[n])
            BY <1>4, <3>2, <3>3
        <3> QED  BY <1>3, <1>4, <3>2, <3>4
    <2> QED  BY <2>1, <2>2
<1>6. \A n \in DOMAIN new : new[n] = e \/ \E m \in DOMAIN cache : new[n] = cache[m]
    BY ZenonT(30), <1>3, <1>4, <1>5
<1> QED  BY <1>5, <1>6 DEF e, new

LEMMA LruGetIs ==
    ASSUME GeoInv, NEW p \in Places, p \in Geo!CachedIn(s4)
    PROVE  LET new == Geo!LruGet(p)
           IN  new \in Seq(Address) /\ Len(new) = Len(s4) /\ \A n \in DOMAIN new : new[n][2] = new[n][1]
<1> DEFINE i == CHOOSE n \in DOMAIN s4 : s4[n][1] = p
           left == SubSeq(s4, 1, i - 1) \o SubSeq(s4, i + 1, Len(s4))
           e == <<p, p>>
           new == Geo!LruGet(p)
<1>1. s4 \in Seq(Address) /\ i \in DOMAIN s4
    BY DEF GeoInv, GeoTypes, Geo!CachedIn
<1>2. new = Append(left, e)
    BY DEF Geo!LruGet, Geo!Without, Geo!RemoveAt
<1>3. e \in Address /\ e[1] = p /\ e[2] = p
    BY DEF Address
<1>4. \A n \in DOMAIN s4 : s4[n][2] = s4[n][1]
    BY DEF GeoInv
<1> HIDE DEF i
<1>5. i \in 1..Len(s4) /\ DOMAIN s4 = 1..Len(s4) /\ Len(s4) \in Nat
    BY <1>1
<1>6. /\ left \in Seq(Address) /\ Len(left) = Len(s4) - 1
      /\ \A n \in 1..(Len(s4) - 1) : \E m \in 1..Len(s4) : left[n] = s4[m]
    BY <1>1, <1>5, OneGone
<1> HIDE DEF left, e, new
<1>7. /\ new \in Seq(Address) /\ Len(new) = Len(left) + 1 /\ new[Len(left) + 1] = e
      /\ \A n \in 1..Len(left) : new[n] = left[n]
    BY <1>2, <1>3, <1>6, OneMore
<1>8. DOMAIN new = 1..(Len(left) + 1) /\ Len(left) \in Nat
    BY <1>6, <1>7
<1>9. \A n \in DOMAIN new : new[n] = e \/ (n \in 1..Len(left) /\ new[n] = left[n])
    BY <1>7, <1>8
<1>10. Len(new) = Len(s4) /\ \A n \in DOMAIN new : new[n] = e \/ \E m \in 1..Len(s4) : new[n] = s4[m]
    BY <1>5, <1>6, <1>7, <1>9
<1>11. \A n \in DOMAIN new : new[n][2] = new[n][1]
    BY <1>3, <1>4, <1>5, <1>10
<1> QED  BY <1>7, <1>10, <1>11 DEF new

(* A request moves on: it is still of whom it was, and of the same place.  *)
LEMMA LookupMoves ==
    ASSUME Geo!GeocodeAssumption, GeoInv, NEW h \in Handlers, NEW r \in Lookups, Lawful(r, s8),
           s6' = [s6 EXCEPT ![h] = r], s6[h].at # "idle", r.by = s6[h].by, r.place = s6[h].place
    PROVE  /\ s6' \in [Handlers -> Lookups]
           /\ \A g \in Handlers : Lawful(s6'[g], s8)
           /\ OneWaits(s6', s3)
<1>1. s6 \in [Handlers -> Lookups] /\ (\A g \in Handlers : Lawful(s6[g], s8)) /\ OneWaits(s6, s3)
    BY DEF GeoInv, GeoTypes
<1>2. s6' \in [Handlers -> Lookups] /\ \A g \in Handlers : Lawful(s6'[g], s8)
    BY <1>1
<1>3. \A g \in Handlers, b \in Browsers, p \in Places : Waits(s6'[g], b, p) => Waits(s6[g], b, p)
    BY <1>1 DEF Waits
<1> QED  BY <1>1, <1>2, <1>3 DEF OneWaits

(* ... or is over.                                                         *)
LEMMA RequestEnds ==
    ASSUME Geo!GeocodeAssumption, GeoInv, NEW h \in Handlers, s6' = [s6 EXCEPT ![h] = [at |-> "idle"]]
    PROVE  /\ s6' \in [Handlers -> Lookups]
           /\ \A g \in Handlers : Lawful(s6'[g], s8)
           /\ \A g \in Handlers, b \in Browsers, p \in Places :
                 Waits(s6'[g], b, p) => g # h /\ Waits(s6[g], b, p)
<1>1. s6 \in [Handlers -> Lookups] /\ (\A g \in Handlers : Lawful(s6[g], s8)) /\ OneWaits(s6, s3)
    BY DEF GeoInv, GeoTypes
<1>2. [at |-> "idle"] \in Lookups
    BY DEF Lookups, AtRest
<1>3. s6' \in [Handlers -> Lookups] /\ s6'[h] = [at |-> "idle"] /\ \A g \in Handlers : g # h => s6'[g] = s6[g]
    BY <1>1, <1>2
<1>4. s6'[h].at = "idle"
    BY <1>3
<1> QED  BY <1>1, <1>3, <1>4 DEF Waits, Lawful

(* What an answer and a call leave.                                        *)
LEMMA AnswerIs ==
    ASSUME Geo!GeocodeAssumption, GeoInv, NEW h \in Handlers, s6[h].at # "idle",
           NEW text, text = None \/ text = s6[h].place, Geo!Answer(h, text)
    PROVE  /\ s6' \in [Handlers -> Lookups]
           /\ \A g \in Handlers : Lawful(s6'[g], s8)
           /\ OneWaits(s6', s3)
<1> DEFINE r == [at |-> "answer", by |-> s6[h].by, place |-> s6[h].place, text |-> text]
<1>1. s6[h] \in Lookups
    BY DEF GeoInv, GeoTypes
<1>2. s6[h].by \in Browsers \cup {None} /\ s6[h].place \in Places
    BY <1>1, LookupPlaces
<1>3. r \in Answering /\ r.at = "answer" /\ r.by = s6[h].by /\ r.place = s6[h].place /\ r.text = text
    BY <1>2 DEF Answering
<1>4. s6' = [s6 EXCEPT ![h] = r]
    BY DEF Geo!Answer, Geo!Become
<1> HIDE DEF r
<1>5. r \in Lookups /\ Lawful(r, s8)
    BY <1>3 DEF Lookups, Lawful
<1> QED  BY <1>3, <1>4, <1>5, LookupMoves

LEMMA CallIs ==
    ASSUME Geo!GeocodeAssumption, GeoInv, NEW h \in Handlers, s6[h].at # "idle",
           NEW after \in 0..Len(s8), \A m \in 1..after : s8[m].time + Gap <= s1,
           Geo!Call(h, after), s1' = s1
    PROVE  /\ s6' \in [Handlers -> Lookups]
           /\ \A g \in Handlers : Lawful(s6'[g], s8')
           /\ OneWaits(s6', s3)
           /\ s7' \in Nat /\ s7' <= s1'
           /\ s8' \in Seq(Nominatim) /\ Spaced(s8') /\ \A n \in DOMAIN s8' : s8'[n].time <= s7'
<1> DEFINE r == [at |-> "fetch", by |-> s6[h].by, place |-> s6[h].place]
           c == [time |-> s1, after |-> after]
<1>1. s6[h] \in Lookups
    BY DEF GeoInv, GeoTypes
<1>2. s6[h].by \in Browsers \cup {None} /\ s6[h].place \in Places
    BY <1>1, LookupPlaces
<1>3. r \in Looking /\ r.at = "fetch" /\ r.by = s6[h].by /\ r.place = s6[h].place
    BY <1>2 DEF Looking
<1>4. s6' = [s6 EXCEPT ![h] = r] /\ s7' = s1 /\ s8' = Append(s8, c)
    BY DEF Geo!Call, Geo!Become
<1>5. /\ s1 \in Nat /\ s7 \in Nat /\ s7 <= s1 /\ Gap \in Nat /\ s8 \in Seq(Nominatim)
      /\ Spaced(s8) /\ \A n \in DOMAIN s8 : s8[n].time <= s7
    BY GeoFacts DEF GeoInv, GeoTypes
<1>6. c \in Nominatim /\ c.time = s1 /\ c.after = after
    BY <1>5 DEF Nominatim
<1> HIDE DEF r, c
<1>7. r \in Lookups /\ Lawful(r, s8)
    BY <1>3 DEF Lookups, Lawful
<1>8. /\ s8' \in Seq(Nominatim) /\ Len(s8') = Len(s8) + 1 /\ s8'[Len(s8) + 1] = c
      /\ \A n \in 1..Len(s8) : s8'[n] = s8[n]
    BY <1>4, <1>5, <1>6, OneMore
<1>9. DOMAIN s8' = 1..(Len(s8) + 1) /\ Len(s8) \in Nat /\ DOMAIN s8 = 1..Len(s8)
    BY <1>5, <1>8
<1>10. \A n \in 1..Len(s8) : s8[n].time \in Nat /\ s8[n].after \in Nat
    <2>1. \A n \in 1..Len(s8) : s8[n] \in Nominatim
        BY <1>5
    <2> QED  BY <2>1 DEF Nominatim
<1>11. \A n \in DOMAIN s8' : s8'[n].time <= s7'
    BY <1>4, <1>5, <1>6, <1>8, <1>9, <1>10
<1>12. ASSUME NEW n \in DOMAIN s8'
       PROVE  s8'[n].after < n /\ \A m \in 1..s8'[n].after : s8'[n].time - s8'[m].time >= Gap
    <2>1. CASE n \in 1..Len(s8)
        <3>1. s8'[n] = s8[n] /\ s8[n].after \in Nat /\ s8[n].after < n
            BY <1>5, <1>8, <1>9, <1>10, <2>1 DEF Spaced
        <3>2. \A m \in 1..s8[n].after : m \in 1..Len(s8) /\ s8'[m] = s8[m]
            BY <1>8, <1>9, <2>1, <3>1
        <3> QED  BY <1>5, <1>9, <2>1, <3>1, <3>2 DEF Spaced
    <2>2. CASE n = Len(s8) + 1
        <3>1. s8'[n] = c /\ after < n
            BY <1>8, <1>9, <2>2
        <3>2. ASSUME NEW m \in 1..after
              PROVE  s1 - s8'[m].time >= Gap
            <4>1. m \in 1..Len(s8) /\ s8'[m] = s8[m] /\ s8[m].time \in Nat /\ s8[m].time + Gap <= s1
                BY <1>8, <1>9, <1>10
            <4> QED  BY <1>5, <4>1
        <3> QED  BY <1>6, <3>1, <3>2
    <2> QED  BY <1>9, <2>1, <2>2
<1>13. Spaced(s8')
    BY <1>12 DEF Spaced
<1>14. s7' \in Nat /\ s7' <= s1'
    BY <1>4, <1>5
<1>15. /\ s6' \in [Handlers -> Lookups]
       /\ \A g \in Handlers : Lawful(s6'[g], s8)
       /\ OneWaits(s6', s3)
    BY <1>3, <1>4, <1>7, LookupMoves
<1>16. ASSUME NEW g \in Handlers
       PROVE  Lawful(s6'[g], s8')
    <2>1. s6'[g].at = "sleep" => s6'[g].after \in Nat
        BY <1>15, LookupPlaces DEF Sleeping
    <2>2. CASE s6'[g].at = "sleep"
        <3>1. s6'[g].after <= Len(s8) /\ \A m \in 1..s6'[g].after : s8[m].time + Gap <= s6'[g].until
            BY <1>15, <2>2 DEF Lawful
        <3>2. \A m \in 1..s6'[g].after : m \in 1..Len(s8) /\ s8'[m] = s8[m]
            BY <1>8, <1>9, <2>1, <2>2, <3>1
        <3>3. s6'[g].after <= Len(s8')
            BY <1>8, <1>9, <2>1, <2>2, <3>1
        <3> QED  BY <2>2, <3>1, <3>2, <3>3 DEF Lawful
    <2>3. CASE s6'[g].at # "sleep"
        BY <1>15, <2>3 DEF Lawful
    <2> QED  BY <2>2, <2>3
<1> QED  BY <1>8, <1>11, <1>13, <1>14, <1>15, <1>16

(* The LRU of the API takes a place.                                       *)
LEMMA LruSet ==
    ASSUME Geo!GeocodeAssumption, GeoInv, NEW p \in Places, s4' = Geo!CacheSet(s4, p, p)
    PROVE  s4' \in Seq(Address) /\ Len(s4') <= CacheMax /\ \A n \in DOMAIN s4' : s4'[n][2] = s4'[n][1]
<1>1. s4 \in Seq(Address) /\ Len(s4) <= CacheMax /\ \A n \in DOMAIN s4 : s4[n][2] = s4[n][1]
    BY DEF GeoInv, GeoTypes
<1>2. <<p, p>> \in Address
    BY DEF Address
<1>3. /\ s4' \in Seq(Address) /\ Len(s4') <= CacheMax
      /\ \A n \in DOMAIN s4' : s4'[n] = <<p, p>> \/ \E m \in DOMAIN s4 : s4'[n] = s4[m]
    BY <1>1, <1>2, CacheSetIs
<1> QED  BY <1>1, <1>3

LEMMA AskHonest ==
    ASSUME Geo!GeocodeAssumption, GeoInv, NEW b \in Browsers, NEW p \in Places, NEW h \in Handlers,
           Geo!Ask(b, p, h)
    PROVE  GeoInv'
<1>1. /\ \A n \in DOMAIN s2[b] : s2[b][n][1] # p
      /\ s3[b][p] = None /\ s6[h].at = "idle"
      /\ s3' = [s3 EXCEPT ![b][p] = s1 + Patience]
      /\ s1' = s1 /\ s2' = s2 /\ s5' = s5 /\ s7' = s7 /\ s8' = s8 /\ s9' = s9
    BY DEF Geo!Ask, Geo!CachedIn, Geo!Idle
<1>2. /\ GeoTypes /\ (\A n \in DOMAIN s4 : s4[n][2] = s4[n][1])
      /\ (\A g \in Handlers : Lawful(s6[g], s8)) /\ OneWaits(s6, s3)
      /\ \A b2 \in Browsers, p2 \in Places : s3[b2][p2] # None => \A n \in DOMAIN s2[b2] : s2[b2][n][1] # p2
    BY DEF GeoInv
<1>3. s1 + Patience \in Nat /\ s1 + Patience # None
    BY <1>2, GeoFacts DEF GeoTypes
<1>4. /\ s3 \in [Browsers -> [Places -> Nat \cup {None}]]
      /\ s4 \in Seq(Address) /\ Len(s4) <= CacheMax /\ s6 \in [Handlers -> Lookups]
    BY <1>2 DEF GeoTypes
<1>5. /\ s3' \in [Browsers -> [Places -> Nat \cup {None}]]
      /\ s3'[b][p] # None
      /\ \A b2 \in Browsers, p2 \in Places : ~(b2 = b /\ p2 = p) => s3'[b2][p2] = s3[b2][p2]
    BY <1>1, <1>3, <1>4
<1>6. /\ s4' \in Seq(Address) /\ Len(s4') <= CacheMax
      /\ \A n \in DOMAIN s4' : s4'[n][2] = s4'[n][1]
    <2>1. CASE p \in Geo!CachedIn(s4)
        <3>1. s4' = Geo!LruGet(p)
            BY <2>1 DEF Geo!Ask
        <3> QED  BY <1>4, <2>1, <3>1, LruGetIs
    <2>2. CASE p \notin Geo!CachedIn(s4)
        <3>1. s4' = s4
            BY <2>2 DEF Geo!Ask
        <3> QED  BY <1>2, <1>4, <3>1
    <2> QED  BY <2>1, <2>2
<1>7. \E r \in Lookups : s6' = [s6 EXCEPT ![h] = r] /\ Lawful(r, s8) /\ r.at # "idle" /\ r.by = b /\ r.place = p
    <2>1. CASE p \in Geo!CachedIn(s4)
        <3> DEFINE r == [at |-> "answer", by |-> b, place |-> p, text |-> p]
        <3>1. s6' = [s6 EXCEPT ![h] = r]
            BY <2>1 DEF Geo!Ask, Geo!Become
        <3>2. r \in Answering /\ r.at = "answer" /\ r.by = b /\ r.place = p /\ r.text = p
            BY DEF Answering
        <3> HIDE DEF r
        <3> QED  BY <3>1, <3>2 DEF Lookups, Lawful
    <2>2. CASE p \notin Geo!CachedIn(s4)
        <3> DEFINE r == [at |-> "redis", by |-> b, place |-> p]
        <3>1. s6' = [s6 EXCEPT ![h] = r]
            BY <2>2 DEF Geo!Ask, Geo!Become
        <3>2. r \in Looking /\ r.at = "redis" /\ r.by = b /\ r.place = p
            BY DEF Looking
        <3> HIDE DEF r
        <3> QED  BY <3>1, <3>2 DEF Lookups, Lawful
    <2> QED  BY <2>1, <2>2
<1>8. PICK r \in Lookups : s6' = [s6 EXCEPT ![h] = r] /\ Lawful(r, s8) /\ r.at # "idle" /\ r.by = b /\ r.place = p
    BY <1>7
<1>9. s6' \in [Handlers -> Lookups] /\ s6'[h] = r /\ \A g \in Handlers : g # h => s6'[g] = s6[g]
    BY <1>4, <1>8
<1>10. \A g \in Handlers : Lawful(s6'[g], s8)
    BY <1>2, <1>8, <1>9
<1>11. /\ \A b2 \in Browsers, p2 \in Places : Waits(s6'[h], b2, p2) => b2 = b /\ p2 = p
       /\ \A g \in Handlers : ~Waits(s6[g], b, p)
    BY <1>1, <1>2, <1>8, <1>9 DEF Waits, OneWaits
<1>12. OneWaits(s6', s3')
    BY <1>2, <1>5, <1>9, <1>11 DEF OneWaits
<1>13. \A b2 \in Browsers, p2 \in Places : s3'[b2][p2] # None => \A n \in DOMAIN s2'[b2] : s2'[b2][n][1] # p2
    BY <1>1, <1>2, <1>5
<1>14. GeoTypes'
    BY <1>1, <1>2, <1>5, <1>6, <1>9 DEF GeoTypes
<1> QED  BY <1>1, <1>6, <1>10, <1>12, <1>13, <1>14 DEF GeoInv

LEMMA ArrivesHonest ==
    ASSUME Geo!GeocodeAssumption, GeoInv, NEW h \in Handlers, Geo!AnswerArrives(h)
    PROVE  GeoInv'
<1> DEFINE b == s6[h].by
           p == s6[h].place
           text == IF s6[h].text = None THEN "Unknown Location" ELSE s6[h].text
<1>1. /\ s6[h].at = "answer" /\ s6' = [s6 EXCEPT ![h] = [at |-> "idle"]]
      /\ s1' = s1 /\ s4' = s4 /\ s5' = s5 /\ s7' = s7 /\ s8' = s8
    BY DEF Geo!AnswerArrives, Geo!Become, Geo!Idle
<1>2. /\ GeoTypes /\ (\A g \in Handlers : Lawful(s6[g], s8)) /\ OneWaits(s6, s3)
      /\ (\A b2 \in Browsers : \A n \in DOMAIN s2[b2] : Honest(b2, s2[b2][n], s9))
      /\ \A b2 \in Browsers, p2 \in Places : s3[b2][p2] # None => \A n \in DOMAIN s2[b2] : s2[b2][n][1] # p2
    BY DEF GeoInv
<1>3. s6[h] \in Lookups /\ s3 \in [Browsers -> [Places -> Nat \cup {None}]]
    BY <1>2 DEF GeoTypes
<1>4. s6[h] \in Answering
    BY <1>1, <1>3, LookupPlaces
<1>5. /\ b \in Browsers \cup {None} /\ p \in Places
      /\ s6[h].text = None \/ s6[h].text = p
    BY <1>1, <1>2, <1>4 DEF Answering, Lawful
<1>6. /\ s6' \in [Handlers -> Lookups]
      /\ \A g \in Handlers : Lawful(s6'[g], s8)
      /\ \A g \in Handlers, b2 \in Browsers, p2 \in Places : Waits(s6'[g], b2, p2) => g # h /\ Waits(s6[g], b2, p2)
    BY <1>1, RequestEnds
<1>7. CASE b = None
    <2>1. s2' = s2 /\ s3' = s3 /\ s9' = s9
        BY <1>7 DEF Geo!AnswerArrives
    <2>2. OneWaits(s6', s3')
        BY <1>2, <1>6, <2>1 DEF OneWaits
    <2>3. GeoTypes'
        BY <1>1, <1>2, <1>6, <2>1 DEF GeoTypes
    <2> QED  BY <1>1, <1>6, <2>1, <2>2, <2>3 DEF GeoInv
<1>8. CASE b # None
    <2>1. /\ b \in Browsers
          /\ s2' = [s2 EXCEPT ![b] = Geo!CacheSet(s2[b], p, text)]
          /\ s3' = [s3 EXCEPT ![b][p] = None]
          /\ s9' = IF s6[h].text = None THEN s9 \cup {<<b, p>>} ELSE s9
        BY <1>5, <1>8 DEF Geo!AnswerArrives
    <2>2. Waits(s6[h], b, p)
        BY <1>1 DEF Waits
    <2>3. text \in Places \cup {"Unknown Location"}
        BY <1>5
    <2>4. <<p, text>> \in Address
        BY <1>5, <2>3 DEF Address
    <2>5. \A x : x \in s9 => x \in s9'
        BY <2>1
    <2>6. Honest(b, <<p, text>>, s9')
        BY <1>5, <2>1 DEF Honest
    <2> HIDE DEF b, p, text
    <2>7. s2 \in [Browsers -> Seq(Address)] /\ \A b2 \in Browsers : Len(s2[b2]) <= CacheMax
        BY <1>2 DEF GeoTypes
    <2>8. s2[b] \in Seq(Address) /\ Len(s2[b]) <= CacheMax
        BY <2>1, <2>7
    <2>9. \E new : /\ new = Geo!CacheSet(s2[b], p, text)
                   /\ new \in Seq(Address) /\ Len(new) <= CacheMax
                   /\ \A n \in DOMAIN new : new[n] = <<p, text>> \/ \E m \in DOMAIN s2[b] : new[n] = s2[b][m]
        BY <2>4, <2>8, CacheSetIs
    <2>10. PICK new : /\ new = Geo!CacheSet(s2[b], p, text)
                      /\ new \in Seq(Address) /\ Len(new) <= CacheMax
                      /\ \A n \in DOMAIN new : new[n] = <<p, text>> \/ \E m \in DOMAIN s2[b] : new[n] = s2[b][m]
        BY <2>9
    <2>11. /\ s2' \in [Browsers -> Seq(Address)] /\ s2'[b] = new
           /\ \A b2 \in Browsers : b2 # b => s2'[b2] = s2[b2]
        BY <2>1, <2>7, <2>10
    <2>12. \A b2 \in Browsers : Len(s2'[b2]) <= CacheMax
        BY <2>7, <2>10, <2>11
    <2>13. /\ s3' \in [Browsers -> [Places -> Nat \cup {None}]]
           /\ s3'[b][p] = None
           /\ \A b2 \in Browsers, p2 \in Places : ~(b2 = b /\ p2 = p) => s3'[b2][p2] = s3[b2][p2]
        BY <1>3, <1>5, <2>1
    <2>14. \A b2 \in Browsers : \A n \in DOMAIN s2[b2] : Honest(b2, s2[b2][n], s9')
        BY <1>2, <2>5 DEF Honest
    <2>15. ASSUME NEW b2 \in Browsers, NEW n \in DOMAIN s2'[b2]
           PROVE  Honest(b2, s2'[b2][n], s9')
        <3>1. CASE b2 = b
            <4>1. s2'[b2][n] = <<p, text>> \/ \E m \in DOMAIN s2[b] : s2'[b2][n] = s2[b][m]
                BY <2>10, <2>11, <3>1
            <4> QED  BY <2>1, <2>6, <2>14, <3>1, <4>1
        <3>2. CASE b2 # b
            BY <2>11, <2>14, <3>2
        <3> QED  BY <3>1, <3>2
    <2>16. ASSUME NEW b2 \in Browsers, NEW p2 \in Places, s3'[b2][p2] # None, NEW n \in DOMAIN s2'[b2]
           PROVE  s2'[b2][n][1] # p2
        <3>1. ~(b2 = b /\ p2 = p) /\ s3[b2][p2] # None
            BY <2>13, <2>16
        <3>2. CASE b2 = b
            <4>1. s2'[b2][n] = <<p, text>> \/ \E m \in DOMAIN s2[b] : s2'[b2][n] = s2[b][m]
                BY <2>10, <2>11, <3>2
            <4>2. \A m \in DOMAIN s2[b] : s2[b][m][1] # p2
                BY <1>2, <3>1, <3>2
            <4> QED  BY <3>1, <3>2, <4>1, <4>2
        <3>3. CASE b2 # b
            <4>1. s2'[b2] = s2[b2]
                BY <2>11, <3>3
            <4> QED  BY <1>2, <3>1, <4>1
        <3> QED  BY <3>2, <3>3
    <2>17. OneWaits(s6', s3')
        <3>1. ASSUME NEW b2 \in Browsers, NEW p2 \in Places, NEW g \in Handlers, Waits(s6'[g], b2, p2)
              PROVE  s3'[b2][p2] # None
            <4>1. g # h /\ Waits(s6[g], b2, p2)
                BY <1>6, <3>1
            <4>2. s3[b2][p2] # None
                BY <1>2, <4>1 DEF OneWaits
            <4>3. ~(b2 = b /\ p2 = p)
                BY <1>2, <2>1, <2>2, <4>1 DEF OneWaits
            <4> QED  BY <2>13, <4>2, <4>3
        <3> QED  BY <1>2, <1>6, <3>1 DEF OneWaits
    <2>18. GeoTypes'
        BY <1>1, <1>2, <1>6, <2>11, <2>12, <2>13 DEF GeoTypes
    <2>19. (\A n \in DOMAIN s4' : s4'[n][2] = s4'[n][1]) /\ Spaced(s8') /\ \A n \in DOMAIN s8' : s8'[n].time <= s7'
        BY <1>1 DEF GeoInv
    <2>20. \A g \in Handlers : Lawful(s6'[g], s8')
        BY <1>1, <1>6
    <2> QED  BY <2>15, <2>16, <2>17, <2>18, <2>19, <2>20 DEF GeoInv
<1> QED  BY <1>7, <1>8

LEMMA GiveUpHonest ==
    ASSUME Geo!GeocodeAssumption, GeoInv, NEW b \in Browsers, NEW p \in Places, Geo!GiveUp(b, p)
    PROVE  GeoInv'
<1>1. /\ s3' = [s3 EXCEPT ![b][p] = None]
      /\ s1' = s1 /\ s2' = s2 /\ s4' = s4 /\ s5' = s5 /\ s7' = s7 /\ s8' = s8 /\ s9' = s9
    BY DEF Geo!GiveUp
<1>2. /\ GeoTypes /\ (\A g \in Handlers : Lawful(s6[g], s8)) /\ OneWaits(s6, s3)
      /\ \A b2 \in Browsers, p2 \in Places : s3[b2][p2] # None => \A n \in DOMAIN s2[b2] : s2[b2][n][1] # p2
    BY DEF GeoInv
<1>3. s6 \in [Handlers -> Lookups] /\ s3 \in [Browsers -> [Places -> Nat \cup {None}]]
    BY <1>2 DEF GeoTypes
<1>4. /\ s3' \in [Browsers -> [Places -> Nat \cup {None}]]
      /\ \A b2 \in Browsers, p2 \in Places : ~(b2 = b /\ p2 = p) => s3'[b2][p2] = s3[b2][p2]
      /\ \A b2 \in Browsers, p2 \in Places : s3'[b2][p2] # None => s3[b2][p2] # None
    BY <1>1, <1>3
<1>5. s6' = [h \in Handlers |-> IF Waits(s6[h], b, p) THEN [s6[h] EXCEPT !.by = None] ELSE s6[h]]
    <2>1. \A h \in Handlers : s6[h] # Geo!Idle <=> s6[h].at # "idle"
        BY <1>3, LookupPlaces DEF Geo!Idle
    <2> QED  BY <2>1 DEF Geo!GiveUp, Waits
<1>6. ASSUME NEW h \in Handlers, Waits(s6[h], b, p)
      PROVE  s6'[h] \in Lookups /\ Lawful(s6'[h], s8) /\ s6'[h].by = None
    <2>1. s6'[h] = [s6[h] EXCEPT !.by = None] /\ s6[h] \in Lookups /\ s6[h].at # "idle"
        BY <1>3, <1>5, <1>6 DEF Waits
    <2>2. \A r \in Looking : /\ [r EXCEPT !.by = None] \in Looking /\ [r EXCEPT !.by = None].by = None
                             /\ [r EXCEPT !.by = None].at \notin {"answer", "sleep"}
        BY DEF Looking
    <2>3. \A r \in Sleeping : /\ [r EXCEPT !.by = None] \in Sleeping /\ [r EXCEPT !.by = None].by = None
                              /\ [r EXCEPT !.by = None].at = "sleep" /\ r.at = "sleep"
                              /\ [r EXCEPT !.by = None].until = r.until
                              /\ [r EXCEPT !.by = None].after = r.after
        BY DEF Sleeping
    <2>4. \A r \in Answering : /\ [r EXCEPT !.by = None] \in Answering /\ [r EXCEPT !.by = None].by = None
                               /\ [r EXCEPT !.by = None].text = r.text
                               /\ [r EXCEPT !.by = None].place = r.place
                               /\ [r EXCEPT !.by = None].at = "answer" /\ r.at = "answer"
        BY DEF Answering
    <2>5. s6[h] \in Looking \/ s6[h] \in Sleeping \/ s6[h] \in Answering
        BY <2>1, LookupPlaces
    <2>6. CASE s6[h] \in Looking
        BY <2>1, <2>2, <2>6 DEF Lookups, Lawful
    <2>7. CASE s6[h] \in Sleeping
        <3>1. Lawful(s6[h], s8)
            BY <1>2
        <3>2. /\ s6'[h] \in Sleeping /\ s6'[h].by = None /\ s6'[h].at = "sleep" /\ s6[h].at = "sleep"
              /\ s6'[h].until = s6[h].until /\ s6'[h].after = s6[h].after
            BY <2>1, <2>3, <2>7
        <3> QED  BY <3>1, <3>2 DEF Lookups, Lawful
    <2>8. CASE s6[h] \in Answering
        BY <1>2, <2>1, <2>4, <2>8 DEF Lookups, Lawful
    <2> QED  BY <2>5, <2>6, <2>7, <2>8
<1>7. ASSUME NEW h \in Handlers, ~Waits(s6[h], b, p)
      PROVE  s6'[h] = s6[h]
    BY <1>5, <1>7
<1>8. \A h \in Handlers : s6'[h] \in Lookups /\ Lawful(s6'[h], s8)
    BY <1>2, <1>3, <1>6, <1>7
<1>9. s6' \in [Handlers -> Lookups]
    BY <1>5, <1>8
<1>10. \A h \in Handlers, b2 \in Browsers, p2 \in Places :
           Waits(s6'[h], b2, p2) => Waits(s6[h], b2, p2) /\ ~(b2 = b /\ p2 = p)
    <2>1. ASSUME NEW h \in Handlers, NEW b2 \in Browsers, NEW p2 \in Places, Waits(s6'[h], b2, p2)
          PROVE  Waits(s6[h], b2, p2) /\ ~(b2 = b /\ p2 = p)
        <3>1. ~Waits(s6[h], b, p)
            BY <1>6, <2>1, GeoFacts DEF Waits
        <3>2. s6'[h] = s6[h]
            BY <1>7, <3>1
        <3> QED  BY <2>1, <3>1, <3>2
    <2> QED  BY <2>1
<1>11. OneWaits(s6', s3')
    BY <1>2, <1>4, <1>10 DEF OneWaits
<1>12. GeoTypes'
    BY <1>1, <1>2, <1>4, <1>9 DEF GeoTypes
<1> QED  BY <1>1, <1>4, <1>8, <1>11, <1>12 DEF GeoInv

(* What is done for a request, its place and its browser staying.          *)
LEMMA HandledHonest ==
    ASSUME Geo!GeocodeAssumption, GeoInv, NEW h \in Handlers,
           \/ Geo!RedisHit(h) \/ Geo!RedisMiss(h) \/ Geo!Wake(h) \/ Geo!Fetched(h) \/ Geo!FetchFails(h)
           \/ \E s \in BOOLEAN : Geo!Store(h, s)
    PROVE  GeoInv'
<1>1. /\ GeoTypes /\ (\A n \in DOMAIN s4 : s4[n][2] = s4[n][1])
      /\ Spaced(s8) /\ \A n \in DOMAIN s8 : s8[n].time <= s7
    BY DEF GeoInv
<1>2. s6[h] \in Lookups /\ s5 \in SUBSET Places
    BY <1>1 DEF GeoTypes
<1>3. /\ s1' = s1 /\ s2' = s2 /\ s3' = s3 /\ s9' = s9 /\ s6[h].at # "idle"
    BY DEF Geo!RedisHit, Geo!RedisMiss, Geo!Wake, Geo!Fetched, Geo!FetchFails, Geo!Store
<1>4. s6[h].by \in Browsers \cup {None} /\ s6[h].place \in Places
    BY <1>2, <1>3, LookupPlaces
<1>4a. /\ s1 \in Nat /\ s7 \in Nat /\ Gap \in Nat /\ Len(s8) \in Nat
       /\ \A m \in 1..Len(s8) : s8[m].time \in Nat /\ s8[m].time <= s7
    <2>1. DOMAIN s8 = 1..Len(s8) /\ Len(s8) \in Nat /\ \A m \in 1..Len(s8) : s8[m] \in Nominatim
        BY <1>1 DEF GeoTypes
    <2>2. \A c \in Nominatim : c.time \in Nat
        BY DEF Nominatim
    <2>3. \A m \in 1..Len(s8) : s8[m].time \in Nat /\ s8[m].time <= s7
        BY <1>1, <2>1, <2>2
    <2> QED  BY <1>1, <2>1, <2>3, GeoFacts DEF GeoTypes
<1> DEFINE LookupsKept ==
               /\ s6' \in [Handlers -> Lookups]
               /\ \A g \in Handlers : Lawful(s6'[g], s8')
               /\ OneWaits(s6', s3)
           LruKept == s4' \in Seq(Address) /\ Len(s4') <= CacheMax /\ \A n \in DOMAIN s4' : s4'[n][2] = s4'[n][1]
           CallsKept ==
               /\ s7' \in Nat /\ s7' <= s1'
               /\ s8' \in Seq(Nominatim) /\ Spaced(s8') /\ \A n \in DOMAIN s8' : s8'[n].time <= s7'
<1>5. ASSUME s4' = s4 PROVE LruKept
    BY <1>1, <1>5 DEF GeoTypes
<1>6. ASSUME s7' = s7, s8' = s8 PROVE CallsKept
    BY <1>1, <1>3, <1>6 DEF GeoTypes
<1>7. ASSUME LookupsKept, LruKept, CallsKept, s5' \in SUBSET Places
      PROVE  GeoInv'
    <2>1. GeoTypes'
        BY <1>1, <1>3, <1>7 DEF GeoTypes
    <2> QED  BY <1>3, <1>7, <2>1 DEF GeoInv
<1> HIDE DEF LookupsKept, LruKept, CallsKept
<1>8. CASE Geo!RedisHit(h)
    <2>1. s5' = s5 /\ s7' = s7 /\ s8' = s8 /\ s4' = Geo!CacheSet(s4, s6[h].place, s6[h].place)
        BY <1>8 DEF Geo!RedisHit
    <2>2. Geo!Answer(h, s6[h].place)
        BY <1>8 DEF Geo!RedisHit
    <2>3. LookupsKept
        BY <1>3, <2>1, <2>2, AnswerIs DEF LookupsKept
    <2>4. LruKept
        BY <1>4, <2>1, LruSet DEF LruKept
    <2> QED  BY <1>2, <1>6, <1>7, <2>1, <2>3, <2>4
<1>9. CASE Geo!RedisMiss(h)
    <2>1. s5' = s5 /\ s4' = s4
        BY <1>9 DEF Geo!RedisMiss
    <2>2. CASE s1 - s7 < Gap
        <3> DEFINE r == [at |-> "sleep", by |-> s6[h].by, place |-> s6[h].place, until |-> s7 + Gap, after |-> Len(s8)]
        <3>1. s6' = [s6 EXCEPT ![h] = r] /\ s7' = s7 /\ s8' = s8
            BY <1>9, <2>2 DEF Geo!RedisMiss, Geo!Become
        <3>2. s7 + Gap \in Nat /\ Len(s8) \in Nat
            BY <1>1, GeoFacts DEF GeoTypes
        <3>3. /\ r \in Sleeping /\ r.at = "sleep" /\ r.by = s6[h].by /\ r.place = s6[h].place
              /\ r.until = s7 + Gap /\ r.after = Len(s8)
            BY <1>4, <3>2 DEF Sleeping
        <3> HIDE DEF r
        <3>4. r \in Lookups /\ Lawful(r, s8)
            BY <1>4a, <3>2, <3>3 DEF Lookups, Lawful
        <3>5. LookupsKept
            BY <1>3, <3>1, <3>3, <3>4, LookupMoves DEF LookupsKept
        <3> QED  BY <1>2, <1>5, <1>6, <1>7, <2>1, <3>1, <3>5
    <2>3. CASE ~(s1 - s7 < Gap)
        <3>1. Geo!Call(h, Len(s8))
            BY <1>9, <2>3 DEF Geo!RedisMiss
        <3>2. Len(s8) \in 0..Len(s8) /\ \A m \in 1..Len(s8) : s8[m].time + Gap <= s1
            BY <1>4a, <2>3
        <3>3. LookupsKept /\ CallsKept
            BY <1>3, <3>1, <3>2, CallIs DEF LookupsKept, CallsKept
        <3> QED  BY <1>2, <1>5, <1>7, <2>1, <3>3
    <2> QED  BY <2>2, <2>3
<1>10. CASE Geo!Wake(h)
    <2>1. /\ s5' = s5 /\ s4' = s4 /\ Geo!Call(h, s6[h].after)
          /\ s6[h].at = "sleep" /\ s1 >= s6[h].until
        BY <1>10 DEF Geo!Wake
    <2>2. s6[h].until \in Nat /\ s6[h].after \in Nat /\ Lawful(s6[h], s8)
        BY <1>1, <1>2, <2>1, LookupPlaces DEF Sleeping, GeoInv
    <2>3. s6[h].after <= Len(s8) /\ \A m \in 1..s6[h].after : s8[m].time + Gap <= s6[h].until
        BY <2>1, <2>2 DEF Lawful
    <2>4. s6[h].after \in 0..Len(s8) /\ \A m \in 1..s6[h].after : s8[m].time + Gap <= s1
        <3>1. \A m \in 1..s6[h].after : m \in 1..Len(s8)
            BY <1>4a, <2>2, <2>3
        <3>2. ASSUME NEW m \in 1..s6[h].after
              PROVE  s8[m].time + Gap <= s1
            <4>1. s8[m].time \in Nat /\ s8[m].time + Gap <= s6[h].until
                BY <1>4a, <2>3, <3>1
            <4> QED  BY <1>4a, <2>1, <2>2, <4>1
        <3>3. s6[h].after \in 0..Len(s8)
            BY <1>4a, <2>2, <2>3
        <3> QED  BY <3>2, <3>3
    <2>5. LookupsKept /\ CallsKept
        BY <1>3, <2>1, <2>4, CallIs DEF LookupsKept, CallsKept
    <2> QED  BY <1>2, <1>5, <1>7, <2>1, <2>5
<1>11. CASE Geo!Fetched(h)
    <2>1. /\ s5' = s5 /\ s7' = s7 /\ s8' = s8 /\ s4' = Geo!CacheSet(s4, s6[h].place, s6[h].place)
          /\ s6' = [s6 EXCEPT ![h] = [s6[h] EXCEPT !.at = "store"]] /\ s6[h].at = "fetch"
        BY <1>11 DEF Geo!Fetched, Geo!Become
    <2>2. s6[h] \in Looking
        BY <1>2, <2>1, LookupPlaces
    <2>3. \A c \in Looking : /\ [c EXCEPT !.at = "store"] \in Looking /\ [c EXCEPT !.at = "store"].at = "store"
                             /\ [c EXCEPT !.at = "store"].by = c.by /\ [c EXCEPT !.at = "store"].place = c.place
        BY DEF Looking
    <2>4. PICK r \in Looking : r = [s6[h] EXCEPT !.at = "store"] /\ r.at = "store" /\ r.by = s6[h].by /\ r.place = s6[h].place
        BY <2>2, <2>3
    <2>5. r \in Lookups /\ Lawful(r, s8)
        BY <2>4 DEF Lookups, Lawful
    <2>6. LookupsKept
        BY <1>3, <2>1, <2>4, <2>5, LookupMoves DEF LookupsKept
    <2>7. LruKept
        BY <1>4, <2>1, LruSet DEF LruKept
    <2> QED  BY <1>2, <1>6, <1>7, <2>1, <2>6, <2>7
<1>12. CASE Geo!FetchFails(h)
    <2>1. s5' = s5 /\ s4' = s4 /\ s7' = s7 /\ s8' = s8 /\ Geo!Answer(h, None)
        BY <1>12 DEF Geo!FetchFails
    <2>2. LookupsKept
        BY <1>3, <2>1, AnswerIs DEF LookupsKept
    <2> QED  BY <1>2, <1>5, <1>6, <1>7, <2>1, <2>2
<1>13. CASE \E s \in BOOLEAN : Geo!Store(h, s)
    <2>1. /\ s5' \in SUBSET Places /\ s4' = s4 /\ s7' = s7 /\ s8' = s8 /\ Geo!Answer(h, s6[h].place)
        BY <1>2, <1>4, <1>13 DEF Geo!Store
    <2>2. LookupsKept
        BY <1>3, <2>1, AnswerIs DEF LookupsKept
    <2> QED  BY <1>5, <1>6, <1>7, <2>1, <2>2
<1> QED  BY <1>8, <1>9, <1>10, <1>11, <1>12, <1>13

LEMMA GeoMoves ==
    ASSUME Geo!GeocodeAssumption, GeoInv, Geo!GeoNext
    PROVE  GeoInv'
<1>1. CASE Geo!Restart
    <2>1. /\ s1' = s1 /\ s2' = s2 /\ s3' = s3 /\ s5' = s5 /\ s9' = s9
          /\ s4' = <<>> /\ s7' = 0 /\ s8' = <<>> /\ s6' = [h \in Handlers |-> [at |-> "idle"]]
        BY <1>1 DEF Geo!Restart, Geo!Idle
    <2>2. [at |-> "idle"] \in Lookups
        BY DEF Lookups, AtRest
    <2>3. s6' \in [Handlers -> Lookups] /\ \A h \in Handlers : s6'[h].at = "idle"
        BY <2>1, <2>2
    <2>4. GeoTypes'
        BY <2>1, <2>3, GeoFacts DEF GeoInv, GeoTypes
    <2> QED  BY <2>1, <2>3, <2>4 DEF GeoInv, Lawful, OneWaits, Waits, Spaced
<1>2. CASE Geo!Tick
    <2>1. /\ s2' = s2 /\ s3' = s3 /\ s4' = s4 /\ s5' = s5 /\ s6' = s6 /\ s7' = s7 /\ s8' = s8 /\ s9' = s9
          /\ s1' = s1 + 1 /\ s1 < LastTime
        BY <1>2 DEF Geo!Tick
    <2>2. GeoTypes'
        BY <2>1, GeoFacts DEF GeoInv, GeoTypes
    <2> QED  BY <2>1, <2>2 DEF GeoInv
<1>3. CASE \E h \in Handlers :
              \/ Geo!RedisHit(h) \/ Geo!RedisMiss(h) \/ Geo!Wake(h) \/ Geo!Fetched(h) \/ Geo!FetchFails(h)
              \/ \E s \in BOOLEAN : Geo!Store(h, s)
    BY <1>3, HandledHonest
<1>4. CASE \E h \in Handlers : Geo!AnswerArrives(h)
    BY <1>4, ArrivesHonest
<1>5. CASE \E h \in Handlers : \E b \in Browsers, p \in Places : Geo!Ask(b, p, h)
    BY <1>5, AskHonest
<1>6. CASE \E b \in Browsers, p \in Places : Geo!GiveUp(b, p)
    BY <1>6, GiveUpHonest
<1> QED  BY <1>1, <1>2, <1>3, <1>4, <1>5, <1>6 DEF Geo!GeoNext

LEMMA GeoAsPromised ==
    ASSUME Geo!GeocodeAssumption, GeoInv
    PROVE  Geo!GeocodeHolds /\ Geo!GeoTypeOK
<1>1. Geo!CallsAreSpaced
    BY DEF GeoInv, Spaced, Geo!CallsAreSpaced
<1>2. Geo!AddressesAreTrue
    BY DEF GeoInv, Honest, Geo!AddressesAreTrue
<1>3. GeoTypes /\ OneWaits(s6, s3)
    BY DEF GeoInv
<1>4. s6 \in [Handlers -> Lookups]
    BY <1>3 DEF GeoTypes
<1>5. ASSUME NEW b \in Browsers, NEW p \in Places
      PROVE  LET theirs == {h \in Handlers : s6[h] # Geo!Idle /\ s6[h].by = b /\ s6[h].place = p}
             IN  /\ Geo!Cardinality(theirs) <= (IF s3[b][p] = None THEN 0 ELSE 1)
                 /\ s3[b][p] # None => p \notin Geo!CachedIn(s2[b])
    <2> DEFINE theirs == {h \in Handlers : s6[h] # Geo!Idle /\ s6[h].by = b /\ s6[h].place = p}
    <2>1. \A h \in Handlers : s6[h] # Geo!Idle <=> s6[h].at # "idle"
        BY <1>4, LookupPlaces DEF Geo!Idle
    <2>2. \A h \in theirs : h \in Handlers /\ Waits(s6[h], b, p)
        BY <2>1 DEF Waits
    <2>3. \A g, h \in theirs : g = h
        BY <1>3, <2>2 DEF OneWaits
    <2>4. theirs # {} => s3[b][p] # None
        BY <1>3, <2>2 DEF OneWaits
    <2>5. Geo!Cardinality(theirs) = Cardinality(theirs)
        BY Zenon DEF Geo!Cardinality, Cardinality
    <2>6. s3[b][p] # None => p \notin Geo!CachedIn(s2[b])
        BY DEF GeoInv, Geo!CachedIn
    <2> HIDE DEF theirs
    <2>7. CASE theirs = {}
        BY <2>5, <2>6, <2>7, FS_EmptySet DEF theirs
    <2>8. CASE theirs # {}
        <3>1. PICK g : g \in theirs
            BY <2>8
        <3>2. theirs = {g}
            BY <2>3, <3>1
        <3>3. Cardinality(theirs) = 1
            BY <3>2, FS_Singleton
        <3> QED  BY <2>4, <2>5, <2>6, <2>8, <3>3 DEF theirs
    <2> QED  BY <2>7, <2>8
<1>6. Geo!RequestsAreShared
    BY <1>5 DEF Geo!RequestsAreShared
<1>7. Geo!GeoTypeOK
    <2>1. \A h \in Handlers : s6[h].at \in {"idle", "redis", "sleep", "fetch", "store", "answer"}
        BY <1>4, LookupPlaces
    <2> QED  BY <1>3, <2>1 DEF GeoTypes, Geo!GeoTypeOK
<1> QED  BY <1>1, <1>2, <1>6, <1>7 DEF Geo!GeocodeHolds

-----------------------------------------------------------------------------
(* Every model of the API. *)

LEMMA RegistryAsPromised ==
    ASSUME Registry!RegistryAssumption, RegistryInv
    PROVE  Registry!TypeOK
<1>1. \A q \in Askers : s4[q].at \in Registry!Waiting \cup {"new", "answered"}
    <2>1. \A r \in Asking : r.at \in Registry!Waiting \cup {"new", "answered"}
        BY DEF Asking, InHand, Creating, Updating, Deleting, Migrating, Resting, Registry!Waiting
    <2> QED  BY <2>1 DEF RegistryInv
<1>2. \A p \in Resolvers : s5[p] # None =>
          s5[p].imei \in Imeis /\ s5[p].entry \in Registry!Entries \cup {None}
    <2>1. \A p \in Resolvers : s5[p] # None => s5[p] \in Filling
        BY DEF RegistryInv
    <2>2. \A f \in Filling : f.imei \in Imeis /\ f.entry \in Registry!Entries \cup {None}
        BY DEF Filling, FromHash, FromRow
    <2> QED  BY <2>1, <2>2
<1> QED  BY <1>1, <1>2 DEF RegistryInv, Registry!TypeOK

LEMMA LicencesAsPromised ==
    ASSUME Licence!LicencesAssumption, LicenceInv
    PROVE  Licence!TypeOK
<1>1. \A q \in Dealings : s4[q].at \in Licence!Open \cup {"new", "end"}
    <2>1. \A r \in Dealing : r.at \in Licence!Open \cup {"new", "end"}
        BY DEF Dealing, Onboarding, Reading, Writing, Unasked, Licence!Open
    <2> QED  BY <2>1 DEF LicenceInv, LicenceTypes
<1> QED  BY <1>1 DEF LicenceInv, LicenceTypes, Licence!TypeOK

Models == {"tenancy", "registry", "limit", "zones", "geocode", "profile", "licences"}

(* A behaviour is one of the seven models, and keeps to the invariant of it.*)
ServicesInv ==
    /\ which \in Models
    /\ which = "tenancy" => TenancyInv
    /\ which = "registry" => RegistryInv
    /\ which = "limit" => LimitInv
    /\ which = "zones" => ZonesInv
    /\ which = "geocode" => GeoInv
    /\ which = "profile" => ProfileInv
    /\ which = "licences" => LicenceInv

LEMMA ServicesStart == Init => ServicesInv
BY TenancyStarts, RegistryStarts, LimitStarts, ZonesStart, GeoStarts, ProfileStarts, LicenceStarts,
   ServicesAssumption DEF Init, ServicesInv, Models, ServicesAssumption

LEMMA TenancyRests ==
    ASSUME TenancyInv, UNCHANGED vars
    PROVE  TenancyInv'
<1>1. UNCHANGED <<s1, s2, s3, s4, s5, s6, s7>>
    BY DEF vars, From5, From7
<1> QED  BY <1>1 DEF TenancyInv, TableTypes

LEMMA LimitRests ==
    ASSUME LimitInv, UNCHANGED vars
    PROVE  LimitInv'
<1>1. UNCHANGED <<s1, s2, s3, s4>>
    BY DEF vars
<1> QED  BY <1>1 DEF LimitInv

LEMMA ZonesRest ==
    ASSUME ZonesInv, UNCHANGED vars
    PROVE  ZonesInv'
<1>1. UNCHANGED <<s1, s2, s3, s4, s5, s6, s7, s8>>
    BY DEF vars, From5, From7, From8
<1> QED  BY <1>1 DEF ZonesInv, ZonesTypes, Was, Since, Zone!GeofencesOf

LEMMA GeoRests ==
    ASSUME GeoInv, UNCHANGED vars
    PROVE  GeoInv'
<1>1. UNCHANGED <<s1, s2, s3, s4, s5, s6, s7, s8, s9>>
    BY DEF vars, From5, From7, From8
<1> QED  BY <1>1 DEF GeoInv, GeoTypes

LEMMA ProfileRests ==
    ASSUME ProfileInv, UNCHANGED vars
    PROVE  ProfileInv'
<1>1. UNCHANGED <<s1, s2, s3, s4, s5, s6, s7, s8>>
    BY DEF vars, From5, From7, From8
<1> QED  BY <1>1 DEF ProfileInv, ProfileTypes, SameAsStored

LEMMA RegistryRests ==
    ASSUME RegistryInv, UNCHANGED vars
    PROVE  RegistryInv'
BY DEF vars, From5, From7, RegistryInv, Registry!StaleHasCause, Registry!Current,
   Registry!Exists, Registry!Underway, Registry!At

LEMMA LicencesRest ==
    ASSUME Licence!LicencesAssumption, LicenceInv, UNCHANGED vars
    PROVE  LicenceInv'
<1>1. UNCHANGED <<s1, s2, s3, s4, s5, s6, s7>>
    BY DEF vars, From5, From7
<1>2. \A u : Sound(u) => Sound(u)'
    BY <1>1 DEF Sound, OnboardSound, WriteSound, Owed, Licence!RoomFor, Licence!Used
<1>3. (\A p \in Dealings : Sound(s4[p]))'
    BY <1>1, <1>2, TasksSound DEF LicenceInv
<1> QED  BY <1>1, <1>3 DEF LicenceInv, LicenceTypes, Apart, Licence!ExcessHasCause,
         Licence!ShortfallHasCause, Licence!Used

LEMMA ServicesMove == ServicesInv /\ [Next]_vars => ServicesInv'
<1> SUFFICES ASSUME ServicesInv, [Next]_vars
             PROVE  ServicesInv'
    OBVIOUS
<1>1. which' = which /\ which \in Models
    BY DEF Next, vars, ServicesInv
<1>2. ASSUME which = "tenancy" PROVE TenancyInv'
    BY <1>2, TenancyMoves, TenancyRests, ServicesAssumption DEF ServicesInv, Next, ServicesAssumption
<1>3. ASSUME which = "registry" PROVE RegistryInv'
    BY <1>3, RegistryMoves, RegistryRests, ServicesAssumption DEF ServicesInv, Next, ServicesAssumption
<1>4. ASSUME which = "limit" PROVE LimitInv'
    BY <1>4, LimitMoves, LimitRests, ServicesAssumption DEF ServicesInv, Next, ServicesAssumption
<1>5. ASSUME which = "zones" PROVE ZonesInv'
    BY <1>5, ZonesMove, ZonesRest, ServicesAssumption DEF ServicesInv, Next, ServicesAssumption
<1>6. ASSUME which = "geocode" PROVE GeoInv'
    BY <1>6, GeoMoves, GeoRests, ServicesAssumption DEF ServicesInv, Next, ServicesAssumption
<1>7. ASSUME which = "profile" PROVE ProfileInv'
    BY <1>7, ProfileMoves, ProfileRests, ServicesAssumption DEF ServicesInv, Next, ServicesAssumption
<1>8. ASSUME which = "licences" PROVE LicenceInv'
    BY <1>8, LicenceMoves, LicencesRest, ServicesAssumption DEF ServicesInv, Next, ServicesAssumption
<1> QED  BY <1>1, <1>2, <1>3, <1>4, <1>5, <1>6, <1>7, <1>8 DEF ServicesInv

(* Every behaviour of the API's parts keeps its invariant.                 *)
THEOREM ServicesInvariant == Spec => []ServicesInv
BY ServicesStart, ServicesMove, PTL DEF Spec

(* The seven models keep to their types, whatever is asked of them.        *)
THEOREM ServicesTypeCorrect == Spec => []TypeOK
<1>1. ServicesInv => TypeOK
    <2> SUFFICES ASSUME ServicesInv PROVE TypeOK
        OBVIOUS
    <2>1. which = "tenancy" => Tenants!TypeOK
        BY TenancyAsPromised, ServicesAssumption DEF ServicesInv, ServicesAssumption
    <2>2. which = "registry" => Registry!TypeOK
        BY RegistryAsPromised, ServicesAssumption DEF ServicesInv, ServicesAssumption
    <2>3. which = "limit" => Limit!LimitTypeOK
        BY LimitAsPromised, ServicesAssumption DEF ServicesInv, ServicesAssumption
    <2>4. which = "zones" => Zone!ZonesTypeOK
        BY ZonesAsPromised, ServicesAssumption DEF ServicesInv, ServicesAssumption
    <2>5. which = "geocode" => Geo!GeoTypeOK
        BY GeoAsPromised, ServicesAssumption DEF ServicesInv, ServicesAssumption
    <2>6. which = "profile" => Profile!ProfileTypeOK
        BY ProfileAsPromised, ServicesAssumption DEF ServicesInv, ServicesAssumption
    <2>7. which = "licences" => Licence!TypeOK
        BY LicencesAsPromised, ServicesAssumption DEF ServicesInv, ServicesAssumption
    <2>8. which \in Models
        BY DEF ServicesInv
    <2> QED  BY <2>1, <2>2, <2>3, <2>4, <2>5, <2>6, <2>7, <2>8 DEF TypeOK, Models
<1> QED  BY <1>1, ServicesInvariant, PTL

(* vehicleController, resolveVehicle: whatever creations, updates,         *)
(* deletions, migrations, cascades and packets overlap, of any number, an  *)
(* entry of the shared hash or of the subscriber's map that disagrees with *)
(* the table about whose the vehicle is has one of the named causes.       *)
THEOREM StaleCaused == Spec => []StaleHasCause
<1>1. ServicesInv => StaleHasCause
    BY DEF ServicesInv, RegistryInv, StaleHasCause
<1> QED  BY <1>1, ServicesInvariant, PTL

(* OnboardController, billingController, EditVehiclePage: with any number  *)
(* of devices, tiers and overlapping requests, a tier has more devices than*)
(* its limit only through the named causes, and a vehicle lacks at most a  *)
(* year for each write of its expiry that a later one had not read.        *)
THEOREM LicencesHeld == Spec => []LicencesHold
<1>1. ServicesInv => LicencesHold
    BY DEF ServicesInv, LicenceInv, LicencesHold
<1> QED  BY <1>1, ServicesInvariant, PTL

(* adminController, auditService: whatever requests overlap, of any number,*)
(* and whichever of their statements fails, an audit entry says what its   *)
(* request wrote, and an answer says what was written.                     *)
THEOREM TenancyHeld == Spec => []TenancyHolds
<1>1. ServicesInv => TenancyHolds
    BY TenancyAsPromised, ServicesAssumption DEF ServicesInv, TenancyHolds, ServicesAssumption
<1> QED  BY <1>1, ServicesInvariant, PTL

(* rateLimit: every address has exactly the tokens that the requests let   *)
(* through and the time since have left it, whichever buckets are pruned;  *)
(* the geofence cache: what a vehicle is checked against, it had at most   *)
(* Ttl before; geocoding: calls of Nominatim are spaced or have waited,    *)
(* cached addresses are those of their places and one request at most is   *)
(* under way of each place for a browser; the organisation's profile: what *)
(* was saved can be read, and the log of the saves is true.  Each with any *)
(* number of clients, places and saves.                                    *)
THEOREM ServicesHeld == Spec => []ServicesHold
<1>1. ServicesInv => ServicesHold
    BY LimitAsPromised, ZonesAsPromised, GeoAsPromised, ProfileAsPromised, ServicesAssumption
       DEF ServicesInv, ServicesHold, ServicesAssumption
<1> QED  BY <1>1, ServicesInvariant, PTL
=============================================================================
