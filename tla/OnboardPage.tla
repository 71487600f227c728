---------------------------- MODULE OnboardPage -----------------------------
(***************************************************************************)
(* OnBoardDevicePage: a licence tier and a number are chosen and compared  *)
(* with the quota that the page has read, then as many rows are filled in  *)
(* and submitted for a new user or one of an organisation.  The server     *)
(* (onboardDevices, here in one step; Licences has its overlaps) compares  *)
(* again.  Two seconds after a success the page is left, and until then it *)
(* can be submitted again.                                                 *)
(***************************************************************************)
EXTENDS Naturals, Sequences, FiniteSets

CONSTANTS
    Imeis,
    Tiers,
    Own, Below,   \* the dealer's organisation, and the one below it
    Mails,        \* the e-mail addresses a new user is given
    MostRows,     \* bound: the number of devices that are asked for
    MostLimit,    \* bound: the limit of a tier
    Firsts,       \* the limits in the beginning, one of these
    Roles,        \* of "dealer", "superadmin"
    Acts,         \* bound: what the user and the others do
    None          \* nothing: an empty field, a quota that is not there

(* What a submission comes to. *)
Results == {"user", "registered", "blank", "quota", "none"}

(* Assumed where the constants get their values. *)
OnboardAssumption ==
    /\ IsFiniteSet(Imeis) /\ Tiers # {} /\ Own # Below
    /\ None \notin Imeis \cup Mails \cup {Own, Below} \cup Results /\ Mails \cap {Own, Below} = {}
    /\ Firsts \subseteq [{Own, Below} -> [Tiers -> 0..MostLimit]]
    /\ {MostRows, MostLimit, Acts} \subseteq Nat /\ Roles \subseteq {"dealer", "superadmin"}

VARIABLES
    role,     \* of the page's user
    limits,   \* device_limits: of each organisation, of each tier
    devices,  \* the device with each identifier: [org, tier], None without one
    taken,    \* the identifiers that have a vehicle, and the e-mail addresses of users
    page,     \* [step, tier, quota, rows, who, upload, submitting, leaving, told, error], see OnboardInit;
              \* in step 3 it is left
    quotas,   \* [asked, answers]: the requests for the quota
    sent,     \* the submissions that run: [rows, tier, who, result, there], there: the
              \* devices that were still available to the page's organisation when the server answered
    history,  \* [checked, lost, again, edited, mine, last]: the quota of step 1; an answer was lost; a
              \* submission began after one had succeeded; a row was changed since the last began; the identifiers that the
              \* page registered, and those of its last submission
    acts

onboardVars == <<role, limits, devices, taken, page, quotas, sent, history, acts>>

Orgs == {Own, Below}

(* getDeviceQuota and onboardDevices: limits[tier] - used[tier], from zero.*)
Used(o, t) == Cardinality({m \in Imeis : devices[m] = [org |-> o, tier |-> t]})
Available(o, t) == IF limits[o][t] > Used(o, t) THEN limits[o][t] - Used(o, t) ELSE 0

OnboardTypeOK ==
    /\ role \in Roles
    /\ limits \in [Orgs -> [Tiers -> 0..MostLimit]]
    /\ \A m \in Imeis : devices[m] # None => devices[m].org \in Orgs /\ devices[m].tier \in Tiers /\ m \in taken
    /\ taken \subseteq Imeis \cup Mails
    /\ page.step \in 1..3 /\ Len(page.rows) <= MostRows
    /\ Len(sent) <= 1
    /\ page.submitting <=> sent # <<>>
    /\ acts <= Acts

(* getDeviceQuota, for a dealer only, with every tier that is chosen. *)
OnboardInit ==
    /\ role \in Roles
    /\ limits \in Firsts
    /\ devices = [m \in Imeis |-> None] /\ taken = {}
    /\ page = [step |-> 1, tier |-> CHOOSE t \in Tiers : TRUE, quota |-> None, rows |-> <<>>, who |-> None,
               upload |-> FALSE, submitting |-> FALSE, leaving |-> FALSE, told |-> FALSE, error |-> None]
    /\ quotas = [asked |-> IF role = "dealer" THEN 1 ELSE 0, answers |-> {}]
    /\ sent = <<>>
    /\ history = [checked |-> None, lost |-> FALSE, again |-> FALSE, edited |-> FALSE, mine |-> {}, last |-> {}]
    /\ acts = 0

Act == acts < Acts /\ acts' = acts + 1

-----------------------------------------------------------------------------
(* The quota is read, arrives in any order, or does not.                   *)
getDeviceQuota ==
    /\ quotas.asked > 0
    /\ quotas' = [asked |-> quotas.asked - 1, answers |-> quotas.answers \cup {[t \in Tiers |-> Available(Own, t)]}]
    /\ UNCHANGED <<role, limits, devices, taken, page, sent, history, acts>>

QuotaArrives(q) ==
    /\ q \in quotas.answers /\ page.step # 3
    /\ quotas' = [quotas EXCEPT !.answers = @ \ {q}]
    /\ page' = [page EXCEPT !.quota = q]
    /\ UNCHANGED <<role, limits, devices, taken, sent, history, acts>>

QuotaFails ==
    /\ quotas.asked > 0
    /\ quotas' = [quotas EXCEPT !.asked = @ - 1]
    /\ UNCHANGED <<role, limits, devices, taken, page, sent, history, acts>>

ChooseTier(t) ==
    /\ page.step = 1 /\ t # page.tier
    /\ Act
    /\ page' = [page EXCEPT !.tier = t]
    /\ quotas' = IF role = "dealer" THEN [quotas EXCEPT !.asked = @ + 1] ELSE quotas
    /\ UNCHANGED <<role, limits, devices, taken, sent, history>>

(* handleStep1Submit: the quota counts if it is there. *)
TooMany(n) == role = "dealer" /\ page.quota # None /\ n > page.quota[page.tier]
handleStep1Submit(n) ==
    /\ page.step = 1
    /\ IF TooMany(n)
       THEN page' = [page EXCEPT !.error = "step1"] /\ UNCHANGED history
       ELSE /\ page' = [page EXCEPT !.error = None, !.step = 2, !.rows = [i \in 1..n |-> None]]
            /\ history' = [history EXCEPT !.checked = page.quota]
    /\ UNCHANGED <<role, limits, devices, taken, quotas, sent, acts>>

(* updateDevice *)
updateDevice(i, m) ==
    /\ page.step = 2 /\ i \in DOMAIN page.rows /\ page.rows[i] # m
    /\ Act
    /\ page' = [page EXCEPT !.rows[i] = m]
    /\ history' = [history EXCEPT !.edited = @ \/ page.leaving \/ page.submitting]
    /\ UNCHANGED <<role, limits, devices, taken, quotas, sent>>

(* A new user's address, or the organisation of an existing one; the rows  *)
(* by hand or as a file, which is not implemented.                         *)
ChooseUser(who) ==
    /\ page.step = 2 /\ page.who # who
    /\ page' = [page EXCEPT !.who = who]
    /\ UNCHANGED <<role, limits, devices, taken, quotas, sent, history, acts>>

ChooseUpload ==
    /\ page.step = 2 /\ Act
    /\ page' = [page EXCEPT !.upload = ~@]
    /\ UNCHANGED <<role, limits, devices, taken, quotas, sent, history>>

(* handleSubmit: rows are looked at only when they are on the screen. *)
Blanks == \E i \in DOMAIN page.rows : page.rows[i] = None
handleSubmit ==
    /\ page.step = 2 /\ ~page.submitting
    /\ Act
    /\ IF ~page.upload /\ Blanks
       THEN page' = [page EXCEPT !.error = "blank", !.told = FALSE] /\ UNCHANGED <<sent, history>>
       ELSE /\ page' = [page EXCEPT !.error = None, !.told = FALSE, !.submitting = TRUE]
            /\ sent' = <<[rows |-> page.rows, tier |-> page.tier, who |-> page.who, result |-> None, there |-> 0]>>
            /\ history' = [history EXCEPT !.again = @ \/ page.leaving, !.edited = FALSE]
    /\ UNCHANGED <<role, limits, devices, taken, quotas>>

-----------------------------------------------------------------------------
(* onboardDevices *)
OrgFor(who) == IF who \in Mails THEN Own ELSE who
Ids(s) == {s.rows[i] : i \in DOMAIN s.rows}
Twice(s) == Cardinality(Ids(s)) < Len(s.rows)

Refusal(s) ==
    CASE s.who = None -> "user"
      [] s.who \in taken -> "registered"
      [] s.who \notin taken \cup {None} /\ None \in Ids(s) -> "blank"
      [] s.who \notin taken \cup {None} /\ None \notin Ids(s) ->
             IF role = "dealer" /\ Len(s.rows) > Available(OrgFor(s.who), s.tier) THEN "quota"
             ELSE IF Twice(s) \/ Ids(s) \cap taken # {} THEN "registered" ELSE "none"

(* Mutant: the rows inserted before one that is refused are kept. *)
onboardDevicesInPart ==
    /\ sent # <<>> /\ sent[1].result = None
    /\ LET s == sent[1]
           new == IF Refusal(s) \in {"none", "registered"} THEN Ids(s) \ taken ELSE {}
       IN  /\ sent' = <<[s EXCEPT !.result = Refusal(s), !.there = Available(Own, s.tier)]>>
           /\ devices' = [m \in Imeis |-> IF m \in new THEN [org |-> OrgFor(s.who), tier |-> s.tier] ELSE devices[m]]
           /\ taken' = taken \cup new
           /\ history' = [history EXCEPT !.mine = @ \cup new]
    /\ UNCHANGED <<role, limits, page, quotas, acts>>

(* All of it or nothing; the answer may be lost. *)
onboardDevices ==
    /\ sent # <<>> /\ sent[1].result = None
    /\ LET s == sent[1]
       IN  /\ sent' = <<[s EXCEPT !.result = Refusal(s), !.there = Available(Own, s.tier)]>>
           /\ IF Refusal(s) = "none"
              THEN /\ devices' = [m \in Imeis |-> IF m \in Ids(s) THEN [org |-> OrgFor(s.who), tier |-> s.tier] ELSE devices[m]]
                   /\ taken' = taken \cup Ids(s) \cup ({s.who} \cap Mails)
                   /\ history' = [history EXCEPT !.mine = @ \cup Ids(s)]
              ELSE UNCHANGED <<devices, taken, history>>
    /\ UNCHANGED <<role, limits, page, quotas, acts>>

(* The answer arrives: a message, after which the page will be left, or an *)
(* error.                                                                  *)
Answered ==
    /\ sent # <<>> /\ sent[1].result # None
    /\ sent' = <<>>
    /\ page' = IF page.step = 3 THEN [page EXCEPT !.submitting = FALSE]
               ELSE IF sent[1].result = "none" THEN [page EXCEPT !.submitting = FALSE, !.told = TRUE, !.leaving = TRUE]
               ELSE [page EXCEPT !.submitting = FALSE, !.error = sent[1].result]
    /\ history' = [history EXCEPT !.last = Ids(sent[1])]
    /\ UNCHANGED <<role, limits, devices, taken, quotas, acts>>

AnswerLost ==
    /\ sent # <<>>
    /\ sent' = <<>>
    /\ page' = [page EXCEPT !.submitting = FALSE, !.error = IF page.step = 3 THEN @ ELSE "lost"]
    /\ history' = [history EXCEPT !.lost = TRUE, !.last = Ids(sent[1])]
    /\ UNCHANGED <<role, limits, devices, taken, quotas, acts>>

(* setTimeout, from the first success on, whatever has happened since. *)
Leave ==
    /\ page.step = 2 /\ page.leaving
    /\ page' = [page EXCEPT !.step = 3]
    /\ UNCHANGED <<role, limits, devices, taken, quotas, sent, history, acts>>

(* Others: setDeviceLimits, onboardDevices, deleteDevice, which leaves the *)
(* vehicle.                                                                *)
OtherLimits(o, t, n) ==
    /\ Act /\ limits[o][t] # n
    /\ limits' = [limits EXCEPT ![o][t] = n]
    /\ UNCHANGED <<role, devices, taken, page, quotas, sent, history>>

OtherOnboards(m, o, t) ==
    /\ Act /\ m \notin taken
    /\ devices' = [devices EXCEPT ![m] = [org |-> o, tier |-> t]] /\ taken' = taken \cup {m}
    /\ UNCHANGED <<role, limits, page, quotas, sent, history>>

OtherDeletes(m) ==
    /\ Act /\ devices[m] # None
    /\ devices' = [devices EXCEPT ![m] = None]
    /\ UNCHANGED <<role, limits, taken, page, quotas, sent, history>>

OnboardNext ==
    \/ getDeviceQuota \/ QuotaFails \/ ChooseUpload \/ handleSubmit \/ onboardDevices \/ Answered \/ AnswerLost \/ Leave
    \/ \E q \in quotas.answers : QuotaArrives(q)
    \/ \E t \in Tiers : ChooseTier(t)
    \/ \E n \in 1..MostRows : handleStep1Submit(n)
    \/ \E m \in Imeis : OtherDeletes(m) \/ (\E i \in 1..MostRows : updateDevice(i, m))
                          \/ (\E o \in Orgs, t \in Tiers : OtherOnboards(m, o, t))
    \/ \E who \in Mails \cup Orgs : ChooseUser(who)
    \/ \E o \in Orgs, t \in Tiers, n \in 0..MostLimit : OtherLimits(o, t, n)

OnboardSpec == OnboardInit /\ [][OnboardNext]_onboardVars

-----------------------------------------------------------------------------
(* handleStep1Submit, onboardDevices: what step 1 let pass is not refused  *)
(* for the quota, unless the quota was not there, has changed since, or the*)
(* devices went to the other organisation, whose quota nobody had compared.*)
QuotaRefusalHasCause ==
    sent # <<>> /\ sent[1].result = "quota" =>
        \/ history.checked = None \/ OrgFor(sent[1].who) # Own
        \/ history.checked[page.tier] # sent[1].there

(* handleSubmit: what the page tells is so.  A message means that the rows *)
(* of the submission are registered; an error that the page registered none*)
(* of them, unless an answer was lost, or they were submitted again.       *)
AnswerIsTrue ==
    /\ page.told => history.last \subseteq history.mine
    /\ page.error \notin {None, "lost"} /\ page.step = 2 =>
           history.last \cap history.mine = {} \/ history.lost \/ history.again

(* The page is left when its rows are registered and nothing is under way, *)
(* unless it was submitted again within those two seconds, or a row changed*)
(* since the submission, which its fields allow.                           *)
NothingIsLeftBehind ==
    page.step = 3 =>
        /\ sent = <<>> \/ history.again
        /\ {page.rows[i] : i \in DOMAIN page.rows} \subseteq history.mine \/ history.edited \/ history.again

OnboardHolds == QuotaRefusalHasCause /\ AnswerIsTrue /\ NothingIsLeftBehind
=============================================================================
