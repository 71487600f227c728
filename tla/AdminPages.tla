----------------------------- MODULE AdminPages -----------------------------
(***************************************************************************)
(* The administrator's pages of users, groups, organisations, zones,       *)
(* vehicles and devices: each shows a list and asks for it again after     *)
(* every change, and most have a form.  A record has a near part, the row  *)
(* of the list, and a far part that the list does not carry: the device    *)
(* limits of a dealer (AddUserModal), the vehicles of a group              *)
(* (AddGroupModal), the vehicles that a zone is assigned to                *)
(* (GeofencesAdminPage).                                                   *)
(*                                                                         *)
(* Requests are answered in any order, none is ever cancelled, and a form  *)
(* can be closed and another opened while they run.  An answer says        *)
(* nothing of the form or the panel that asked.                            *)
(***************************************************************************)
EXTENDS Naturals, Sequences, FiniteSets

CONSTANTS
    Kinds,  \* the pages: of "users", "groups", "orgs", "zones", "vehicles", "devices"
    Ids,    \* the records that there are or can be
    Firsts, \* those that there are in the beginning, one of these sets
    Saves,  \* bound: the changes of the user that run at once
    Acts,   \* bound: what the user of the page and the others do
    None,   \* no record: a new one, nothing shown
    Gone    \* the row of a record that was deleted

(* Assumed where the constants get their values. *)
PagesAssumption ==
    /\ Kinds \subseteq {"users", "groups", "orgs", "zones", "vehicles", "devices"}
    /\ Firsts \subseteq SUBSET Ids /\ IsFiniteSet(Ids) /\ None # Gone
    /\ \A no \in {None, Gone} : no \notin Ids /\ no \notin [value : Nat, at : Nat, by : Nat]
    /\ {Acts, Saves} \subseteq Nat

VARIABLES
    kind,       \* the page
    rows,       \* the rows: [value, at, by], None before, Gone after
    fars,       \* the far parts: [value, at]
    meant,      \* history: the values that somebody last entered, [near, far]
    shown,      \* the list
    lists,      \* requests for it: [asked, answers, orgs], the answers in the order of reading
    form,       \* the form; it keeps its contents while it is closed
    farAsks,    \* requests of the form for a far part
    saves,      \* what was submitted and runs
    panel,      \* the record of the details panel, and whose vehicles it lists
    panelAsks,  \* requests of the panel
    history,    \* [muddled, doubled, behind, crossed], see the properties
    acts

pageVars == <<kind, rows, fars, meant, shown, lists, form, farAsks, saves, panel, panelAsks, history, acts>>

(* What each page has: where its far part is saved, whether there is a form*)
(* for new records and for old ones, whether a form is disabled while it is*)
(* being saved, and whether there is a panel for details.                  *)
Has(far, new, edits, guarded, details) ==
    [far |-> far, form |-> new, edits |-> edits, guarded |-> guarded, panel |-> details]

UsersAdminPage == Has("apart", TRUE, TRUE, TRUE, TRUE)
GroupsAdminPage == Has("with", TRUE, TRUE, TRUE, TRUE)
OrgsAdminPage == Has("none", TRUE, TRUE, FALSE, FALSE)
GeofencesAdminPage == Has("apart", TRUE, FALSE, FALSE, FALSE)
VehiclesAdminPage == Has("none", FALSE, FALSE, FALSE, TRUE)
DevicesAdminPage == Has("none", FALSE, FALSE, FALSE, FALSE)
Page ==
    CASE kind = "users" -> UsersAdminPage [] kind = "groups" -> GroupsAdminPage
      [] kind = "orgs" -> OrgsAdminPage [] kind = "zones" -> GeofencesAdminPage
      [] kind = "vehicles" -> VehiclesAdminPage [] kind = "devices" -> DevicesAdminPage
HasFar == Page.far # "none"

Stored(id) == rows[id] \notin {None, Gone}
Current == [id \in {i \in Ids : Stored(i)} |-> rows[id]]

(* Fields of a new form, and limits that are not loaded, are zero. *)
Blank == [of |-> None, value |-> 0, at |-> 0]

PageTypeOK ==
    /\ kind \in Kinds
    /\ \A id \in DOMAIN shown : shown[id].at >= 1
    /\ \A id \in Ids : Stored(id) => rows[id].at \in 1..(Acts + 1)
    /\ form.near.of \in {form.of, None} /\ form.far.of \in Ids \cup {None}
    /\ form.open => Page.form
    /\ Page.guarded => Cardinality({s \in saves : s.op # "delete"}) <= 1
    /\ panel.lists # None => kind = "users"
    /\ acts <= Acts

(* A page that is being loaded, or one whose list is there and on which    *)
(* the details of a record are open.                                       *)
PageInit ==
    /\ kind \in Kinds
    /\ \E First \in Firsts :
        /\ rows = [id \in Ids |-> IF id \in First THEN [value |-> 1, at |-> 1, by |-> 0] ELSE None]
        /\ fars = [id \in Ids |-> IF id \in First THEN [value |-> 1, at |-> 1] ELSE [value |-> 0, at |-> 0]]
        /\ \E of \in {None} \cup (IF Page.panel THEN First ELSE {}) :
            panel = [of |-> of, lists |-> IF kind = "users" THEN of ELSE None]
    /\ shown = IF panel.of = None THEN <<>> ELSE Current
    /\ lists = [asked |-> IF panel.of = None THEN 1 ELSE 0, answers |-> <<>>, orgs |-> kind = "users"]
    /\ meant = [near |-> [id \in Ids |-> 1], far |-> [id \in Ids |-> fars[id].value]]
    /\ form = [open |-> FALSE, of |-> None, row |-> Blank, near |-> Blank, far |-> Blank, typed |-> {},
               foreign |-> FALSE, no |-> 0]
    /\ farAsks = {} /\ saves = {} /\ panelAsks = {}
    /\ history = [muddled |-> {}, doubled |-> {}, behind |-> FALSE, crossed |-> FALSE]
    /\ acts = 0

Act == acts < Acts /\ acts' = acts + 1

-----------------------------------------------------------------------------
(* The list: fetchUsers, fetchData, fetchOrgs, fetchVehicles, fetchDevices *)

ReadList ==
    /\ lists.asked > 0
    /\ lists' = [lists EXCEPT !.asked = @ - 1, !.answers = Append(@, [rows |-> Current, late |-> FALSE])]
    /\ UNCHANGED <<kind, rows, fars, meant, shown, form, farAsks, saves, panel, panelAsks, history, acts>>

(* The n-th answer overtakes those that were read before. *)
Overtaking(n) ==
    [m \in 1..(Len(lists.answers) - 1) |->
        IF m < n THEN [lists.answers[m] EXCEPT !.late = TRUE] ELSE lists.answers[m + 1]]

(* The list is replaced by any answer.  On the groups' page it brings the  *)
(* organisations too, and the effect on them fills an open form again.     *)
ListArrives(n) ==
    /\ n \in DOMAIN lists.answers
    /\ LET a == lists.answers[n]
       IN  /\ lists' = [lists EXCEPT !.answers = Overtaking(n)]
           /\ shown' = a.rows
           /\ history' = [history EXCEPT !.behind =
                            (@ \/ a.late) /\ ~(n = Len(lists.answers) /\ ~a.late /\ a.rows = Current)]
    /\ form' = IF kind = "groups" /\ form.open THEN [form EXCEPT !.near = form.row, !.typed = @ \ {"near"}]
               ELSE form
    /\ UNCHANGED <<kind, rows, fars, meant, farAsks, saves, panel, panelAsks, acts>>

ListFails ==
    /\ lists.asked > 0
    /\ lists' = [lists EXCEPT !.asked = @ - 1]
    /\ history' = [history EXCEPT !.behind = TRUE]
    /\ UNCHANGED <<kind, rows, fars, meant, shown, form, farAsks, saves, panel, panelAsks, acts>>

(* Mutant: the list is not asked for again. *)
AskNothing == UNCHANGED lists

AskList == lists' = [lists EXCEPT !.asked = @ + 1]

-----------------------------------------------------------------------------
(* The form *)

(* The quota of a dealer; two requests for the vehicles of a group. *)
Asks(of) == IF kind = "groups" \/ (kind = "users" /\ of # None) THEN {of} ELSE {}

(* What the effects of the form leave when it is opened on a record, and   *)
(* for a user also when it is closed or the organisations arrive: limits   *)
(* are zero until the quota is there; the vehicles of a group stay those of*)
(* the last form until its own are there.                                  *)
Filled(of, row) ==
    [form EXCEPT !.of = of, !.row = row, !.typed = {}, !.near = row,
                 !.far = IF kind = "groups" THEN @ ELSE Blank, !.foreign = Asks(of) # {}]

Open(of) ==
    /\ Act
    /\ ~form.open /\ Page.form
    /\ of # None => Page.edits /\ of \in DOMAIN shown
    /\ LET row == IF of = None THEN Blank
                  ELSE [of |-> of, value |-> shown[of].value, at |-> shown[of].at]
       IN  form' = [Filled(of, row) EXCEPT !.open = TRUE, !.no = acts + 2]
    /\ farAsks' = farAsks \cup Asks(of)
    /\ UNCHANGED <<kind, rows, fars, meant, shown, lists, saves, panel, panelAsks, history>>

(* onClose, by the user or by a save that ends, of whichever form is open. *)
Closed == IF kind = "users" THEN [Filled(form.of, form.row) EXCEPT !.open = FALSE]
          ELSE [form EXCEPT !.open = FALSE]
Close ==
    /\ form' = IF form.open THEN Closed ELSE form
    /\ farAsks' = IF form.open /\ kind = "users" THEN farAsks \cup Asks(form.of) ELSE farAsks

Cancel ==
    /\ form.open
    /\ Close
    /\ UNCHANGED <<kind, rows, fars, meant, shown, lists, saves, panel, panelAsks, history, acts>>

(* The organisations of the users' page arrive, once: its form begins anew.*)
OrgsArrive ==
    /\ lists.orgs
    /\ lists' = [lists EXCEPT !.orgs = FALSE]
    /\ form' = Filled(form.of, form.row)
    /\ farAsks' = farAsks \cup Asks(form.of)
    /\ UNCHANGED <<kind, rows, fars, meant, shown, saves, panel, panelAsks, history, acts>>

(* The limits or the vehicles of the record that was asked for go into the *)
(* form, whichever record it is on by now, over what the user typed.       *)
FarArrives(of) ==
    /\ of \in farAsks
    /\ farAsks' = farAsks \ {of}
    /\ form' = [form EXCEPT !.far = IF of = None THEN Blank
                                    ELSE [of |-> of, value |-> fars[of].value, at |-> fars[of].at],
                            !.typed = @ \ {"far"}, !.foreign = of # form.of]
    /\ UNCHANGED <<kind, rows, fars, meant, shown, lists, saves, panel, panelAsks, history, acts>>

FarAskFails(of) ==
    /\ of \in farAsks
    /\ farAsks' = farAsks \ {of}
    /\ UNCHANGED <<kind, rows, fars, meant, shown, lists, form, saves, panel, panelAsks, history, acts>>

(* The user enters the fields of a part; each form has its own values. *)
Type(part) ==
    /\ form.open /\ part \notin form.typed
    /\ IF part = "near" THEN form' = [form EXCEPT !.near.value = form.no, !.typed = @ \cup {part}]
       ELSE HasFar /\ form' = [form EXCEPT !.far.value = form.no, !.typed = @ \cup {part}]
    /\ UNCHANGED <<kind, rows, fars, meant, shown, lists, farAsks, saves, panel, panelAsks, history, acts>>

(* handleSubmit: a new record needs its name. *)
Submit ==
    /\ Act
    /\ form.open
    /\ form.of = None => "near" \in form.typed
    /\ Page.guarded => \A s \in saves : s.op = "delete"
    /\ Cardinality(saves) < Saves
    /\ saves' = saves \cup {[op |-> "row", id |-> acts, form |-> form, viewing |-> panel.of]}
    /\ UNCHANGED <<kind, rows, fars, meant, shown, lists, form, farAsks, panel, panelAsks, history>>

-----------------------------------------------------------------------------
(* The server stores what a form holds, all of it.                         *)
(* An untouched part is not what its record holds because the record was   *)
(* written since it was read; the far part also because its form was saved *)
(* before it was there, or got that of another record.                     *)
Excused(part, s, id) ==
    LET f == s.form
        at == IF part = "far" THEN fars[id].at ELSE IF f.of = None THEN 0 ELSE rows[id].at
    IN  \/ f[part].at # at
        \/ part = "far" /\ f.foreign

Muddled(parts, s, id) ==
    {m \in history.muddled : ~(m[1] = id /\ m[2] \in parts \cap s.form.typed)}
        \cup {<<id, p>> : p \in {q \in parts \ s.form.typed : Excused(q, s, id)}}

Meant(parts, s, id) ==
    [p \in {"near", "far"} |->
        IF p \in parts \cap s.form.typed THEN [meant[p] EXCEPT ![id] = s.form[p].value] ELSE meant[p]]

(* The record that the save s is about: one that is there, or a new one. *)
Target(s) == IF s.form.of = None THEN {id \in Ids : rows[id] = None} ELSE {id \in {s.form.of} : Stored(id)}

Parts == IF kind = "groups" THEN {"near", "far"} ELSE {"near"}
StoreRow(s, id) ==
    /\ rows' = [rows EXCEPT ![id] = [value |-> s.form.near.value,
                                     at |-> IF s.form.of = None THEN 1 ELSE @.at + 1,
                                     by |-> IF s.form.of = None THEN s.form.no ELSE @.by]]
    /\ fars' = IF "far" \in Parts THEN [fars EXCEPT ![id] = [value |-> s.form.far.value, at |-> @.at + 1]] ELSE fars
    /\ meant' = Meant(Parts, s, id)

-----------------------------------------------------------------------------
(* The answers *)

(* Limits are sent for a dealer whatever they are, vehicles of a zone when *)
(* some are chosen.                                                        *)
SendsFar(s) == kind = "users" \/ (kind = "zones" /\ "far" \in s.form.typed)

(* The row is stored.  A user whose details were open when his form was    *)
(* submitted is shown again.  The pages of users and groups ask for their  *)
(* list now, the others when the form is closed.                           *)
SaveSucceeds(s) ==
    /\ s \in saves /\ s.op = "row"
    /\ \E id \in Target(s) :
        /\ StoreRow(s, id)
        /\ saves' = (saves \ {s}) \cup (IF SendsFar(s) THEN {[op |-> "far", id |-> s.id, form |-> s.form, on |-> id]} ELSE {})
        /\ LET again == kind = "users" /\ s.form.of # None /\ s.viewing = s.form.of
           IN  /\ panel' = IF again THEN [panel EXCEPT !.of = id] ELSE panel
               /\ history' = [history EXCEPT !.muddled = Muddled(Parts, s, id),
                                             !.crossed = @ \/ (again /\ panel.of # id)]
    /\ IF kind = "zones" /\ SendsFar(s) THEN UNCHANGED lists ELSE AskList
    /\ IF SendsFar(s) THEN UNCHANGED <<form, farAsks>> ELSE Close
    /\ UNCHANGED <<kind, shown, panelAsks, acts>>

(* An error, before the row was stored or after it: the form stays open. *)
SaveFails(s) ==
    /\ s \in saves /\ s.op = "row"
    /\ saves' = saves \ {s}
    /\ \/ UNCHANGED <<rows, fars, meant, history>>
       \/ \E id \in Target(s) :
            /\ StoreRow(s, id)
            /\ history' = [history EXCEPT !.muddled = Muddled(Parts, s, id), !.behind = TRUE,
                                          !.doubled = @ \cup {s.form.no}]
    /\ UNCHANGED <<kind, shown, lists, form, farAsks, panel, panelAsks, acts>>

(* The limits, or the vehicles of a zone that is still there, are stored. *)
FarSucceeds(s) ==
    /\ s \in saves /\ s.op = "far"
    /\ kind = "zones" => Stored(s.on)
    /\ saves' = saves \ {s}
    /\ fars' = [fars EXCEPT ![s.on] = [value |-> s.form.far.value, at |-> @.at + 1]]
    /\ meant' = Meant({"far"}, s, s.on)
    /\ history' = [history EXCEPT !.muddled = Muddled({"far"}, s, s.on)]
    /\ IF kind = "zones" THEN AskList ELSE UNCHANGED lists
    /\ Close
    /\ UNCHANGED <<kind, rows, shown, panel, panelAsks, acts>>

(* That limits failed is not shown, and the form closes; that vehicles     *)
(* failed is, and the form stays with a zone that is already stored.       *)
FarFails(s) ==
    /\ s \in saves /\ s.op = "far"
    /\ saves' = saves \ {s}
    /\ IF kind = "zones"
       THEN /\ history' = [history EXCEPT !.behind = TRUE, !.doubled = @ \cup {s.form.no}]
            /\ UNCHANGED <<form, farAsks>>
       ELSE UNCHANGED history /\ Close
    /\ UNCHANGED <<kind, rows, fars, meant, shown, lists, panel, panelAsks, acts>>

-----------------------------------------------------------------------------
(* Deletion, the details panel, and the others *)

Delete(id) ==
    /\ Act
    /\ id \in DOMAIN shown
    /\ Cardinality(saves) < Saves
    /\ saves' = saves \cup {[op |-> "delete", id |-> acts, on |-> id, viewing |-> panel.of]}
    /\ UNCHANGED <<kind, rows, fars, meant, shown, lists, form, farAsks, panel, panelAsks, history>>

DeleteSucceeds(s) ==
    /\ s \in saves /\ s.op = "delete" /\ Stored(s.on)
    /\ saves' = saves \ {s}
    /\ rows' = [rows EXCEPT ![s.on] = Gone]
    /\ panel' = IF s.viewing = s.on THEN [panel EXCEPT !.of = None] ELSE panel
    /\ AskList
    /\ UNCHANGED <<kind, fars, meant, shown, form, farAsks, panelAsks, history, acts>>

DeleteFails(s) ==
    /\ s \in saves /\ s.op = "delete"
    /\ saves' = saves \ {s}
    /\ \/ UNCHANGED <<rows, history>>
       \/ /\ Stored(s.on)
          /\ rows' = [rows EXCEPT ![s.on] = Gone]
          /\ history' = [history EXCEPT !.behind = TRUE]
    /\ UNCHANGED <<kind, fars, meant, shown, lists, form, farAsks, panel, panelAsks, acts>>

(* handleViewUser, and the panels of the other pages, which ask nothing. *)
View(id) ==
    /\ Act
    /\ Page.panel /\ id \in DOMAIN shown
    /\ panel' = [of |-> id, lists |-> None]
    /\ panelAsks' = IF kind = "users" THEN panelAsks \cup {id} ELSE panelAsks
    /\ history' = [history EXCEPT !.crossed = panelAsks \ {id} # {}]
    /\ UNCHANGED <<kind, rows, fars, meant, shown, lists, form, farAsks, saves>>

(* The vehicles of a user, or none if they could not be read. *)
PanelArrives(id, lists_) ==
    /\ id \in panelAsks /\ lists_ \in {id, None}
    /\ panelAsks' = panelAsks \ {id}
    /\ panel' = [panel EXCEPT !.lists = lists_]
    /\ UNCHANGED <<kind, rows, fars, meant, shown, lists, form, farAsks, saves, history, acts>>

(* Somebody else changes a record. *)
OtherWrites(id) ==
    /\ Act
    /\ Stored(id)
    /\ rows' = [rows EXCEPT ![id].value = acts + 2, ![id].at = @ + 1]
    /\ fars' = IF HasFar THEN [fars EXCEPT ![id] = [value |-> acts + 2, at |-> @.at + 1]] ELSE fars
    /\ meant' = [near |-> [meant.near EXCEPT ![id] = acts + 2],
                 far |-> IF HasFar THEN [meant.far EXCEPT ![id] = acts + 2] ELSE meant.far]
    /\ history' = [history EXCEPT !.behind = TRUE, !.muddled = @ \ ({id} \X {"near", "far"})]
    /\ UNCHANGED <<kind, shown, lists, form, farAsks, saves, panel, panelAsks>>

PageNext ==
    \/ ReadList \/ ListFails \/ Cancel \/ OrgsArrive \/ Submit
    \/ \E n \in DOMAIN lists.answers : ListArrives(n)
    \/ \E of \in Ids \cup {None} : Open(of) \/ FarArrives(of) \/ FarAskFails(of)
    \/ \E part \in {"near", "far"} : Type(part)
    \/ \E s \in saves : SaveSucceeds(s) \/ SaveFails(s) \/ FarSucceeds(s) \/ FarFails(s)
                          \/ DeleteSucceeds(s) \/ DeleteFails(s)
    \/ \E id \in Ids : Delete(id) \/ View(id) \/ OtherWrites(id) \/ PanelArrives(id, id) \/ PanelArrives(id, None)

PageSpec == PageInit /\ [][PageNext]_pageVars

-----------------------------------------------------------------------------
(* The forms: a field that nobody touched in a form is stored as somebody  *)
(* last entered it, unless the record was written after the form had read  *)
(* it, or the form was saved before its far part was there, or with that of*)
(* another record, which an answer brought late or the last form left.     *)
UntouchedIsKept ==
    \A id \in Ids : Stored(id) =>
        /\ rows[id].value = meant.near[id] \/ <<id, "near">> \in history.muddled
        /\ fars[id].value = meant.far[id] \/ <<id, "far">> \in history.muddled

(* fetchUsers and its like: when nothing runs, the list shows what is      *)
(* stored, unless others wrote, a request failed or was answered in vain,  *)
(* or an answer was overtaken by a later one.                              *)
ListFollows ==
    lists.asked = 0 /\ lists.answers = <<>> /\ saves = {} => shown = Current \/ history.behind

(* handleViewUser: the panel lists the vehicles of the user that it shows, *)
(* unless he was opened while the request of another ran, or brought back  *)
(* by a save of his form.                                                  *)
PanelIsOfViewed == panel.of # None => panel.lists \in {None, panel.of} \/ history.crossed

(* AddUserModal, AddGroupModal: a form makes one record, unless it was     *)
(* submitted again after an error that came when the record was stored.    *)
OneRecordPerForm ==
    Page.guarded => \A a, b \in {id \in Ids : Stored(id)} :
        a # b /\ rows[a].by = rows[b].by => rows[a].by \in history.doubled \cup {0}

PageHolds == UntouchedIsKept /\ ListFollows /\ PanelIsOfViewed /\ OneRecordPerForm
=============================================================================
