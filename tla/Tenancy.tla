------------------------------- MODULE Tenancy -------------------------------
(***************************************************************************)
(* Organisations, users and groups: the handlers of adminController that   *)
(* create, update and delete them, and the audit entry each writes after   *)
(* its answer (auditService).  A handler is a sequence of statements, each *)
(* in a transaction of its own: a check that reads, the write of the row,  *)
(* the filter of a dealer's list, the replacement of the assignments (one  *)
(* step here, see Replacement), and the audit entry.  Attributes that no   *)
(* guard reads are left out: a body names some of them or does not.        *)
(***************************************************************************)
EXTENDS FiniteSets

CONSTANTS
    OrgIds, UserIds, GroupIds,  \* bound: the identifiers that may be handed out
    Emails,
    Bodies,                     \* bound: what the bodies of updates name
    FirstTables,                \* bound: organisations, users and groups of a first state
    Vehicles,                   \* vehicles there are to assign
    Requests,                   \* bound: the requests of a behaviour
    Faults,                     \* among "audit", "db", "crash"
    Absent,                     \* no row
    None                        \* NULL, or undefined

(* organizations.type; 'super' is for every guard what 'customer' is.      *)
Types == {"dealer", "customer"}

(* A body names of an organisation its type, of a user its organisation and*)
(* e-mail, all of them when it creates, or other columns.                  *)
AllBodies == [org : OrgIds \cup {None}, type : Types \cup {None}, email : Emails \cup {None}, columns : BOOLEAN]

OrgRows == [parent : OrgIds \cup {None}, type : Types]
UserRows == [org : OrgIds, email : Emails]
Tables == [orgs : [OrgIds -> OrgRows \cup {Absent}], users : [UserIds -> UserRows \cup {Absent}],
           groups : [GroupIds -> OrgIds \cup {Absent}]]

(* Assumed where the constants get their values. *)
TenancyAssumption ==
    /\ None \notin OrgIds \cup UserIds \cup GroupIds \cup Emails \cup Vehicles
    /\ \A list \in (SUBSET GroupIds) \cup (SUBSET Vehicles) : list # None
    /\ None \notin {"ok", "error"} \cup Types
    /\ Absent \notin OrgRows \cup UserRows
    /\ Absent \notin OrgIds
    /\ Bodies \subseteq AllBodies
    /\ FirstTables \subseteq Tables
    /\ OrgIds \cap UserIds = {} /\ OrgIds \cap GroupIds = {} /\ UserIds \cap GroupIds = {}
    /\ Faults \subseteq {"audit", "db", "crash"}

VARIABLES
    orgs,     \* organizations: the parent of each, or None, and its type
    users,    \* users: the organisation and e-mail of each
    groups,   \* groups: the organisation of each
    members,  \* user_groups
    fleets,   \* vehicle_groups, as <<group, vehicle>>
    req,      \* each request
    audit     \* audit_logs: <<request, action>>

tables == <<orgs, users, groups, members, fleets>>
vars == <<tables, req, audit>>

Kinds == {"org", "user", "group"}
Actors == OrgIds \cup {"superadmin"}
Changes == {"row", "list"}

Ids(kind) == CASE kind = "org" -> OrgIds [] kind = "user" -> UserIds [] kind = "group" -> GroupIds
Choices(kind) ==
    {None} \cup (CASE kind = "org" -> {} [] kind = "user" -> SUBSET GroupIds [] kind = "group" -> SUBSET Vehicles)

(* With the references that the schema keeps: no assignment of what is not *)
(* there.                                                                  *)
TypeOK ==
    /\ orgs \in [OrgIds -> OrgRows \cup {Absent}]
    /\ users \in [UserIds -> UserRows \cup {Absent}]
    /\ groups \in [GroupIds -> OrgIds \cup {Absent}]
    /\ members \subseteq {u \in UserIds : users[u] # Absent} \X {g \in GroupIds : groups[g] # Absent}
    /\ fleets \subseteq {g \in GroupIds : groups[g] # Absent} \X Vehicles
    /\ \A q \in Requests :
          /\ req[q].at \in {"new", "write", "filter", "assign", "audit", "end"}
          /\ req[q].answer \in {None, "ok", "error"}
          /\ req[q].changed \subseteq Changes
    /\ audit \subseteq Requests \X {"CREATED", "UPDATED", "DELETED"}

Init ==
    /\ \E t \in FirstTables : orgs = t.orgs /\ users = t.users /\ groups = t.groups
    /\ members = {}
    /\ fleets = {}
    /\ req = [q \in Requests |-> [at |-> "new", answer |-> None, list |-> None, changed |-> {}]]
    /\ audit = {}

-----------------------------------------------------------------------------
(* Ownership *)

OrgOf(kind, id) ==
    CASE kind = "org" -> IF orgs[id] = Absent THEN Absent ELSE id
      [] kind = "user" -> IF users[id] = Absent THEN Absent ELSE users[id].org
      [] kind = "group" -> groups[id]

Exists(kind, id) == OrgOf(kind, id) # Absent
IsChild(o, actor) == orgs[o] # Absent /\ orgs[o].parent = actor
OwnOrChild(o, actor) == o # Absent /\ ((o = actor /\ Exists("org", o)) \/ IsChild(o, actor))

-----------------------------------------------------------------------------
(* Steps of a request *)

At(q, place) == req[q].at = place

(* What is remembered of a request that is answered, and when it is over.  *)
Rest(r, place, answer, lost) ==
    [at |-> place, op |-> r.op, list |-> IF r.list = None THEN None ELSE {},
     answer |-> answer, changed |-> r.changed, lost |-> lost]
Over(r, answer, lost) == Rest(r, "end", answer, lost)
Leave(q, answer) == req' = [req EXCEPT ![q] = Over(req[q], answer, FALSE)]

(* A request arrives and reads whether it may: 403 and 404 end it here, for*)
(* an actor who is not a superadmin and not permitted, and for an update of*)
(* what is not there.                                                      *)
Receive(q, r, permitted) ==
    /\ req' = [req EXCEPT ![q] =
           IF permitted /\ (r.op = "update" => Exists(r.kind, r.id)) THEN r ELSE Over(r, "error", FALSE)]
    /\ UNCHANGED <<tables, audit>>

(* Mutant: the entry is forgotten when there is no list to assign. *)
AfterUnlogged(r) == IF r.list = None THEN "end" ELSE "assign"

(* A dealer's groups for a user are looked at one by one first. *)
After(r) == IF r.list = None THEN "audit" ELSE IF r.filters THEN "filter" ELSE "assign"

(* The row `id` is written; `org` is the organisation that the rest of the *)
(* handler goes by: targetOrgId, or updated.org_id.                        *)
Wrote(q, id, org) ==
    LET r == [req[q] EXCEPT !.changed = {"row"}, !.id = id, !.org = org]
    IN  req' = [req EXCEPT ![q] = IF r.list = None THEN Rest(r, After(r), "ok", FALSE)
                                  ELSE [r EXCEPT !.at = After(r), !.type = None, !.email = None]]

(* What REFERENCES and UNIQUE(email) accept. *)
Accepted(r) ==
    /\ r.org # None => Exists("org", r.org)
    /\ r.email # None => \A u \in UserIds \ {r.id} : Exists("user", u) => users[u].email # r.email

Given(new, old) == IF new = None THEN old ELSE new

InsertOrg(id, r) == orgs' = [orgs EXCEPT ![id] = [parent |-> r.org, type |-> r.type]] /\ UNCHANGED <<users, groups>>
InsertUser(id, r) == users' = [users EXCEPT ![id] = [org |-> r.org, email |-> r.email]] /\ UNCHANGED <<orgs, groups>>
InsertGroup(id, r) == groups' = [groups EXCEPT ![id] = r.org] /\ UNCHANGED <<orgs, users>>

(* The INSERT; what it refuses goes to the error handler.                  *)
Create(q) ==
    LET r == req[q]
    IN  /\ At(q, "write")
        /\ \/ /\ ~Accepted(r)
              /\ Leave(q, "error")
              /\ UNCHANGED <<orgs, users, groups>>
           \/ /\ Accepted(r)
              /\ \E id \in Ids(r.kind) :
                    /\ ~Exists(r.kind, id)
                    /\ Wrote(q, id, r.org)
                    /\ CASE r.kind = "org" -> InsertOrg(id, r)
                         [] r.kind = "user" -> InsertUser(id, r)
                         [] r.kind = "group" -> InsertGroup(id, r)
        /\ UNCHANGED <<members, fleets, audit>>

(* The UPDATE: it may give an organisation another type, and a user        *)
(* another e-mail or organisation; GroupModel.update knows no orgId.       *)
UpdateOrg(q) ==
    LET r == req[q]
    IN  /\ Wrote(q, r.id, None)
        /\ orgs' = [orgs EXCEPT ![r.id].type = Given(r.type, @)]
        /\ UNCHANGED <<users, groups, members, fleets>>
UpdateUser(q) ==
    LET r == req[q]
        row == [org |-> Given(r.org, users[r.id].org), email |-> Given(r.email, users[r.id].email)]
    IN  /\ Wrote(q, r.id, row.org)
        /\ users' = [users EXCEPT ![r.id] = row]
        /\ UNCHANGED <<orgs, groups, members, fleets>>
UpdateGroup(q) == Wrote(q, req[q].id, None) /\ UNCHANGED tables

(* With no column named, or the row gone since the check, the model returns*)
(* null, and reading null.name throws once the answer is out; with a list, *)
(* the assignments come first.  An UPDATE that is refused, for an e-mail in*)
(* use or an organisation that is not there, goes to the error handler.    *)
Update(q) ==
    LET r == req[q]
        found == r.columns /\ Exists(r.kind, r.id)
    IN  /\ At(q, "write")
        /\ \/ /\ found /\ Accepted(r)
              /\ CASE r.kind = "org" -> UpdateOrg(q)
                   [] r.kind = "user" -> UpdateUser(q)
                   [] r.kind = "group" -> UpdateGroup(q)
           \/ /\ found /\ ~Accepted(r)
              /\ Leave(q, "error")
              /\ UNCHANGED tables
           \/ /\ ~found
              /\ IF r.list = None THEN Leave(q, "ok")
                 ELSE req' = [req EXCEPT ![q].at = After(r)]
              /\ UNCHANGED tables
        /\ UNCHANGED audit

(* A dealer's list keeps the groups that belong to the organisation fixed  *)
(* at the write; an UPDATE that returned null makes its first look throw.  *)
Filter(q) ==
    LET r == req[q]
    IN  /\ At(q, "filter")
        /\ IF r.changed = {}
           THEN Leave(q, "error")
           ELSE req' = [req EXCEPT ![q].at = "assign",
                                   ![q].list = {g \in @ : OwnOrChild(groups[g], r.org)}]
        /\ UNCHANGED <<tables, audit>>

(* A user, group or vehicle that is gone makes an INSERT fail. *)
AssignThrows(q) ==
    LET r == req[q]
    IN  \/ r.list # {} /\ ~Exists(r.kind, r.id)
        \/ r.kind = "user" /\ \E g \in r.list : ~Exists("group", g)

(* Mutant: the assignments are not awaited, and nobody sees them fail. *)
AssignUnawaited(q) ==
    /\ At(q, "assign")
    /\ req' = [req EXCEPT ![q] = Rest(req[q], "audit", "ok", FALSE)]
    /\ UNCHANGED <<tables, audit>>

Replaced(table, id, list) == {p \in table : p[1] # id} \cup ({id} \X list)

(* The assignments, which createUser leaves alone when no group is left,   *)
(* then the answer, and the audit entry unless `updated` is null.          *)
Assign(q) ==
    LET r == req[q]
        place == IF r.changed = {} THEN "end" ELSE "audit"
    IN  /\ At(q, "assign")
        /\ IF AssignThrows(q) THEN Leave(q, "error") /\ UNCHANGED <<members, fleets>>
           ELSE /\ req' = [req EXCEPT ![q] =
                      Rest([r EXCEPT !.changed = @ \cup {"list"}], place, "ok", FALSE)]
                /\ members' = IF r.kind = "user" /\ (r.op = "update" \/ r.list # {})
                              THEN Replaced(members, r.id, r.list) ELSE members
                /\ fleets' = IF r.kind = "group" THEN Replaced(fleets, r.id, r.list) ELSE fleets
        /\ UNCHANGED <<orgs, users, groups, audit>>

-----------------------------------------------------------------------------
(* DELETE, with what the schema does to the rows that refer to it: users   *)
(* and groups go with their organisation, assignments with either end, and *)
(* child organisations lose their parent.                                  *)

Orphaned(row, gone) == IF row # Absent /\ row.parent \in gone THEN [row EXCEPT !.parent = None] ELSE row

(* Mutant: the assignments of what is deleted stay. *)
WithoutCascade(gone) ==
    /\ orgs' = [o \in OrgIds |-> IF o \in gone THEN Absent ELSE Orphaned(orgs[o], gone)]
    /\ users' = [u \in UserIds |->
                    IF u \in gone \/ (Exists("user", u) /\ users[u].org \in gone) THEN Absent ELSE users[u]]
    /\ groups' = [g \in GroupIds |-> IF g \in gone \/ groups[g] \in gone THEN Absent ELSE groups[g]]
    /\ UNCHANGED <<members, fleets>>

Without(gone) ==
    LET users1 == [u \in UserIds |->
                     IF u \in gone \/ (Exists("user", u) /\ users[u].org \in gone)
                     THEN Absent ELSE users[u]]
        groups1 == [g \in GroupIds |-> IF g \in gone \/ groups[g] \in gone THEN Absent ELSE groups[g]]
    IN  /\ orgs' = [o \in OrgIds |-> IF o \in gone THEN Absent ELSE Orphaned(orgs[o], gone)]
        /\ users' = users1
        /\ groups' = groups1
        /\ members' = {p \in members : users1[p[1]] # Absent /\ groups1[p[2]] # Absent}
        /\ fleets' = {p \in fleets : groups1[p[1]] # Absent}

Delete(q) ==
    LET r == req[q]
    IN  /\ At(q, "write")
        /\ IF Exists(r.kind, r.id)
           THEN Without({r.id}) /\ Wrote(q, r.id, None)
           ELSE Leave(q, "error") /\ UNCHANGED tables
        /\ UNCHANGED audit

-----------------------------------------------------------------------------
(* AuditService.log, which swallows its own errors. *)

Action(op) == CASE op = "create" -> "CREATED" [] op = "update" -> "UPDATED" [] op = "delete" -> "DELETED"

Log(q) ==
    /\ At(q, "audit")
    /\ audit' = audit \cup {<<q, Action(req[q].op)>>}
    /\ Leave(q, "ok")
    /\ UNCHANGED tables

LogFails(q) ==
    /\ "audit" \in Faults
    /\ At(q, "audit")
    /\ req' = [req EXCEPT ![q] = Over(req[q], "ok", TRUE)]
    /\ UNCHANGED <<tables, audit>>

(* Postgres refuses a statement for a reason of its own: next(err). *)
StatementFails(q) ==
    /\ "db" \in Faults
    /\ At(q, "write") \/ At(q, "filter") \/ At(q, "assign")
    /\ Leave(q, "error")
    /\ UNCHANGED <<tables, audit>>

(* The API process dies with the requests it was serving. *)
Crash ==
    /\ "crash" \in Faults
    /\ \E q \in Requests : ~At(q, "new") /\ ~At(q, "end")
    /\ req' = [q \in Requests |->
           IF At(q, "new") \/ At(q, "end") THEN req[q]
           ELSE Over(req[q], req[q].answer, TRUE)]
    /\ UNCHANGED <<tables, audit>>

-----------------------------------------------------------------------------
NoBody == [org |-> None, type |-> None, email |-> None, columns |-> TRUE]
Creating(kind) ==
    {b \in AllBodies : /\ b.columns
                       /\ kind # "org" => b.org # None
                       /\ kind = "org" <=> b.type # None
                       /\ kind = "user" <=> b.email # None}
Changing(kind) ==
    {b \in Bodies : /\ b.org # None \/ b.email # None => kind = "user" /\ b.columns
                    /\ b.type # None => kind = "org" /\ b.columns}

Request(op, kind, id, actor, body, list) ==
    [at |-> "write", op |-> op, kind |-> kind, id |-> id, org |-> body.org, type |-> body.type,
     email |-> body.email, columns |-> body.columns, list |-> list,
     filters |-> kind = "user" /\ list \notin {None, {}} /\ actor # "superadmin",
     answer |-> None, changed |-> {}, lost |-> FALSE]

(* What a handler permits a dealer of organisation d; a superadmin may do  *)
(* anything.                                                               *)
Anyone(r, d) == d \in OrgIds
ForCustomer(r, d) == r.type = "customer"
InOwnTree(r, d) == OwnOrChild(r.org, d)
OfOwn(r, d) == OrgOf(r.kind, r.id) = d
OfOwnTree(r, d) == OwnOrChild(OrgOf(r.kind, r.id), d)
Child(r, d) == IsChild(r.id, d)
NotAnotherDealer(r, d) ==
    LET o == OrgOf("user", r.id)
    IN  o # Absent /\ ~(o # d /\ orgs[o].type = "dealer")

Ask(q, r, actor, Permits(_, _)) == Receive(q, r, actor = "superadmin" \/ Permits(r, actor))

(* A dealer's organisations and groups are created under its own, a        *)
(* superadmin's anywhere.                                                  *)
ReceiveCreate(q, kind, Permits(_, _)) ==
    \E actor \in Actors, b \in Creating(kind), list \in Choices(kind) :
        /\ actor # "superadmin" /\ kind # "user" => b.org = actor
        /\ Ask(q, Request("create", kind, None, actor, b, list), actor, Permits)

ReceiveUpdate(q, kind, Permits(_, _)) ==
    \E actor \in Actors, id \in Ids(kind), b \in Changing(kind), list \in Choices(kind) :
        Ask(q, Request("update", kind, id, actor, b, list), actor, Permits)

ReceiveDelete(q, kind, Permits(_, _)) ==
    \E actor \in Actors, id \in Ids(kind) :
        Ask(q, Request("delete", kind, id, actor, NoBody, None), actor, Permits)

Is(q, op, kind) == req[q].at \in {"write", "filter", "assign"} /\ req[q].op = op /\ req[q].kind = kind
Ends(q) == StatementFails(q) \/ Log(q) \/ LogFails(q)

(* The handlers. *)

createOrg(q) ==
    \/ At(q, "new") /\ ReceiveCreate(q, "org", ForCustomer)
    \/ Is(q, "create", "org") /\ Create(q)

updateOrg(q) ==
    \/ At(q, "new") /\ ReceiveUpdate(q, "org", OfOwnTree)
    \/ Is(q, "update", "org") /\ Update(q)

deleteOrg(q) ==
    \/ At(q, "new") /\ ReceiveDelete(q, "org", Child)
    \/ Is(q, "delete", "org") /\ Delete(q)

createUser(q) ==
    \/ At(q, "new") /\ ReceiveCreate(q, "user", InOwnTree)
    \/ Is(q, "create", "user") /\ (Create(q) \/ Filter(q) \/ Assign(q))

updateUser(q) ==
    \/ At(q, "new") /\ ReceiveUpdate(q, "user", NotAnotherDealer)
    \/ Is(q, "update", "user") /\ (Update(q) \/ Filter(q) \/ Assign(q))

deleteUser(q) ==
    \/ At(q, "new") /\ ReceiveDelete(q, "user", OfOwn)
    \/ Is(q, "delete", "user") /\ Delete(q)

createGroup(q) ==
    \/ At(q, "new") /\ ReceiveCreate(q, "group", Anyone)
    \/ Is(q, "create", "group") /\ (Create(q) \/ Assign(q))

updateGroup(q) ==
    \/ At(q, "new") /\ ReceiveUpdate(q, "group", OfOwnTree)
    \/ Is(q, "update", "group") /\ (Update(q) \/ Assign(q))

deleteGroup(q) ==
    \/ At(q, "new") /\ ReceiveDelete(q, "group", OfOwnTree)
    \/ Is(q, "delete", "group") /\ Delete(q)

Next ==
    \/ \E q \in Requests :
          \/ createOrg(q) \/ updateOrg(q) \/ deleteOrg(q)
          \/ createUser(q) \/ updateUser(q) \/ deleteUser(q)
          \/ createGroup(q) \/ updateGroup(q) \/ deleteGroup(q)
          \/ Ends(q)
    \/ Crash

Spec == Init /\ [][Next]_vars

-----------------------------------------------------------------------------
(* auditService.js:3: changes are logged.  Whatever requests overlap and   *)
(* whatever is deleted under them, a request that ended well and changed a *)
(* row has its entry, and an entry stands for a row that was changed and a *)
(* request that was answered with success.                                 *)
EntriesMatchWrites ==
    \A q \in Requests :
        LET r == req[q]
        IN  /\ At(q, "end") /\ r.answer = "ok" /\ "row" \in r.changed /\ ~r.lost =>
                  <<q, Action(r.op)>> \in audit
            /\ \A a \in {"CREATED", "UPDATED", "DELETED"} :
                  <<q, a>> \in audit => r.answer = "ok" /\ "row" \in r.changed /\ a = Action(r.op)

(* An answer says what happened: success means that the row and the list   *)
(* are written, except for an update that named no column or lost its row; *)
(* an error, also one of the INSERT or UPDATE itself, means that nothing   *)
(* is, except for the row of a request whose list could not be assigned.   *)
AnswerIsTrue ==
    \A q \in Requests :
        LET r == req[q]
        IN  /\ r.answer = "ok" =>
                  /\ r.list # None => "list" \in r.changed
                  /\ r.op # "update" => "row" \in r.changed
            /\ r.answer = "error" =>
                  /\ "list" \notin r.changed
                  /\ "row" \in r.changed => r.list # None
=============================================================================
