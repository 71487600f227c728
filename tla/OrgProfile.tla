------------------------------ MODULE OrgProfile ------------------------------
(***************************************************************************)
(* The profile of an organisation: the page with its tabs (useProfile and  *)
(* the forms of GeneralTab, NotificationsTab, MapsTab, BrandingTab and     *)
(* SecurityTab) and the service behind it (profileController,              *)
(* profileService, profileRepository).  An update reads the row for the    *)
(* audit entry, upserts the columns it was sent, and writes the entry, each*)
(* in a statement of its own.                                              *)
(*                                                                         *)
(* The API key of the maps is stored encrypted with ENCRYPTION_KEY, which  *)
(* is drawn at random by each process unless the environment has one: the  *)
(* processes are numbered.  The answer to a save is the row itself, without*)
(* the key in clear.                                                       *)
(***************************************************************************)
EXTENDS Naturals, Sequences

CONSTANTS
    Requests,   \* bound: the saves of a behaviour
    Keys,       \* API keys
    Values,     \* what the other columns may hold
    Passwords,
    EnvKey,     \* whether the environment has ENCRYPTION_KEY
    Restarts,   \* bound: how often the API starts anew
    None

(* Assumed where the constants get their values. *)
ProfileAssumption ==
    /\ EnvKey \in BOOLEAN /\ Restarts \in Nat
    /\ None \notin Keys \cup Values /\ None \notin [text : Keys, under : Nat]

Tabs == {"general", "notifications", "maps", "branding"}
Columns == {"general", "notifications", "zoom", "branding", "key"}

VARIABLES
    row,       \* organization_profiles: the columns, None where NULL
    password,  \* users.password
    process,   \* the number of the API's process
    request,   \* each save
    page,      \* what the page shows: the profile, where it comes from, the form of its tab
    log,       \* audit_logs: the saves, each with its old and new
    stored,    \* history: the last value written of each column, the key in clear
    overtaken  \* history: requests under whose reading another has written

profileVars == <<row, password, process, request, page, log, stored, overtaken>>

Empty == [c \in Columns |-> None]

ProfileTypeOK ==
    /\ \A c \in Columns \ {"key"} : row[c] \in Values \cup {None}
    /\ row["key"] # None => row["key"].text \in Keys /\ row["key"].under \in 0..process
    /\ password \in Passwords
    /\ \A q \in Requests : request[q].at \in {"new", "read", "write", "audit", "ok", "error"}
    /\ page.from \in {"nothing", "fetch", "save"}
    /\ \A n \in DOMAIN log : log[n] \in Requests

ProfileInit ==
    /\ row = Empty /\ stored = Empty
    /\ password \in Passwords
    /\ process = 0
    /\ request = [q \in Requests |-> [at |-> "new"]]
    /\ page = [from |-> "nothing", key |-> None, form |-> None]
    /\ log = <<>> /\ overtaken = {}

-----------------------------------------------------------------------------
At(q, place) == request[q].at = place
Become(q, r) == request' = [request EXCEPT ![q] = r]
Go(q, place) == request' = [request EXCEPT ![q].at = place]

Under == IF EnvKey THEN 0 ELSE process
encrypt(k) == [text |-> k, under |-> Under]
(* Another key does not fit, and the text is ''. *)
decrypt(e) == IF e = None THEN None ELSE IF e.under = Under THEN e.text ELSE None

(* getProfile, at once: the page loads, or is loaded again.                *)
FetchProfile ==
    /\ page' = [from |-> "fetch", key |-> decrypt(row["key"]), form |-> None]
    /\ UNCHANGED <<row, password, process, request, log, stored, overtaken>>

(* MapsTab is opened: its form starts with the key of the profile; a key   *)
(* may be typed.                                                           *)
OpenMaps(k) ==
    /\ page.from # "nothing"
    /\ page' = [page EXCEPT !.form = [key |-> IF k = None THEN page.key ELSE k]]
    /\ UNCHANGED <<row, password, process, request, log, stored, overtaken>>

(* A tab is saved; each sends its own columns, and MapsTab the key with    *)
(* them.                                                                   *)
Save(q, tab, value) ==
    /\ At(q, "new")
    /\ page.from # "nothing" /\ (tab = "maps" => page.form # None)
    /\ Become(q, [at |-> "read", tab |-> tab, value |-> value,
                  key |-> IF tab = "maps" THEN page.form.key ELSE None])
    /\ UNCHANGED <<row, password, process, page, log, stored, overtaken>>

(* updateProfile, updateLogo: the row for the audit entry.  An empty key is*)
(* not encrypted and stays a column api_key, which the table does not have.*)
ReadOld(q) ==
    /\ At(q, "read")
    /\ LET r == request[q]
       IN  Become(q, [at |-> "write", tab |-> r.tab, value |-> r.value, key |-> r.key, old |-> row])
    /\ UNCHANGED <<row, password, process, page, log, stored, overtaken>>

Fails(q) == request[q].tab = "maps" /\ request[q].key = None

RefuseEmptyKey(q) ==
    /\ At(q, "write") /\ Fails(q)
    /\ Go(q, "error")
    /\ UNCHANGED <<row, password, process, page, log, stored, overtaken>>

(* The columns that a save writes. *)
Written(r, clear) ==
    CASE r.tab = "maps" -> [c \in {"zoom", "key"} |->
                              IF c = "zoom" THEN r.value ELSE IF clear THEN r.key ELSE encrypt(r.key)]
      [] OTHER -> [c \in {r.tab} |-> r.value]

Over(new, old) == [c \in Columns |-> IF c \in DOMAIN new THEN new[c] ELSE old[c]]

(* Mutant: the whole row is written as it was read. *)
UpsertWhole(r) == Over(Written(r, FALSE), r.old)

(* INSERT ... ON CONFLICT DO UPDATE SET of the columns sent. *)
Upsert(r) == Over(Written(r, FALSE), row)

upsertProfile(q) ==
    /\ At(q, "write") /\ ~Fails(q)
    /\ row' = Upsert(request[q])
    /\ stored' = Over(Written(request[q], TRUE), stored)
    /\ overtaken' = overtaken \cup {p \in Requests \ {q} : At(p, "write")}
    /\ LET r == request[q]
       IN  Become(q, [at |-> "audit", tab |-> r.tab, value |-> r.value, key |-> r.key,
                      old |-> r.old, new |-> row'])
    /\ UNCHANGED <<password, process, page, log>>

(* createAuditLog; then the answer to a save, the row with its encrypted   *)
(* key.                                                                    *)
createAuditLog(q) ==
    /\ At(q, "audit")
    /\ log' = Append(log, q)
    /\ Go(q, "ok")
    /\ page' = IF request[q].tab = "security" THEN page ELSE [page EXCEPT !.from = "save", !.key = None]
    /\ UNCHANGED <<row, password, process, stored, overtaken>>

(* What was written stays, and the page is told of an error. *)
AuditFails(q) ==
    /\ At(q, "audit")
    /\ Go(q, "error")
    /\ UNCHANGED <<row, password, process, page, log, stored, overtaken>>

(* changePassword: the password is read and compared, then written. *)
ReadPassword(q, current, new) ==
    /\ At(q, "new")
    /\ Become(q, IF current = password THEN [at |-> "write", tab |-> "security", password |-> new]
                 ELSE [at |-> "error", tab |-> "security"])
    /\ UNCHANGED <<row, password, process, page, log, stored, overtaken>>

WritePassword(q) ==
    /\ At(q, "write") /\ request[q].tab = "security"
    /\ password' = request[q].password
    /\ Go(q, "audit")
    /\ UNCHANGED <<row, process, page, log, stored, overtaken>>

Restart ==
    /\ process < Restarts
    /\ process' = process + 1
    /\ request' = [q \in Requests |-> IF request[q].at \in {"new", "ok"} THEN request[q]
                                      ELSE [request[q] EXCEPT !.at = "error"]]
    /\ UNCHANGED <<row, password, page, log, stored, overtaken>>

ProfileNext ==
    \/ FetchProfile \/ Restart
    \/ \E k \in Keys \cup {None} : OpenMaps(k)
    \/ \E q \in Requests :
          \/ \E t \in Tabs, v \in Values : Save(q, t, v)
          \/ \E c, n \in Passwords : ReadPassword(q, c, n)
          \/ ReadOld(q)
          \/ At(q, "write") /\ request[q].tab \in Tabs /\ (RefuseEmptyKey(q) \/ upsertProfile(q))
          \/ createAuditLog(q) \/ AuditFails(q) \/ WritePassword(q)

ProfileSpec == ProfileInit /\ [][ProfileNext]_profileVars

-----------------------------------------------------------------------------
(* upsertProfile: saves of different tabs that overlap lose nothing of each*)
(* other; every column has what was last written of it, the key included,  *)
(* which can be read back as long as the process that wrote it lives.      *)
NothingIsLost ==
    /\ \A c \in Columns \ {"key"} : row[c] = stored[c]
    /\ row["key"] = None <=> stored["key"] = None
    /\ row["key"] # None =>
          IF EnvKey \/ row["key"].under = process THEN decrypt(row["key"]) = stored["key"]
          ELSE decrypt(row["key"]) = None

(* profileService: the audit log has an entry of every save answered with  *)
(* success and of no other, and unless another save came between reading   *)
(* and writing, old and new differ only in what the save was sent.         *)
LogIsTrue ==
    /\ \A q \in Requests : At(q, "ok") <=> \E n \in DOMAIN log : log[n] = q
    /\ \A q \in Requests \ overtaken : "new" \in DOMAIN request[q] /\ "old" \in DOMAIN request[q] =>
          \A c \in Columns :
              request[q].new[c] # request[q].old[c] => c \in DOMAIN Written(request[q], FALSE)

(* The profile keeps every save, and its log tells what happened. *)
ProfileHolds == NothingIsLost /\ LogIsTrue
=============================================================================
