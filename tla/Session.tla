------------------------------- MODULE Session -------------------------------
(***************************************************************************)
(* Who is signed in: AuthContext, the interceptors of axios and the socket *)
(* of SocketContext in each tab of a browser; the storage that the tabs    *)
(* share and that no tab is told of; and what the server makes of a token  *)
(* (authController, adminController.impersonateUser, authenticate).        *)
(*                                                                         *)
(* While a tab is loading its pages are not there, and with them nothing to*)
(* click; the login page is.  Requests to the server are answered in any   *)
(* order.  A token is its user and a number, and expires at some time.     *)
(***************************************************************************)
EXTENDS Naturals, FiniteSets

CONSTANTS
    Users,
    Under,    \* whom each user may impersonate
    Tabs,     \* those that may be there, some of them or all
    Issues,   \* bound: the tokens handed out, and the tabs but one
    Loads,    \* bound: how often a tab is loaded anew
    AtOnce,   \* bound: the requests under way, beyond which nobody clicks
    None

(* Assumed where the constants get their values. *)
SessionAssumption ==
    /\ Under \in [Users -> SUBSET Users]
    /\ IsFiniteSet(Tabs)
    /\ Issues \in Nat /\ Loads \in Nat /\ AtOnce \in Nat
    /\ None \notin Users \cup (Users \X (1..Issues)) \cup {<<None, 0>>}

VARIABLES
    token, adminToken,  \* localStorage
    tab,                \* each tab: user, socket, loading, at the login page, requests
    expired,            \* the tokens that have
    issued, loads,
    owner,              \* history: the user whose password was last accepted, or who was restored
    leftOver,           \* history: whether adminToken outlived its session
    disturbed,          \* history: tabs under which the token was changed
    switched            \* history: tabs whose user changed while the socket stayed

sessionVars == <<token, adminToken, tab, expired, issued, loads, owner, leftOver, disturbed, switched>>

Open == DOMAIN tab
Tokens == Users \X (1..Issues)
Null == <<None, 0>>   \* what setItem makes of null

SessionTypeOK ==
    /\ token \in Tokens \cup {None, Null}
    /\ adminToken \in Tokens \cup {None, Null}
    /\ \A t \in Open :
          /\ tab[t].user \in Users \cup {None}
          /\ tab[t].socket \in Tokens \cup {None, Null}
          /\ \A r \in tab[t].asked : r.op \in {"login", "logout", "impersonate", "me", "page"}
          /\ tab[t].user = None /\ ~tab[t].loading => tab[t].atLogin
    /\ expired \subseteq Tokens

(* A tab that is loaded: its state is new, and it asks for the user if     *)
(* there is a token.                                                       *)
Loaded(held, admin, atLogin) ==
    [user |-> None, socket |-> None, loading |-> held # None, admin |-> admin # None,
     atLogin |-> atLogin \/ held = None,
     asked |-> IF held = None THEN {} ELSE {[op |-> "me", sent |-> held]}]

SessionInit ==
    /\ token = None /\ adminToken = None
    /\ \E open \in (SUBSET Tabs) \ {{}} : tab = [t \in open |-> Loaded(None, None, TRUE)]
    /\ expired = {} /\ issued = 0 /\ loads = 0
    /\ owner = None /\ leftOver = FALSE /\ disturbed = {} /\ switched = {}

-----------------------------------------------------------------------------
Valid(k) == k \in Tokens \ expired
MayIssue == issued + Cardinality(Open) <= Issues
Fresh(u) == <<u, issued + 1>>

(* Mutant: the socket stays when there is no user any more. *)
SocketStays(t, u, at) ==
    LET held == IF at = None THEN Null ELSE at IN
    [tab[t] EXCEPT !.user = u, !.loading = FALSE, !.atLogin = (u = None),
                   !.socket = IF u # None /\ @ = None THEN held ELSE @]

(* Mutant: a tab without a user is not sent to the login page. *)
PageStays(t, u, at) ==
    LET held == IF at = None THEN Null ELSE at IN
    [tab[t] EXCEPT !.user = u, !.loading = FALSE,
                   !.socket = CASE u = None -> None [] u # None /\ @ = None -> held
                                   [] OTHER -> @]

(* setUser and the effect on [isAuthenticated]: a socket is opened with the*)
(* token of the moment when there was no user, and closed when there is    *)
(* none; one user after another keeps it.                                  *)
SetUser(t, u, at) ==
    LET held == IF at = None THEN Null ELSE at IN
    [tab[t] EXCEPT !.user = u, !.loading = FALSE, !.atLogin = (u = None),
                   !.socket = CASE u = None -> None [] u # None /\ @ = None -> held
                                   [] OTHER -> @]
Switches(t, u) ==
    CASE None \in {u, tab[t].user} -> switched \ {t}
      [] tab[t].user = u -> switched
      [] OTHER -> switched \cup {t}

Without(record, r) == [record EXCEPT !.asked = @ \ {r}]
Others(t) == {w \in Open \ {t} : tab[w].user # None}

Ask(t, r, loading) ==
    /\ Cardinality(UNION {{w} \X tab[w].asked : w \in Open}) < AtOnce
    /\ tab' = [tab EXCEPT ![t].asked = @ \cup {r}, ![t].loading = @ \/ loading]

(* A click in a page; not while another request of the kind is under way.  *)
Clickable(t, op) == tab[t].user # None /\ ~tab[t].loading /\ \A r \in tab[t].asked : r.op # op

Load(t, atLogin) ==
    /\ loads < Loads
    /\ loads' = loads + 1
    /\ tab' = [tab EXCEPT ![t] = Loaded(token, adminToken, atLogin)]
    /\ disturbed' = disturbed \ {t}
    /\ switched' = switched \ {t}
    /\ UNCHANGED <<token, adminToken, expired, issued, owner, leftOver>>

Expire(k) ==
    /\ k[2] <= issued /\ k \notin expired
    /\ \E t \in Open : tab[t].socket = k \/ token = k
    /\ expired' = expired \cup {k}
    /\ UNCHANGED <<token, adminToken, tab, issued, loads, owner, leftOver, disturbed, switched>>

-----------------------------------------------------------------------------
(* login *)

StartLogin(t, u) ==
    /\ tab[t].atLogin /\ tab[t].user = None
    /\ \A r \in tab[t].asked : r.op # "login"
    /\ MayIssue
    /\ Ask(t, [op |-> "login", of |-> u], TRUE)
    /\ UNCHANGED <<token, adminToken, expired, issued, loads, owner, leftOver, disturbed, switched>>

(* The password is right; adminToken is left as it is. *)
LoginAnswer(t, r) ==
    /\ r.op = "login" /\ MayIssue
    /\ issued' = issued + 1
    /\ token' = Fresh(r.of)
    /\ tab' = [tab EXCEPT ![t] = Without(SetUser(t, r.of, Fresh(r.of)), r)]
    /\ owner' = r.of
    /\ leftOver' = (leftOver \/ (adminToken # None /\ token # None))
    /\ disturbed' = (disturbed \ {t}) \cup Others(t)
    /\ switched' = Switches(t, r.of)
    /\ UNCHANGED <<adminToken, expired, loads>>

(* It is wrong: a 401, for which the interceptor removes the token, whoever*)
(* holds it.                                                               *)
LoginRefused(t, r) ==
    /\ r.op = "login"
    /\ token' = None
    /\ tab' = [tab EXCEPT ![t] = Without([@ EXCEPT !.loading = FALSE], r)]
    /\ leftOver' = (leftOver \/ adminToken # None)
    /\ disturbed' = disturbed \cup Others(t) \cup (IF tab[t].user # None THEN {t} ELSE {})
    /\ UNCHANGED <<adminToken, expired, issued, loads, owner, switched>>

-----------------------------------------------------------------------------
(* logout *)

StartLogout(t) ==
    /\ Clickable(t, "logout")
    /\ Ask(t, [op |-> "logout", sent |-> token], TRUE)
    /\ UNCHANGED <<token, adminToken, expired, issued, loads, owner, leftOver, disturbed, switched>>

(* Whatever the answer is. *)
Logout(t, r) ==
    /\ r.op = "logout"
    /\ token' = None /\ adminToken' = None
    /\ tab' = [tab EXCEPT ![t] = Without([SetUser(t, None, None) EXCEPT !.admin = FALSE], r)]
    /\ leftOver' = FALSE
    /\ disturbed' = (disturbed \ {t}) \cup Others(t)
    /\ switched' = Switches(t, None)
    /\ UNCHANGED <<expired, issued, loads, owner>>

-----------------------------------------------------------------------------
(* impersonate *)

StartImpersonate(t, u) ==
    /\ Clickable(t, "impersonate")
    /\ Under[tab[t].user] # {}
    /\ MayIssue
    /\ Ask(t, [op |-> "impersonate", of |-> u, sent |-> token], TRUE)
    /\ UNCHANGED <<token, adminToken, expired, issued, loads, owner, leftOver, disturbed, switched>>

(* The token of the moment is kept, which another tab may have removed.    *)
ImpersonateAnswer(t, r) ==
    /\ r.op = "impersonate"
    /\ Valid(r.sent) /\ r.of \in Under[r.sent[1]]
    /\ MayIssue
    /\ issued' = issued + 1
    /\ adminToken' = IF adminToken # None THEN adminToken ELSE IF token = None THEN Null ELSE token
    /\ token' = Fresh(r.of)
    /\ tab' = [tab EXCEPT ![t] = Without([SetUser(t, r.of, Fresh(r.of)) EXCEPT !.admin = TRUE], r)]
    /\ leftOver' = (leftOver \/ (adminToken = None /\ (token = None \/ token # r.sent)))
    /\ disturbed' = (disturbed \ {t}) \cup Others(t)
    /\ switched' = Switches(t, r.of)
    /\ UNCHANGED <<expired, loads, owner>>

(* 403, 404, or no answer; also the end of a login without an answer.      *)
RequestFails(t, r) ==
    /\ r.op \in {"impersonate", "login"}
    /\ tab' = [tab EXCEPT ![t] = Without([@ EXCEPT !.loading = FALSE, !.atLogin = (tab[t].user = None)], r)]
    /\ UNCHANGED <<token, adminToken, expired, issued, loads, owner, leftOver, disturbed, switched>>

(* restoreAdmin, and "No admin session found". *)
RestoreAdmin(t) ==
    /\ Clickable(t, "me")
    /\ tab[t].admin
    /\ IF adminToken = None
       THEN UNCHANGED <<token, adminToken, tab, owner, leftOver, disturbed>>
       ELSE /\ token' = adminToken /\ adminToken' = None
            /\ tab' = [tab EXCEPT ![t].admin = FALSE, ![t].loading = TRUE,
                                  ![t].asked = @ \cup {[op |-> "me", sent |-> adminToken]}]
            /\ owner' = adminToken[1]
            /\ leftOver' = FALSE
            /\ disturbed' = (disturbed \ {t}) \cup Others(t)
    /\ UNCHANGED <<expired, issued, loads, switched>>

-----------------------------------------------------------------------------
(* fetchCurrentUser, and any other request *)

MeAnswer(t, r) ==
    /\ r.op = "me" /\ Valid(r.sent)
    /\ tab' = [tab EXCEPT ![t] = Without(SetUser(t, r.sent[1], token), r)]
    /\ disturbed' = IF token = r.sent THEN disturbed ELSE disturbed \cup {t}
    /\ switched' = IF tab[t].socket = None /\ token # r.sent THEN switched \cup {t}
                   ELSE Switches(t, r.sent[1])
    /\ UNCHANGED <<token, adminToken, expired, issued, loads, owner, leftOver>>

(* Any failure ends the session: a 401, a timeout, a lost connection.      *)
MeFails(t, r) ==
    /\ r.op = "me"
    /\ token' = None
    /\ tab' = [tab EXCEPT ![t] = Without(SetUser(t, None, None), r)]
    /\ leftOver' = (leftOver \/ adminToken # None)
    /\ disturbed' = (disturbed \ {t}) \cup Others(t)
    /\ switched' = Switches(t, None)
    /\ UNCHANGED <<adminToken, expired, issued, loads, owner>>

StartRequest(t) ==
    /\ Clickable(t, "page")
    /\ Ask(t, [op |-> "page", sent |-> token], FALSE)
    /\ UNCHANGED <<token, adminToken, expired, issued, loads, owner, leftOver, disturbed, switched>>

RequestAnswer(t, r) ==
    /\ r.op = "page" /\ Valid(r.sent)
    /\ tab' = [tab EXCEPT ![t] = Without(@, r)]
    /\ UNCHANGED <<token, adminToken, expired, issued, loads, owner, leftOver, disturbed, switched>>

(* authenticate refuses the token it was sent with; the one that is removed*)
(* is the token of now.  Away from the login page the tab is loaded anew.  *)
Unauthorized(t, r) ==
    /\ r.op \in {"page", "impersonate"} /\ ~Valid(r.sent)
    /\ token' = None
    /\ tab' = [tab EXCEPT ![t] = IF tab[t].atLogin THEN Without(@, r) ELSE Loaded(None, adminToken, TRUE)]
    /\ leftOver' = (leftOver \/ adminToken # None)
    /\ disturbed' = (disturbed \ {t}) \cup Others(t)
    /\ switched' = switched \ {t}
    /\ UNCHANGED <<adminToken, expired, issued, loads, owner>>

SessionNext ==
    \/ \E t \in Open :
          \/ \E b \in BOOLEAN : Load(t, b)
          \/ \E u \in Users : StartLogin(t, u) \/ StartImpersonate(t, u)
          \/ StartLogout(t) \/ RestoreAdmin(t) \/ StartRequest(t)
          \/ \E r \in tab[t].asked :
                \/ LoginAnswer(t, r) \/ LoginRefused(t, r) \/ Logout(t, r)
                \/ ImpersonateAnswer(t, r) \/ RequestFails(t, r)
                \/ MeAnswer(t, r) \/ MeFails(t, r) \/ RequestAnswer(t, r) \/ Unauthorized(t, r)
    \/ \E k \in Tokens : Expire(k)

SessionSpec == SessionInit /\ [][SessionNext]_sessionVars

-----------------------------------------------------------------------------
(* AuthContext: a tab that shows a user sends his token with its requests, *)
(* unless another tab, or an answer to a request from before the token, has*)
(* changed one of the two meanwhile; what its own handlers do in any order *)
(* keeps them together.                                                    *)
TokenIsOfUser ==
    \A t \in Open \ disturbed :
        tab[t].user # None /\ (\A r \in tab[t].asked : r.op # "me") =>
            token \in Tokens /\ token[1] = tab[t].user

(* impersonate and restoreAdmin: the way back leads to the one who signed  *)
(* in with a password, through any chain of impersonations, unless the     *)
(* session ended without a logout and left his token behind.               *)
WayBackIsOwn ==
    adminToken # None /\ ~leftOver => adminToken \in Tokens /\ adminToken[1] = owner

(* SocketContext: there is a socket exactly while there is a user, and it  *)
(* is his, unless the tab has gone from one user to another: the effect    *)
(* depends on isAuthenticated only, so that after an impersonation the     *)
(* socket stays in the rooms of the one before.                            *)
SocketIsOfUser ==
    \A t \in Open :
        /\ (tab[t].socket = None) = (tab[t].user = None)
        /\ tab[t].user # None /\ t \notin switched => tab[t].socket[1] = tab[t].user

SessionHolds == TokenIsOfUser /\ WayBackIsOwn /\ SocketIsOfUser
=============================================================================
