---------------------------- MODULE ConsoleProofs ----------------------------
(***************************************************************************)
(* Proofs about the session, the dashboard, the lists that are shown in    *)
(* pages, what lists and counts show, and the routes that are played back; *)
(* and, with those of PageProofs, about all that MCConsole composes.       *)
(***************************************************************************)
EXTENDS PageProofs

-----------------------------------------------------------------------------
(* The session.  A request is one of three kinds, by what it carries.      *)

Held == Session!Tokens \cup {None, Session!Null}
SigningIn == [op : {"login"}, of : Users]
Plain == [op : {"logout", "me", "page"}, sent : Held]
Impersonating == [op : {"impersonate"}, of : Users, sent : Held]
Requests == SigningIn \cup Plain \cup Impersonating

TabStates == [user : Users \cup {None}, socket : Held, loading : BOOLEAN, admin : BOOLEAN,
              atLogin : BOOLEAN, asked : SUBSET Requests]

(* A tab has a socket while it has a user, is not at the login page then,  *)
(* and is there when there is no user and nothing is on the way, or a login*)
(* is.                                                                     *)
Proper(x) ==
    /\ x.socket = None <=> x.user = None
    /\ x.atLogin => x.user = None
    /\ x.user = None /\ ~x.loading => x.atLogin
    /\ x.user = None /\ (\E r \in x.asked : r.op = "login") => x.atLogin

(* The socket is of the user; the token that requests carry is his.        *)
Owned(x) == x.user # None => x.socket[1] = x.user
Sends(x, token) ==
    x.user # None /\ (\A r \in x.asked : r.op # "me") => token \in Session!Tokens /\ token[1] = x.user

TabsInv ==
    /\ s3 \in [Session!Open -> TabStates]
    /\ Session!Open \subseteq Tabs /\ Session!Open # {}
    /\ \A t \in Session!Open : Proper(s3[t])
    /\ \A t \in Session!Open \ s10 : Owned(s3[t])
    /\ \A t \in Session!Open \ s9 : Sends(s3[t], s1)

(* The token to return to, and without one the token itself, is of the     *)
(* owner, and there is a session as long as there is a way back that was   *)
(* not left over.                                                          *)
WayInv ==
    /\ s8 \in BOOLEAN
    /\ s8 => s2 # None
    /\ s2 # None /\ ~s8 => s1 # None /\ s2 \in Session!Tokens /\ s2[1] = s7
    /\ s2 = None /\ s1 # None => s1[1] = s7

SessionInv ==
    /\ s1 \in Held /\ s2 \in Held
    /\ s4 \subseteq Session!Tokens
    /\ s5 \in Nat
    /\ TabsInv /\ WayInv

LEMMA TokenFacts ==
    ASSUME Session!SessionAssumption
    PROVE  /\ \A k \in Session!Tokens : k[1] \in Users /\ k[2] \in 1..Issues /\ k # None
           /\ Session!Null # None /\ Session!Null[1] = None
           /\ None \notin Users
           /\ \A u \in Users : Under[u] \subseteq Users
    BY DEF Session!SessionAssumption, Session!Tokens, Session!Null

(* A token that may be issued is one.                                      *)
LEMMA FreshIsToken ==
    ASSUME Session!SessionAssumption, SessionInv, Session!MayIssue, NEW u \in Users
    PROVE  Session!Fresh(u) \in Session!Tokens /\ Session!Fresh(u)[1] = u
<1>1. Session!Cardinality(Session!Open) = Cardinality(Session!Open)
    BY Zenon DEF Session!Cardinality, Cardinality
<1>2. Session!IsFiniteSet(Tabs) = IsFiniteSet(Tabs)
    BY Zenon DEF Session!IsFiniteSet, IsFiniteSet
<1>3. IsFiniteSet(Session!Open) /\ Session!Open # {}
    BY <1>2, FS_Subset DEF Session!SessionAssumption, SessionInv, TabsInv
<1>4. Cardinality(Session!Open) \in Nat /\ Cardinality(Session!Open) # 0
    BY <1>3, FS_CardinalityType, FS_EmptySet
<1>5. s5 + 1 \in 1..Issues
    BY <1>1, <1>4 DEF Session!SessionAssumption, SessionInv, Session!MayIssue
<1> QED  BY <1>5 DEF Session!Fresh, Session!Tokens

(* One tab changes: the others keep what they have, unless the token is    *)
(* another now, and then those that show a user are disturbed.             *)
LEMMA TabMoves ==
    ASSUME TabsInv, NEW t \in Session!Open, NEW x \in TabStates, Proper(x),
           s3' = [s3 EXCEPT ![t] = x],
           t \notin s10' => Owned(x),
           t \notin s9' => Sends(x, s1'),
           s10 \ {t} \subseteq s10', s9 \ {t} \subseteq s9',
           s1' = s1 \/ Session!Others(t) \subseteq s9'
    PROVE  TabsInv'
<1>1. Session!Open' = Session!Open
    BY DEF Session!Open
<1>2. s3' \in [Session!Open' -> TabStates]
    BY <1>1 DEF TabsInv
<1>3. \A w \in Session!Open : s3'[w] = IF w = t THEN x ELSE s3[w]
    BY <1>2 DEF TabsInv
<1>4. \A w \in Session!Open' : Proper(s3'[w])
    BY <1>1, <1>3 DEF TabsInv
<1>5. \A w \in Session!Open' \ s10' : Owned(s3'[w])
    BY <1>1, <1>3 DEF TabsInv
<1>6. \A w \in Session!Open' \ s9' : Sends(s3'[w], s1')
    <2> SUFFICES ASSUME NEW w \in Session!Open \ s9', w # t
                 PROVE  Sends(s3[w], s1')
        BY <1>1, <1>3
    <2>1. Sends(s3[w], s1)
        BY DEF TabsInv
    <2>2. s1' = s1 \/ s3[w].user = None
        BY DEF Session!Others
    <2> QED  BY <2>1, <2>2 DEF Sends
<1> QED  BY <1>1, <1>2, <1>4, <1>5, <1>6 DEF TabsInv

(* A user is set: what SetUser makes of a tab.                             *)
LEMMA UserIsSet ==
    ASSUME Session!SessionAssumption, TabsInv, NEW t \in Session!Open,
           NEW u \in Users \cup {None}, NEW at \in Held, NEW x, x = Session!SetUser(t, u, at)
    PROVE  /\ x \in TabStates /\ Proper(x)
           /\ x.user = u /\ x.asked = s3[t].asked
           /\ t \notin Session!Switches(t, u) /\ (s3[t].socket = None => at # None /\ at[1] = u) => Owned(x)
           /\ s10 \ {t} \subseteq Session!Switches(t, u)
<1>1. s3[t] \in TabStates /\ Proper(s3[t]) /\ (t \notin s10 => Owned(s3[t]))
    BY DEF TabsInv
<1> DEFINE held == IF at = None THEN Session!Null ELSE at
           socket == CASE u = None -> None [] u # None /\ s3[t].socket = None -> held
                       [] OTHER -> s3[t].socket
<1>2. held \in Held /\ held # None
    BY TokenFacts DEF Held
<1>3. socket \in Held /\ (socket = None <=> u = None)
    BY <1>1, <1>2, TokenFacts DEF Held, TabStates
<1>4. x = [s3[t] EXCEPT !.user = u, !.loading = FALSE, !.atLogin = (u = None), !.socket = socket]
    BY DEF Session!SetUser
<1>5. /\ x \in TabStates
      /\ x.user = u /\ x.asked = s3[t].asked /\ x.socket = socket /\ (x.atLogin <=> u = None)
    BY <1>1, <1>3, <1>4 DEF TabStates
<1>6. Proper(x)
    BY <1>3, <1>5 DEF Proper
<1>7. t \notin Session!Switches(t, u) /\ (s3[t].socket = None => at # None /\ at[1] = u) => Owned(x)
    BY <1>1, <1>3, <1>5 DEF Owned, Session!Switches, Proper
<1>8. s10 \ {t} \subseteq Session!Switches(t, u)
    BY DEF Session!Switches
<1> QED  BY <1>5, <1>6, <1>7, <1>8

(* A request less changes nothing that makes a tab proper.                 *)
LEMMA OneLess ==
    ASSUME NEW x \in TabStates, Proper(x), NEW r, NEW y, y = Session!Without(x, r)
    PROVE  /\ y \in TabStates /\ Proper(y)
           /\ y.user = x.user /\ y.asked = x.asked \ {r} /\ (Owned(x) => Owned(y))
<1>1. /\ y \in TabStates /\ y.asked = x.asked \ {r}
      /\ y.user = x.user /\ y.socket = x.socket /\ y.atLogin = x.atLogin /\ y.loading = x.loading
    BY DEF TabStates, Session!Without
<1> QED  BY <1>1 DEF Proper, Owned

(* Requests are asked, of whatever kind but for the user's own record.     *)
LEMMA Asked ==
    ASSUME TabsInv, NEW t \in Session!Open, NEW r \in Requests, NEW busy \in BOOLEAN,
           Session!Ask(t, r, busy), r.op # "me", r.op = "login" => s3[t].atLogin,
           UNCHANGED <<s1, s9, s10>>
    PROVE  TabsInv'
<1> DEFINE more == s3[t].asked \cup {r}
           waits == s3[t].loading \/ busy
           x == [s3[t] EXCEPT !.asked = more, !.loading = waits]
<1>1. s3[t] \in TabStates /\ Proper(s3[t])
    BY DEF TabsInv
<1>2. s3' = [s3 EXCEPT ![t] = x]
    BY <1>1 DEF Session!Ask, TabsInv, TabStates
<1>3. more \in SUBSET Requests /\ waits \in BOOLEAN
    BY <1>1 DEF TabStates
<1>4. /\ x \in TabStates /\ x.user = s3[t].user /\ x.socket = s3[t].socket /\ x.atLogin = s3[t].atLogin
      /\ x.asked = more /\ x.loading = waits
    <2> HIDE DEF more, waits
    <2> QED  BY <1>1, <1>3 DEF TabStates
<1>5. Proper(x)
    BY <1>1, <1>4 DEF Proper
<1>6. t \notin s10' => Owned(x)
    BY <1>4 DEF TabsInv, Owned
<1>7. t \notin s9' => Sends(x, s1')
    BY <1>4 DEF TabsInv, Sends
<1> HIDE DEF x
<1> QED  BY <1>2, <1>4, <1>5, <1>6, <1>7, TabMoves

LEMMA Starts ==
    ASSUME SessionInv, NEW t \in Session!Open, Session!SessionAssumption,
           \/ \E u \in Users : Session!StartLogin(t, u) \/ Session!StartImpersonate(t, u)
           \/ Session!StartLogout(t) \/ Session!StartRequest(t)
    PROVE  SessionInv'
<1>1. s1 \in Held
    BY DEF SessionInv
<1>2. UNCHANGED <<s1, s2, s4, s5, s7, s8, s9, s10>>
    BY DEF Session!StartLogin, Session!StartImpersonate, Session!StartLogout, Session!StartRequest
<1>3. TabsInv'
    <2>1. CASE \E u \in Users : Session!StartLogin(t, u)
        <3>1. PICK u \in Users : Session!StartLogin(t, u)
            BY <2>1
        <3>2. [op |-> "login", of |-> u] \in Requests
            BY DEF Requests, SigningIn
        <3> QED  BY <1>2, <3>1, <3>2, Asked DEF Session!StartLogin, SessionInv
    <2>2. CASE \E u \in Users : Session!StartImpersonate(t, u)
        <3>1. PICK u \in Users : Session!StartImpersonate(t, u)
            BY <2>2
        <3>2. [op |-> "impersonate", of |-> u, sent |-> s1] \in Requests
            BY <1>1 DEF Requests, Impersonating
        <3> QED  BY <1>2, <3>1, <3>2, Asked DEF Session!StartImpersonate, SessionInv
    <2>3. CASE Session!StartLogout(t)
        <3>1. [op |-> "logout", sent |-> s1] \in Requests
            BY <1>1 DEF Requests, Plain
        <3> QED  BY <1>2, <2>3, <3>1, Asked DEF Session!StartLogout, SessionInv
    <2>4. CASE Session!StartRequest(t)
        <3>1. [op |-> "page", sent |-> s1] \in Requests
            BY <1>1 DEF Requests, Plain
        <3> QED  BY <1>2, <2>4, <3>1, Asked DEF Session!StartRequest, SessionInv
    <2> QED  BY <2>1, <2>2, <2>3, <2>4
<1> QED  BY <1>2, <1>3 DEF SessionInv, WayInv

(* A tab that is loaded, with a token or without one.                      *)
LEMMA LoadedIsProper ==
    ASSUME NEW held \in Held, NEW admin, NEW atLogin \in BOOLEAN, NEW x,
           x = Session!Loaded(held, admin, atLogin)
    PROVE  x \in TabStates /\ Proper(x) /\ Owned(x) /\ \A k : Sends(x, k)
<1> DEFINE asks == IF held = None THEN {} ELSE {[op |-> "me", sent |-> held]}
           waits == held # None
           there == atLogin \/ held = None
           way == admin # None
<1>1. asks \in SUBSET Requests /\ (\A r \in asks : r.op = "me")
    BY DEF Requests, Plain
<1>2. waits \in BOOLEAN /\ there \in BOOLEAN /\ way \in BOOLEAN /\ (waits \/ there)
    OBVIOUS
<1>3. x = [user |-> None, socket |-> None, loading |-> waits, admin |-> way,
           atLogin |-> there, asked |-> asks]
    BY DEF Session!Loaded
<1>4. None \in Held
    BY DEF Held
<1> HIDE DEF asks, waits, there, way
<1>5. x \in TabStates
    BY <1>1, <1>2, <1>3, <1>4 DEF TabStates
<1>6. x.user = None /\ x.socket = None /\ x.asked = asks /\ (x.loading <=> waits) /\ (x.atLogin <=> there)
    BY <1>2, <1>3
<1> QED  BY <1>1, <1>2, <1>5, <1>6 DEF Proper, Owned, Sends

LEMMA TabLoads ==
    ASSUME SessionInv, NEW t \in Session!Open, NEW b \in BOOLEAN, Session!Load(t, b)
    PROVE  SessionInv'
<1> DEFINE x == Session!Loaded(s1, s2, b)
<1>1. x \in TabStates /\ Proper(x) /\ Owned(x) /\ Sends(x, s1)
    BY LoadedIsProper DEF SessionInv
<1>2. /\ s3' = [s3 EXCEPT ![t] = x] /\ s9' = s9 \ {t} /\ s10' = s10 \ {t}
      /\ UNCHANGED <<s1, s2, s4, s5, s7, s8>>
    BY DEF Session!Load
<1> HIDE DEF x
<1>3. TabsInv'
    BY <1>1, <1>2, TabMoves DEF SessionInv
<1> QED  BY <1>2, <1>3 DEF SessionInv, WayInv

LEMMA Expires ==
    ASSUME SessionInv, NEW k \in Session!Tokens, Session!Expire(k)
    PROVE  SessionInv'
<1>1. s4' = s4 \cup {k} /\ UNCHANGED <<s1, s2, s3, s5, s7, s8, s9, s10>>
    BY DEF Session!Expire
<1>2. TabsInv'
    BY <1>1 DEF SessionInv, TabsInv, Session!Open
<1> QED  BY <1>1, <1>2 DEF SessionInv, WayInv

(* A request of a tab says by its op what it carries.                      *)
LEMMA RequestKinds ==
    ASSUME TabsInv, NEW t \in Session!Open, NEW r \in s3[t].asked
    PROVE  /\ r \in Requests
           /\ r.op = "login" => r.of \in Users
           /\ r.op = "impersonate" => r.of \in Users /\ r.sent \in Held
           /\ r.op \in {"logout", "me", "page"} => r.sent \in Held
<1>1. r \in Requests
    BY DEF TabsInv, TabStates
<1> QED  BY <1>1 DEF Requests, SigningIn, Plain, Impersonating

(* Whether there is a way back is told of a tab without changing the rest. *)
LEMMA AdminIsSet ==
    ASSUME NEW x \in TabStates, Proper(x), NEW b \in BOOLEAN, NEW y, y = [x EXCEPT !.admin = b]
    PROVE  /\ y \in TabStates /\ Proper(y)
           /\ y.user = x.user /\ y.asked = x.asked /\ (Owned(x) => Owned(y))
<1>1. /\ y \in TabStates /\ y.asked = x.asked
      /\ y.user = x.user /\ y.socket = x.socket /\ y.atLogin = x.atLogin /\ y.loading = x.loading
    BY DEF TabStates
<1> QED  BY <1>1 DEF Proper, Owned

(* Nobody is there, whatever the token.                                    *)
LEMMA NobodySends == ASSUME NEW x, x.user = None PROVE Owned(x) /\ \A k : Sends(x, k)
    BY DEF Owned, Sends

LEMMA LoginAnswers ==
    ASSUME Session!SessionAssumption, SessionInv, NEW t \in Session!Open, NEW r \in s3[t].asked,
           Session!LoginAnswer(t, r)
    PROVE  SessionInv'
<1> DEFINE k == Session!Fresh(r.of)
           x == Session!SetUser(t, r.of, k)
           y == Session!Without(x, r)
<1>1. r.op = "login" /\ r.of \in Users
    BY RequestKinds DEF SessionInv, Session!LoginAnswer
<1>2. k \in Session!Tokens /\ k[1] = r.of /\ k \in Held
    BY <1>1, FreshIsToken DEF Session!LoginAnswer, Held
<1>3. /\ s1' = k /\ s3' = [s3 EXCEPT ![t] = y] /\ s5' = s5 + 1 /\ s7' = r.of
      /\ s8' = (s8 \/ (s2 # None /\ s1 # None))
      /\ s9' = (s9 \ {t}) \cup Session!Others(t) /\ s10' = Session!Switches(t, r.of)
      /\ UNCHANGED <<s2, s4>>
    BY DEF Session!LoginAnswer
<1>4. /\ x \in TabStates /\ Proper(x) /\ x.user = r.of
      /\ t \notin s10' => Owned(x)
      /\ s10 \ {t} \subseteq s10'
    <2> HIDE DEF k
    <2> QED  BY <1>1, <1>2, <1>3, UserIsSet, TokenFacts DEF SessionInv
<1> HIDE DEF x
<1>5. y \in TabStates /\ Proper(y) /\ y.user = r.of /\ (t \notin s10' => Owned(y))
    BY <1>4, OneLess
<1> HIDE DEF y, k
<1>6. Sends(y, s1')
    BY <1>2, <1>3, <1>5 DEF Sends
<1>7. TabsInv'
    BY <1>3, <1>4, <1>5, <1>6, TabMoves DEF SessionInv
<1>8. WayInv'
    BY <1>2, <1>3, TokenFacts DEF SessionInv, WayInv
<1> QED  BY <1>2, <1>3, <1>7, <1>8 DEF SessionInv

LEMMA LoginRefuses ==
    ASSUME Session!SessionAssumption, SessionInv, NEW t \in Session!Open, NEW r \in s3[t].asked,
           Session!LoginRefused(t, r)
    PROVE  SessionInv'
<1> DEFINE x == [s3[t] EXCEPT !.loading = FALSE]
           y == Session!Without(x, r)
<1>1. r.op = "login" /\ s3[t] \in TabStates /\ Proper(s3[t]) /\ (t \notin s10 => Owned(s3[t]))
    BY DEF SessionInv, TabsInv, Session!LoginRefused
<1>2. /\ s1' = None /\ s3' = [s3 EXCEPT ![t] = y]
      /\ s8' = (s8 \/ s2 # None)
      /\ s9' = s9 \cup Session!Others(t) \cup (IF s3[t].user # None THEN {t} ELSE {})
      /\ UNCHANGED <<s2, s4, s5, s7, s10>>
    BY DEF Session!LoginRefused
<1>3. /\ x \in TabStates /\ x.user = s3[t].user /\ x.socket = s3[t].socket /\ x.asked = s3[t].asked
      /\ x.atLogin = s3[t].atLogin
    BY <1>1 DEF TabStates
<1>4. Proper(x) /\ (t \notin s10 => Owned(x))
    BY <1>1, <1>3 DEF Proper, Owned
<1> HIDE DEF x
<1>5. y \in TabStates /\ Proper(y) /\ y.user = s3[t].user /\ (t \notin s10 => Owned(y))
    BY <1>3, <1>4, OneLess
<1> HIDE DEF y
<1>6. t \notin s9' => Sends(y, s1')
    BY <1>2, <1>5, NobodySends
<1>7. TabsInv'
    BY <1>2, <1>5, <1>6, TabMoves DEF SessionInv
<1>8. WayInv' /\ s1' \in Held
    BY <1>2 DEF SessionInv, WayInv, Held
<1> QED  BY <1>2, <1>7, <1>8 DEF SessionInv

(* The tab has no user any more.                                           *)
LEMMA UserGone ==
    ASSUME Session!SessionAssumption, SessionInv, NEW t \in Session!Open, NEW r, NEW b \in BOOLEAN,
           NEW x, x = Session!SetUser(t, None, None), NEW y, y = [x EXCEPT !.admin = b],
           NEW z, z \in {x, y},
           s3' = [s3 EXCEPT ![t] = Session!Without(z, r)],
           s9' = (s9 \ {t}) \cup Session!Others(t), s10' = Session!Switches(t, None)
    PROVE  TabsInv'
<1> DEFINE w == Session!Without(z, r)
<1>1. None \in Held
    BY DEF Held
<1>2. x \in TabStates /\ Proper(x) /\ x.user = None /\ s10 \ {t} \subseteq s10'
    BY <1>1, UserIsSet DEF SessionInv
<1>3. y \in TabStates /\ Proper(y) /\ y.user = None
    BY <1>2, AdminIsSet
<1>4. z \in TabStates /\ Proper(z) /\ z.user = None
    BY <1>2, <1>3
<1>5. w \in TabStates /\ Proper(w) /\ w.user = None
    BY <1>4, OneLess
<1> HIDE DEF w
<1>6. Owned(w) /\ Sends(w, s1')
    BY <1>5, NobodySends
<1>7. s3' = [s3 EXCEPT ![t] = w]
    BY DEF w
<1> QED  BY <1>2, <1>5, <1>6, <1>7, TabMoves DEF SessionInv

LEMMA LogsOut ==
    ASSUME Session!SessionAssumption, SessionInv, NEW t \in Session!Open, NEW r \in s3[t].asked,
           Session!Logout(t, r) \/ Session!MeFails(t, r)
    PROVE  SessionInv'
<1>1. TabsInv'
    <2>1. CASE Session!Logout(t, r)
        BY <2>1, UserGone DEF Session!Logout
    <2>2. CASE Session!MeFails(t, r)
        BY <2>2, UserGone DEF Session!MeFails
    <2> QED  BY <2>1, <2>2
<1>2. WayInv' /\ s1' \in Held /\ s2' \in Held /\ s4' = s4 /\ s5' = s5
    <2>1. CASE Session!Logout(t, r)
        BY <2>1 DEF Session!Logout, WayInv, Held
    <2>2. CASE Session!MeFails(t, r)
        BY <2>2 DEF Session!MeFails, SessionInv, WayInv, Held
    <2> QED  BY <2>1, <2>2
<1> QED  BY <1>1, <1>2 DEF SessionInv

LEMMA Impersonates ==
    ASSUME Session!SessionAssumption, SessionInv, NEW t \in Session!Open, NEW r \in s3[t].asked,
           Session!ImpersonateAnswer(t, r)
    PROVE  SessionInv'
<1> DEFINE k == Session!Fresh(r.of)
           x == Session!SetUser(t, r.of, k)
           y == [x EXCEPT !.admin = TRUE]
           z == Session!Without(y, r)
<1>1. r.op = "impersonate" /\ r.of \in Users /\ r.sent \in Session!Tokens
    BY RequestKinds DEF SessionInv, Session!ImpersonateAnswer, Session!Valid
<1>2. k \in Session!Tokens /\ k[1] = r.of /\ k \in Held
    BY <1>1, FreshIsToken DEF Session!ImpersonateAnswer, Held
<1>3. /\ s1' = k /\ s3' = [s3 EXCEPT ![t] = z] /\ s5' = s5 + 1
      /\ s2' = IF s2 # None THEN s2 ELSE IF s1 = None THEN Session!Null ELSE s1
      /\ s8' = (s8 \/ (s2 = None /\ (s1 = None \/ s1 # r.sent)))
      /\ s9' = (s9 \ {t}) \cup Session!Others(t) /\ s10' = Session!Switches(t, r.of)
      /\ UNCHANGED <<s4, s7>>
    BY DEF Session!ImpersonateAnswer
<1>4. /\ x \in TabStates /\ Proper(x) /\ x.user = r.of
      /\ t \notin s10' => Owned(x)
      /\ s10 \ {t} \subseteq s10'
    <2> HIDE DEF k
    <2> QED  BY <1>1, <1>2, <1>3, UserIsSet, TokenFacts DEF SessionInv
<1> HIDE DEF x
<1>5. y \in TabStates /\ Proper(y) /\ y.user = r.of /\ (t \notin s10' => Owned(y))
    BY <1>4, AdminIsSet
<1> HIDE DEF y
<1>6. z \in TabStates /\ Proper(z) /\ z.user = r.of /\ (t \notin s10' => Owned(z))
    BY <1>5, OneLess
<1> HIDE DEF z, k
<1>7. Sends(z, s1')
    BY <1>2, <1>3, <1>6 DEF Sends
<1>8. TabsInv'
    BY <1>3, <1>4, <1>6, <1>7, TabMoves DEF SessionInv
<1>9. WayInv' /\ s2' \in Held
    BY <1>1, <1>2, <1>3, TokenFacts DEF SessionInv, WayInv, Held
<1> QED  BY <1>2, <1>3, <1>8, <1>9 DEF SessionInv

LEMMA Fails ==
    ASSUME SessionInv, NEW t \in Session!Open, NEW r \in s3[t].asked, Session!RequestFails(t, r)
    PROVE  SessionInv'
<1> DEFINE gone == s3[t].user = None
           x == [s3[t] EXCEPT !.loading = FALSE, !.atLogin = gone]
           y == Session!Without(x, r)
<1>1. /\ r.op \in {"impersonate", "login"} /\ s3[t] \in TabStates /\ Proper(s3[t])
      /\ t \notin s10 => Owned(s3[t])
      /\ t \notin s9 => Sends(s3[t], s1)
    BY DEF SessionInv, TabsInv, Session!RequestFails
<1>2. s3' = [s3 EXCEPT ![t] = y] /\ UNCHANGED <<s1, s2, s4, s5, s7, s8, s9, s10>>
    BY DEF Session!RequestFails
<1>3. gone \in BOOLEAN
    OBVIOUS
<1>4. /\ x \in TabStates /\ x.user = s3[t].user /\ x.socket = s3[t].socket /\ x.asked = s3[t].asked
      /\ (x.atLogin <=> gone)
    <2> HIDE DEF gone
    <2> QED  BY <1>1, <1>3 DEF TabStates
<1>5. Proper(x) /\ (t \notin s10 => Owned(x))
    BY <1>1, <1>4 DEF Proper, Owned
<1> HIDE DEF x
<1>6. /\ y \in TabStates /\ Proper(y) /\ y.user = s3[t].user /\ y.asked = s3[t].asked \ {r}
      /\ t \notin s10 => Owned(y)
    BY <1>4, <1>5, OneLess
<1> HIDE DEF y
<1>7. t \notin s9 => Sends(y, s1)
    BY <1>1, <1>6 DEF Sends
<1>8. TabsInv'
    BY <1>2, <1>6, <1>7, TabMoves DEF SessionInv
<1> QED  BY <1>2, <1>8 DEF SessionInv, WayInv

LEMMA Restores ==
    ASSUME Session!SessionAssumption, SessionInv, NEW t \in Session!Open, Session!RestoreAdmin(t)
    PROVE  SessionInv'
<1>1. CASE s2 = None
    <2>1. UNCHANGED <<s1, s2, s3, s4, s5, s7, s8, s9, s10>>
        BY <1>1 DEF Session!RestoreAdmin
    <2>2. TabsInv'
        BY <2>1 DEF SessionInv, TabsInv, Session!Open
    <2> QED  BY <2>1, <2>2 DEF SessionInv, WayInv
<1>2. CASE s2 # None
    <2> DEFINE me == [op |-> "me", sent |-> s2]
               more == s3[t].asked \cup {me}
               x == [s3[t] EXCEPT !.admin = FALSE, !.loading = TRUE, !.asked = more]
    <2>1. s3[t] \in TabStates /\ Proper(s3[t]) /\ (t \notin s10 => Owned(s3[t]))
        BY DEF SessionInv, TabsInv
    <2>2. s3' = [s3 EXCEPT ![t] = x]
        BY <1>2, <2>1 DEF Session!RestoreAdmin, SessionInv, TabsInv, TabStates
    <2>3. /\ s1' = s2 /\ s2' = None /\ s7' = s2[1] /\ s8' = FALSE
          /\ s9' = (s9 \ {t}) \cup Session!Others(t)
          /\ s3[t].user # None
          /\ UNCHANGED <<s4, s5, s10>>
        BY <1>2 DEF Session!RestoreAdmin, Session!Clickable
    <2>4. me \in Requests /\ me.op = "me"
        BY DEF SessionInv, Requests, Plain
    <2>5. more \in SUBSET Requests
        BY <2>1, <2>4 DEF TabStates
    <2>6. /\ x \in TabStates /\ x.user = s3[t].user /\ x.socket = s3[t].socket /\ x.asked = more
          /\ x.atLogin = s3[t].atLogin /\ x.loading = TRUE
        <3> HIDE DEF more
        <3> QED  BY <2>1, <2>5 DEF TabStates
    <2> HIDE DEF x
    <2>7. Proper(x) /\ (t \notin s10 => Owned(x))
        BY <2>1, <2>3, <2>6 DEF Proper, Owned
    <2>8. Sends(x, s1')
        BY <2>4, <2>6 DEF Sends
    <2>9. TabsInv'
        BY <2>2, <2>3, <2>6, <2>7, <2>8, TabMoves DEF SessionInv
    <2>10. WayInv' /\ s1' \in Held /\ s2' \in Held
        BY <2>3 DEF SessionInv, WayInv, Held
    <2> QED  BY <2>3, <2>9, <2>10 DEF SessionInv
<1> QED  BY <1>1, <1>2

LEMMA MeAnswers ==
    ASSUME Session!SessionAssumption, SessionInv, NEW t \in Session!Open, NEW r \in s3[t].asked,
           Session!MeAnswer(t, r)
    PROVE  SessionInv'
<1> DEFINE u == r.sent[1]
           x == Session!SetUser(t, u, s1)
           y == Session!Without(x, r)
<1>1. r.sent \in Session!Tokens /\ u \in Users /\ u # None /\ r.sent # None
    BY TokenFacts DEF Session!MeAnswer, Session!Valid
<1>2. /\ s3' = [s3 EXCEPT ![t] = y]
      /\ s9' = IF s1 = r.sent THEN s9 ELSE s9 \cup {t}
      /\ s10' = IF s3[t].socket = None /\ s1 # r.sent THEN s10 \cup {t} ELSE Session!Switches(t, u)
      /\ UNCHANGED <<s1, s2, s4, s5, s7, s8>>
    BY DEF Session!MeAnswer
<1>3. /\ x \in TabStates /\ Proper(x) /\ x.user = u
      /\ t \notin Session!Switches(t, u) /\ (s3[t].socket = None => s1 # None /\ s1[1] = u) => Owned(x)
      /\ s10 \ {t} \subseteq Session!Switches(t, u)
    <2> HIDE DEF u
    <2>1. s1 \in Held
        BY DEF SessionInv
    <2> QED  BY <1>1, <2>1, UserIsSet DEF SessionInv
<1>4. t \notin s10' => Owned(x)
    BY <1>1, <1>2, <1>3
<1>5. s10 \ {t} \subseteq s10'
    BY <1>2, <1>3
<1> HIDE DEF x
<1>6. y \in TabStates /\ Proper(y) /\ y.user = u /\ (t \notin s10' => Owned(y))
    BY <1>3, <1>4, OneLess
<1> HIDE DEF y
<1>7. t \notin s9' => Sends(y, s1')
    BY <1>1, <1>2, <1>6 DEF Sends
<1> HIDE DEF u
<1>8. TabsInv'
    BY <1>2, <1>5, <1>6, <1>7, TabMoves DEF SessionInv
<1> QED  BY <1>2, <1>8 DEF SessionInv, WayInv

LEMMA RequestAnswers ==
    ASSUME SessionInv, NEW t \in Session!Open, NEW r \in s3[t].asked, Session!RequestAnswer(t, r)
    PROVE  SessionInv'
<1> DEFINE y == Session!Without(s3[t], r)
<1>1. /\ r.op = "page" /\ s3[t] \in TabStates /\ Proper(s3[t])
      /\ t \notin s10 => Owned(s3[t])
      /\ t \notin s9 => Sends(s3[t], s1)
    BY DEF SessionInv, TabsInv, Session!RequestAnswer
<1>2. s3' = [s3 EXCEPT ![t] = y] /\ UNCHANGED <<s1, s2, s4, s5, s7, s8, s9, s10>>
    BY DEF Session!RequestAnswer, SessionInv, TabsInv, Session!Without
<1>3. /\ y \in TabStates /\ Proper(y) /\ y.user = s3[t].user /\ y.asked = s3[t].asked \ {r}
      /\ t \notin s10 => Owned(y)
    BY <1>1, OneLess
<1> HIDE DEF y
<1>4. t \notin s9 => Sends(y, s1)
    BY <1>1, <1>3 DEF Sends
<1>5. TabsInv'
    BY <1>2, <1>3, <1>4, TabMoves DEF SessionInv
<1> QED  BY <1>2, <1>5 DEF SessionInv, WayInv

LEMMA SentAway ==
    ASSUME Session!SessionAssumption, SessionInv, NEW t \in Session!Open, NEW r \in s3[t].asked,
           Session!Unauthorized(t, r)
    PROVE  SessionInv'
<1> DEFINE y == Session!Without(s3[t], r)
           z == Session!Loaded(None, s2, TRUE)
           x == IF s3[t].atLogin THEN y ELSE z
<1>1. s3[t] \in TabStates /\ Proper(s3[t])
    BY DEF SessionInv, TabsInv
<1>2. /\ s3' = [s3 EXCEPT ![t] = x]
      /\ s1' = None /\ s8' = (s8 \/ s2 # None)
      /\ s9' = (s9 \ {t}) \cup Session!Others(t) /\ s10' = s10 \ {t}
      /\ UNCHANGED <<s2, s4, s5, s7>>
    BY DEF Session!Unauthorized, SessionInv, TabsInv, Session!Without
<1>3. y \in TabStates /\ Proper(y) /\ y.user = s3[t].user
    BY <1>1, OneLess
<1>4. z \in TabStates /\ Proper(z) /\ Owned(z) /\ Sends(z, s1')
    BY LoadedIsProper DEF Held
<1> HIDE DEF y, z
<1>5. s3[t].atLogin => Owned(y) /\ Sends(y, s1')
    BY <1>1, <1>3, NobodySends DEF Proper
<1>6. x \in TabStates /\ Proper(x) /\ Owned(x) /\ Sends(x, s1')
    BY <1>3, <1>4, <1>5
<1> HIDE DEF x
<1>7. TabsInv'
    BY <1>2, <1>6, TabMoves DEF SessionInv
<1>8. WayInv' /\ s1' \in Held
    BY <1>2 DEF SessionInv, WayInv, Held
<1> QED  BY <1>2, <1>7, <1>8 DEF SessionInv

LEMMA SessionMoves ==
    ASSUME Session!SessionAssumption, SessionInv, Session!SessionNext
    PROVE  SessionInv'
<1>1. CASE \E t \in Session!Open, b \in BOOLEAN : Session!Load(t, b)
    BY <1>1, TabLoads
<1>2. CASE \E t \in Session!Open :
              \/ \E u \in Users : Session!StartLogin(t, u) \/ Session!StartImpersonate(t, u)
              \/ Session!StartLogout(t) \/ Session!StartRequest(t)
    BY <1>2, Starts
<1>3. CASE \E t \in Session!Open : Session!RestoreAdmin(t)
    BY <1>3, Restores
<1>4. CASE \E t \in Session!Open : \E r \in s3[t].asked :
              \/ Session!LoginAnswer(t, r) \/ Session!LoginRefused(t, r) \/ Session!Logout(t, r)
              \/ Session!ImpersonateAnswer(t, r) \/ Session!RequestFails(t, r)
              \/ Session!MeAnswer(t, r) \/ Session!MeFails(t, r) \/ Session!RequestAnswer(t, r)
              \/ Session!Unauthorized(t, r)
    BY <1>4, LoginAnswers, LoginRefuses, LogsOut, Impersonates, Fails, MeAnswers, RequestAnswers, SentAway
<1>5. CASE \E k \in Session!Tokens : Session!Expire(k)
    BY <1>5, Expires
<1> QED  BY <1>1, <1>2, <1>3, <1>4, <1>5 DEF Session!SessionNext

LEMMA SessionBegins ==
    ASSUME Session!SessionAssumption, Session!SessionInit
    PROVE  SessionInv
<1> DEFINE x == Session!Loaded(None, None, TRUE)
<1>1. x \in TabStates /\ Proper(x) /\ Owned(x) /\ Sends(x, None)
    BY LoadedIsProper DEF Held
<1>2. PICK open \in (SUBSET Tabs) \ {{}} : s3 = [t \in open |-> x]
    BY DEF Session!SessionInit
<1> HIDE DEF x
<1>3. Session!Open = open /\ \A t \in open : s3[t] = x
    BY <1>2 DEF Session!Open
<1>4. TabsInv
    BY <1>1, <1>2, <1>3 DEF TabsInv, Session!SessionInit
<1> QED  BY <1>4 DEF SessionInv, WayInv, Session!SessionInit, Held

LEMMA SessionAsPromised ==
    ASSUME SessionInv
    PROVE  Session!SessionTypeOK /\ Session!SessionHolds
<1>1. ASSUME NEW t \in Session!Open
      PROVE  /\ s3[t] \in TabStates /\ Proper(s3[t])
             /\ t \notin s10 => Owned(s3[t])
             /\ t \notin s9 => Sends(s3[t], s1)
    BY DEF SessionInv, TabsInv
<1>2. Session!SessionTypeOK
    <2>1. ASSUME NEW t \in Session!Open
          PROVE  /\ s3[t].user \in Users \cup {None}
                 /\ s3[t].socket \in Session!Tokens \cup {None, Session!Null}
                 /\ \A r \in s3[t].asked : r.op \in {"login", "logout", "impersonate", "me", "page"}
                 /\ s3[t].user = None /\ ~s3[t].loading => s3[t].atLogin
        BY <1>1 DEF TabStates, Held, Proper, Requests, SigningIn, Plain, Impersonating
    <2> QED  BY <2>1 DEF Session!SessionTypeOK, SessionInv, Held
<1>3. Session!TokenIsOfUser
    BY <1>1 DEF Session!TokenIsOfUser, Sends
<1>4. Session!WayBackIsOwn
    BY DEF Session!WayBackIsOwn, SessionInv, WayInv
<1>5. Session!SocketIsOfUser
    BY <1>1 DEF Session!SocketIsOfUser, Proper, Owned
<1> QED  BY <1>2, <1>3, <1>4, <1>5 DEF Session!SessionHolds

-----------------------------------------------------------------------------
(* The dashboard.  The list: each vehicle is missed, shown as it is, or an *)
(* update that says how it is is on its way.                               *)

Mails == {"join", "leave"} \X Shown
Updates == [vehicle : Shown, version : Nat]
Lists == [Shown -> 0..Versions]
Fetches == [at : {"idle", "asked"}] \cup [at : {"answered"}, versions : Lists]

DashTypes ==
    /\ s1 \in Lists
    /\ s2 \in BOOLEAN
    /\ s3 \in Seq(Mails) /\ s4 \in Seq(Updates)
    /\ s5 \subseteq Shown /\ s6 \subseteq Shown /\ s10 \subseteq Shown
    /\ ~s2 => s6 = {} /\ s5 = {} /\ s3 = <<>> /\ s4 = <<>>
    /\ s7 \in Shown \cup {None}
    /\ s8 \in Fetches
    /\ s9 \in Lists \cup {None}

Current(v) == \E n \in DOMAIN s4 : s4[n].vehicle = v /\ s4[n].version = s1[v]
ListInv ==
    /\ \A n \in DOMAIN s4 : s4[n].version <= s1[s4[n].vehicle]
    /\ s9 # None => \A v \in Shown : v \in s10 \/ s9[v] = s1[v] \/ Current(v)

(* The rooms: one that the socket is in, or waits to join, is that of the  *)
(* page, is going to be left, or was entered too late.                     *)
Joining(v) == <<"join", v>>
Leaving(v) == <<"leave", v>>
LeavesAfter(n, v) == \E m \in DOMAIN s3 : m > n /\ s3[m] = Leaving(v)
Mapped(v) == v = s7 /\ s9 # None
WillLeave(v) == \E n \in DOMAIN s3 : s3[n] = Leaving(v)
WillJoin(v) ==
    \E n \in DOMAIN s3 : s3[n] = Joining(v) /\ \A m \in DOMAIN s3 : m > n => s3[m] # Leaving(v)
RoomsInv ==
    /\ \A v \in s5 \cup s6 : v \in s11 \/ WillLeave(v) \/ Mapped(v)
    /\ \A v \in s5 \cap s6 : WillLeave(v) \/ Mapped(v)
    /\ \A n \in DOMAIN s3, v \in Shown :
          s3[n] = Joining(v) => Mapped(v) \/ LeavesAfter(n, v)
    /\ s7 # None /\ s9 # None => s12 \/ WillJoin(s7) \/ (s7 \in s5 \cup s6 /\ ~WillLeave(s7))

DashInv == DashTypes /\ ListInv /\ RoomsInv

LEMMA MailKinds ==
    /\ \A v : Leaving(v)[1] = "leave" /\ Leaving(v)[2] = v
    /\ \A v : Joining(v)[1] = "join" /\ Joining(v)[2] = v
    /\ \A v, w : Leaving(v) # Joining(w)
    /\ \A v \in Shown : Leaving(v) \in Mails /\ Joining(v) \in Mails
    /\ \A x \in Mails : x[2] \in Shown /\ x[1] \in {"join", "leave"}
    /\ \A x \in Mails : x[1] = "join" => x = Joining(x[2])
    /\ \A x \in Mails : x[1] = "leave" => x = Leaving(x[2])
    BY DEF Leaving, Joining, Mails

(* What is left of a queue, and what it is with one more.                  *)
LEMMA TailOf ==
    ASSUME NEW S, NEW q \in Seq(S), q # <<>>
    PROVE  /\ Tail(q) \in Seq(S) /\ Head(q) \in S /\ Head(q) = q[1]
           /\ DOMAIN q = 1..Len(q) /\ Len(q) \in Nat \ {0}
           /\ DOMAIN Tail(q) = 1..(Len(q) - 1)
           /\ \A n \in DOMAIN Tail(q) : Tail(q)[n] = q[n + 1]
    OBVIOUS

LEMMA OneMore ==
    ASSUME NEW S, NEW q \in Seq(S), NEW x \in S
    PROVE  /\ q \o <<x>> \in Seq(S) /\ Len(q) \in Nat /\ DOMAIN q = 1..Len(q)
           /\ DOMAIN (q \o <<x>>) = 1..(Len(q) + 1)
           /\ (q \o <<x>>)[Len(q) + 1] = x
           /\ \A n \in DOMAIN q : (q \o <<x>>)[n] = q[n]
    OBVIOUS

(* The server takes a message from the socket.                             *)
LEMMA MailTaken ==
    ASSUME DashTypes, s3 # <<>>, s3' = Tail(s3)
    PROVE  /\ s3' \in Seq(Mails)
           /\ \A v : v # Head(s3)[2] \/ Head(s3)[1] = "join" => (WillLeave(v)' <=> WillLeave(v))
           /\ \A v : WillLeave(v)' => WillLeave(v)
           /\ \A v : WillJoin(v) /\ Head(s3) # Joining(v) => WillJoin(v)'
           /\ \A v : WillJoin(v) /\ Head(s3) = Joining(v) => WillJoin(v)' \/ ~WillLeave(v)'
<1>1. /\ Tail(s3) \in Seq(Mails) /\ Head(s3) \in Mails /\ Head(s3) = s3[1]
      /\ DOMAIN s3 = 1..Len(s3) /\ Len(s3) \in Nat \ {0}
      /\ DOMAIN Tail(s3) = 1..(Len(s3) - 1)
      /\ \A n \in DOMAIN Tail(s3) : Tail(s3)[n] = s3[n + 1]
    BY TailOf DEF DashTypes
<1>2. /\ DOMAIN s3' = 1..(Len(s3) - 1)
      /\ \A n \in DOMAIN s3' : s3'[n] = s3[n + 1] /\ n + 1 \in DOMAIN s3
      /\ \A n \in DOMAIN s3 : n # 1 => n - 1 \in DOMAIN s3' /\ s3'[n - 1] = s3[n]
    BY <1>1
<1>3. \A v : WillLeave(v)' => WillLeave(v)
    BY <1>2 DEF WillLeave
<1>4. \A v : v # Head(s3)[2] \/ Head(s3)[1] = "join" => (WillLeave(v) => WillLeave(v)')
    <2> SUFFICES ASSUME NEW v, v # Head(s3)[2] \/ Head(s3)[1] = "join", WillLeave(v)
                 PROVE  WillLeave(v)'
        OBVIOUS
    <2>1. PICK n \in DOMAIN s3 : s3[n] = Leaving(v)
        BY DEF WillLeave
    <2>2. n # 1
        BY <1>1, <2>1, MailKinds
    <2>3. n - 1 \in DOMAIN s3' /\ s3'[n - 1] = Leaving(v)
        BY <1>2, <2>1, <2>2
    <2> QED  BY <2>3 DEF WillLeave
<1>5. ASSUME NEW v, WillJoin(v)
      PROVE  WillJoin(v)' \/ (Head(s3) = Joining(v) /\ ~WillLeave(v)')
    <2>1. PICK n \in DOMAIN s3 : s3[n] = Joining(v) /\ \A m \in DOMAIN s3 : m > n => s3[m] # Leaving(v)
        BY <1>5 DEF WillJoin
    <2>2. CASE n = 1
        BY <1>1, <1>2, <2>1, <2>2 DEF WillLeave
    <2>3. CASE n # 1
        <3>1. PICK j \in DOMAIN s3' : j = n - 1 /\ s3'[j] = Joining(v)
            BY <1>2, <2>1, <2>3
        <3>2. ASSUME NEW m \in DOMAIN s3', m > j
              PROVE  s3'[m] # Leaving(v)
            <4>1. PICK k \in DOMAIN s3 : k > n /\ s3'[m] = s3[k]
                BY <1>1, <1>2, <3>1, <3>2
            <4>2. s3[k] # Leaving(v)
                BY <2>1, <4>1
            <4> QED  BY <4>1, <4>2
        <3> QED  BY Zenon, <3>1, <3>2 DEF WillJoin
    <2> QED  BY <2>2, <2>3
<1> QED  BY <1>1, <1>3, <1>4, <1>5

(* The browser sends one.                                                  *)
LEMMA MailSent ==
    ASSUME DashTypes, NEW x \in Mails, s3' = s3 \o <<x>>
    PROVE  /\ s3' \in Seq(Mails)
           /\ \A v : WillLeave(v)' <=> WillLeave(v) \/ x = Leaving(v)
           /\ \A v : x = Joining(v) => WillJoin(v)'
           /\ \A n \in DOMAIN s3' : (n \in DOMAIN s3 /\ s3'[n] = s3[n]) \/ s3'[n] = x
           /\ \A n \in DOMAIN s3 : /\ n \in DOMAIN s3' /\ s3'[n] = s3[n]
                                   /\ Len(s3) + 1 \in DOMAIN s3' /\ Len(s3) + 1 > n
           /\ s3'[Len(s3) + 1] = x
<1>1. /\ s3' \in Seq(Mails) /\ Len(s3) \in Nat /\ DOMAIN s3 = 1..Len(s3)
      /\ DOMAIN s3' = 1..(Len(s3) + 1)
      /\ s3'[Len(s3) + 1] = x
      /\ \A n \in DOMAIN s3 : s3'[n] = s3[n]
    BY OneMore DEF DashTypes
<1>2. \A v : WillLeave(v)' <=> WillLeave(v) \/ x = Leaving(v)
    BY <1>1 DEF WillLeave
<1>3. \A v : x = Joining(v) => WillJoin(v)'
    BY <1>1 DEF WillJoin
<1> QED  BY <1>1, <1>2, <1>3

(* What leaves alone all that an invariant is about.                       *)
LEMMA RoomsStay ==
    ASSUME RoomsInv, UNCHANGED <<s3, s5, s6, s7, s11, s12>>, s9' = None <=> s9 = None
    PROVE  RoomsInv'
<1>1. \A v : (Mapped(v)' <=> Mapped(v)) /\ (WillLeave(v)' <=> WillLeave(v)) /\ (WillJoin(v)' <=> WillJoin(v))
    BY DEF Mapped, WillLeave, WillJoin
<1>2. \A n, v : LeavesAfter(n, v)' <=> LeavesAfter(n, v)
    BY DEF LeavesAfter
<1> QED  BY <1>1, <1>2 DEF RoomsInv

LEMMA ListStays ==
    ASSUME ListInv, UNCHANGED <<s1, s4, s9>>, s10 \subseteq s10'
    PROVE  ListInv'
    BY DEF ListInv, Current

(* The list *)

LEMMA Publishes ==
    ASSUME Dashboard!DashboardAssumption, DashInv, NEW v \in Shown, Dashboard!Publish(v)
    PROVE  DashInv'
<1> DEFINE k == Dashboard!Cardinality(Dashboard!Heard(v))
           update == [vehicle |-> v, version |-> s1[v] + 1]
           copies == [n \in 1..k |-> update]
<1>1. k \in Nat /\ (Dashboard!Heard(v) # {} => k > 0)
    <2>1. k = Cardinality(Dashboard!Heard(v))
        BY Zenon DEF Dashboard!Cardinality, Cardinality
    <2>2. IsFiniteSet({"location:update", "fleet:update"})
        <3>1. IsFiniteSet({"location:update"})
            BY FS_Singleton
        <3>2. IsFiniteSet({"location:update"} \cup {"fleet:update"})
            BY <3>1, FS_AddElement
        <3>3. {"location:update"} \cup {"fleet:update"} = {"location:update", "fleet:update"}
            OBVIOUS
        <3> QED  BY <3>2, <3>3
    <2>3. IsFiniteSet(Dashboard!Heard(v))
        BY <2>2, FS_Subset DEF Dashboard!Heard
    <2> QED  BY <2>1, <2>3, FS_CardinalityType, FS_EmptySet
<1>2. /\ s1[v] < Versions /\ s1' = [s1 EXCEPT ![v] = @ + 1] /\ s4' = s4 \o copies
      /\ s10' = IF Dashboard!Heard(v) = {} THEN s10 \cup {v} ELSE s10
      /\ UNCHANGED <<s2, s3, s5, s6, s7, s8, s9, s11, s12>>
    BY DEF Dashboard!Publish
<1>3. s1 \in Lists /\ s1' \in Lists /\ s1'[v] = s1[v] + 1 /\ \A w \in Shown \ {v} : s1'[w] = s1[w]
    BY <1>2 DEF DashInv, DashTypes, Lists, Dashboard!DashboardAssumption
<1>4. update \in Updates
    BY <1>3 DEF Updates, Lists
<1> HIDE DEF k, update
<1>5. copies \in Seq(Updates) /\ Len(copies) = k /\ \A n \in 1..k : copies[n] = update
    BY <1>1, <1>4
<1> HIDE DEF copies
<1>6. /\ s4' \in Seq(Updates) /\ Len(s4) \in Nat
      /\ DOMAIN s4 = 1..Len(s4) /\ DOMAIN s4' = 1..(Len(s4) + k)
      /\ \A n \in DOMAIN s4 : s4'[n] = s4[n]
      /\ \A n \in DOMAIN s4' \ DOMAIN s4 : s4'[n] = update
    BY <1>1, <1>2, <1>5 DEF DashInv, DashTypes
<1>7. ~s2 => s4' = <<>>
    <2> SUFFICES ASSUME ~s2 PROVE s4' = <<>>
        OBVIOUS
    <2>1. Dashboard!Heard(v) = {} /\ s4 = <<>>
        BY DEF DashInv, DashTypes, Dashboard!Heard
    <2>2. k = 0
        <3>1. k = Cardinality({})
            BY <2>1, Zenon DEF k, Dashboard!Cardinality, Cardinality
        <3> QED  BY <3>1, FS_EmptySet
    <2> QED  BY <1>6, <2>1, <2>2
<1>8. DashTypes'
    BY <1>2, <1>3, <1>6, <1>7 DEF DashInv, DashTypes
<1>9. ListInv'
    <2>1. \A n \in DOMAIN s4' : s4'[n].version <= s1'[s4'[n].vehicle]
        <3> SUFFICES ASSUME NEW n \in DOMAIN s4'
                     PROVE  s4'[n].version <= s1'[s4'[n].vehicle]
            OBVIOUS
        <3>1. CASE n \in DOMAIN s4
            <4>1. s4[n] \in Updates /\ s4[n].version <= s1[s4[n].vehicle]
                BY <1>6, <3>1 DEF DashInv, DashTypes, ListInv
            <4>2. s4[n].vehicle \in Shown /\ s4[n].version \in Nat
                BY <4>1 DEF Updates
            <4>3. s1[s4[n].vehicle] <= s1'[s4[n].vehicle] /\ s1[s4[n].vehicle] \in Nat
                  /\ s1'[s4[n].vehicle] \in Nat
                BY <1>3, <4>2 DEF Lists
            <4> QED  BY <1>6, <3>1, <4>1, <4>2, <4>3
        <3>2. CASE n \notin DOMAIN s4
            BY <1>3, <1>6, <3>2 DEF update, Lists
        <3> QED  BY <3>1, <3>2
    <2>2. ASSUME NEW w \in Shown, w \in s10 \/ s9[w] = s1[w] \/ Current(w), w # v
          PROVE  w \in s10' \/ s9'[w] = s1'[w] \/ Current(w)'
        <3>1. ASSUME Current(w) PROVE Current(w)'
            <4>1. PICK n \in DOMAIN s4 : s4[n].vehicle = w /\ s4[n].version = s1[w]
                BY <3>1 DEF Current
            <4>2. n \in DOMAIN s4' /\ s4'[n] = s4[n]
                BY <1>1, <1>6
            <4>3. s1'[w] = s1[w]
                BY <1>3, <2>2
            <4> QED  BY <4>1, <4>2, <4>3 DEF Current
        <3> QED  BY <1>2, <1>3, <2>2, <3>1
    <2>3. v \in s10' \/ Current(v)'
        <3>1. CASE Dashboard!Heard(v) = {}
            BY <1>2, <3>1
        <3>2. CASE Dashboard!Heard(v) # {}
            <4>1. Len(s4) + 1 \in DOMAIN s4' \ DOMAIN s4
                BY <1>1, <1>6, <3>2
            <4>2. s4'[Len(s4) + 1].vehicle = v /\ s4'[Len(s4) + 1].version = s1'[v]
                BY <1>3, <1>6, <4>1 DEF update
            <4> QED  BY <4>1, <4>2 DEF Current
        <3> QED  BY <3>1, <3>2
    <2> QED  BY <1>2, <2>1, <2>2, <2>3 DEF DashInv, ListInv
<1>10. RoomsInv'
    BY <1>2, RoomsStay DEF DashInv
<1> QED  BY <1>8, <1>9, <1>10 DEF DashInv

LEMMA UpdateIsHandled ==
    ASSUME Dashboard!DashboardAssumption, DashInv, Dashboard!HandleUpdate
    PROVE  DashInv'
<1>1. s4 # <<>> /\ s4' = Tail(s4) /\ UNCHANGED <<s1, s2, s3, s5, s6, s7, s8, s11, s12>>
    BY DEF Dashboard!HandleUpdate
<1>2. PICK update \in Updates : update = Head(s4)
    BY <1>1, TailOf DEF DashInv, DashTypes
<1>3. PICK v \in Shown : v = update.vehicle
    BY DEF Updates
<1>4. /\ s9 = None => s9' = s9 /\ s10' = s10 \cup {v}
      /\ s9 # None => /\ s9' = [s9 EXCEPT ![v] = update.version]
                      /\ s10' = IF update.version = s1[v] THEN s10 \ {v}
                                ELSE IF update.version < s9[v] THEN s10 \cup {v} ELSE s10
    BY <1>2, <1>3 DEF Dashboard!HandleUpdate
<1>5. /\ Tail(s4) \in Seq(Updates) /\ update = s4[1] /\ v = s4[1].vehicle
      /\ DOMAIN s4 = 1..Len(s4) /\ Len(s4) \in Nat \ {0}
      /\ DOMAIN Tail(s4) = 1..(Len(s4) - 1)
      /\ \A n \in DOMAIN Tail(s4) : Tail(s4)[n] = s4[n + 1]
    BY <1>1, <1>2, <1>3, TailOf DEF DashInv, DashTypes
<1>6. /\ s4' \in Seq(Updates)
      /\ \A n \in DOMAIN s4' : n + 1 \in DOMAIN s4 /\ s4'[n] = s4[n + 1]
      /\ \A n \in DOMAIN s4 : n # 1 => n - 1 \in DOMAIN s4' /\ s4'[n - 1] = s4[n]
    BY <1>1, <1>5
<1>7. v \in Shown /\ update.version \in Nat /\ update.version <= s1[v] /\ s1[v] \in 0..Versions
    <2>1. 1 \in DOMAIN s4 /\ s4[1].version <= s1[s4[1].vehicle]
        BY <1>5 DEF DashInv, ListInv
    <2>2. update.version \in Nat
        BY DEF Updates
    <2>3. s1[v] \in 0..Versions
        BY <2>2 DEF DashInv, DashTypes, Lists
    <2> QED  BY <1>5, <2>1, <2>2, <2>3
<1>8. s9 # None => s9' \in Lists /\ s9' # None
    <2> SUFFICES ASSUME s9 # None PROVE s9' \in Lists
        BY DEF Dashboard!DashboardAssumption, Lists
    <2>1. Versions \in Nat
        BY DEF Dashboard!DashboardAssumption
    <2>2. update.version \in 0..Versions
        BY <1>7, <2>1
    <2>3. s9 \in Lists /\ s9' = [s9 EXCEPT ![v] = update.version]
        BY <1>4 DEF DashInv, DashTypes
    <2> QED  BY <2>2, <2>3 DEF Lists
<1>9. DashTypes'
    <2>1. s9' \in Lists \cup {None} /\ s10' \subseteq Shown
        BY <1>4, <1>7, <1>8 DEF DashInv, DashTypes
    <2>2. ~s2 => s4' = <<>>
        BY <1>1 DEF DashInv, DashTypes
    <2> QED  BY <1>1, <1>6, <2>1, <2>2 DEF DashInv, DashTypes
<1>10. ASSUME NEW w \in Shown, Current(w), s4[1].vehicle # w \/ s4[1].version # s1[w]
      PROVE  Current(w)'
    <2>1. PICK n \in DOMAIN s4 : s4[n].vehicle = w /\ s4[n].version = s1[w]
        BY <1>10 DEF Current
    <2>2. PICK m \in DOMAIN s4' : s4'[m] = s4[n]
        BY <1>6, <1>10, <2>1
    <2> QED  BY <1>1, <2>1, <2>2 DEF Current
<1>11. ListInv'
    <2>1. \A n \in DOMAIN s4' : s4'[n].version <= s1'[s4'[n].vehicle]
        BY <1>1, <1>6 DEF DashInv, ListInv
    <2>2. ASSUME s9 # None
          PROVE  s9' = [s9 EXCEPT ![v] = update.version] /\ s9 \in Lists
        BY <1>4, <2>2 DEF DashInv, DashTypes
    <2>3. ASSUME s9 # None, NEW w \in Shown \ {v}
          PROVE  w \in s10' \/ s9'[w] = s1'[w] \/ Current(w)'
        <3>1. w \in s10 \/ s9[w] = s1[w] \/ Current(w)
            BY <2>3 DEF DashInv, ListInv
        <3>2. s9'[w] = s9[w] /\ (w \in s10 => w \in s10')
            BY <1>4, <2>2, <2>3 DEF Lists
        <3>3. Current(w) => Current(w)'
            BY <1>5, <1>10, <2>3
        <3> QED  BY <1>1, <3>1, <3>2, <3>3
    <2>4. ASSUME s9 # None
          PROVE  v \in s10' \/ s9'[v] = s1'[v] \/ Current(v)'
        <3>1. v \in s10 \/ s9[v] = s1[v] \/ Current(v)
            BY <1>7, <2>4 DEF DashInv, ListInv
        <3>2. CASE update.version = s1[v]
            BY <1>1, <1>7, <2>2, <2>4, <3>2 DEF Lists
        <3>3. CASE update.version # s1[v]
            <4>1. s9[v] = s1[v] => v \in s10'
                BY <1>4, <1>7, <2>4, <3>3
            <4>2. v \in s10 => v \in s10'
                BY <1>4, <2>4, <3>3
            <4>3. Current(v) => Current(v)'
                BY <1>5, <1>7, <1>10, <3>3
            <4> QED  BY <3>1, <4>1, <4>2, <4>3
        <3> QED  BY <3>2, <3>3
    <2> QED  BY <1>4, <2>1, <2>3, <2>4 DEF ListInv
<1>12. RoomsInv'
    BY <1>1, <1>4, <1>8, RoomsStay DEF DashInv
<1> QED  BY <1>9, <1>11, <1>12 DEF DashInv

LEMMA Unseen ==
    ASSUME DashInv,
           \/ Dashboard!AnswerFetch \/ Dashboard!FetchFails \/ Dashboard!Refetch
    PROVE  DashInv'
<1>1. UNCHANGED <<s1, s2, s3, s4, s5, s6, s7, s9, s10, s11, s12>>
    BY DEF Dashboard!AnswerFetch, Dashboard!FetchFails, Dashboard!Refetch
<1>2. s8' \in Fetches
    BY DEF Dashboard!AnswerFetch, Dashboard!FetchFails, Dashboard!Refetch, Fetches, DashInv, DashTypes
<1>3. DashTypes'
    BY <1>1, <1>2 DEF DashInv, DashTypes
<1> QED  BY <1>1, <1>3, ListStays, RoomsStay DEF DashInv

(* The rooms *)

LEMMA Connects ==
    ASSUME DashInv, Dashboard!Connect
    PROVE  DashInv'
<1>1. s2' = TRUE /\ UNCHANGED <<s1, s3, s4, s5, s6, s7, s8, s9, s10, s11, s12>>
    BY DEF Dashboard!Connect
<1>2. DashTypes'
    BY <1>1 DEF DashInv, DashTypes
<1> QED  BY <1>1, <1>2, ListStays, RoomsStay DEF DashInv

LEMMA Disconnects ==
    ASSUME DashInv, Dashboard!Disconnect
    PROVE  DashInv'
<1>1. /\ s2' = FALSE /\ s3' = <<>> /\ s4' = <<>> /\ s5' = {} /\ s6' = {} /\ s11' = {}
      /\ s10' = s10 \cup {s4[n].vehicle : n \in DOMAIN s4}
      /\ s12' = (s7 # None)
      /\ UNCHANGED <<s1, s7, s8, s9>>
    BY DEF Dashboard!Disconnect
<1>2. DashTypes'
    <2>1. ASSUME NEW n \in DOMAIN s4 PROVE s4[n].vehicle \in Shown
        <3>1. s4[n] \in Updates
            BY DEF DashInv, DashTypes
        <3> QED  BY <3>1 DEF Updates
    <2>2. s10' \subseteq Shown
        <3>1. s10 \subseteq Shown
            BY DEF DashInv, DashTypes
        <3> QED  BY Zenon, <1>1, <2>1, <3>1
    <2>3. s3' \in Seq(Mails) /\ s4' \in Seq(Updates)
        BY <1>1
    <2> QED  BY <1>1, <2>2, <2>3 DEF DashInv, DashTypes
<1>3. ListInv'
    <2>1. ASSUME NEW v, Current(v) PROVE v \in s10'
        <3>1. PICK n \in DOMAIN s4 : s4[n].vehicle = v
            BY <2>1 DEF Current
        <3> QED  BY Zenon, <1>1, <3>1
    <2>2. s10 \subseteq s10' /\ DOMAIN s4' = {}
        BY <1>1
    <2> QED  BY <1>1, <2>1, <2>2 DEF DashInv, ListInv
<1>4. RoomsInv'
    <2>1. s5' = {} /\ s6' = {} /\ (s7' # None => s12')
        BY Zenon, <1>1
    <2>2. DOMAIN s3' = {}
        <3>1. s3' = <<>>
            BY <1>1
        <3> QED  BY <3>1
    <2> QED  BY Zenon, <2>1, <2>2 DEF RoomsInv
<1> QED  BY <1>2, <1>3, <1>4 DEF DashInv

(* belongsToOrg answers.                                                   *)
LEMMA JoinEnds ==
    ASSUME DashInv, NEW v \in Shown, Dashboard!Join(v) \/ Dashboard!JoinFails(v)
    PROVE  DashInv'
<1>1. UNCHANGED <<s1, s2, s3, s4, s7, s8, s9, s10>>
    BY DEF Dashboard!Join, Dashboard!JoinFails
<1>2. v \in s5 /\ s5' = s5 \ {v}
    BY DEF Dashboard!Join, Dashboard!JoinFails
<1>3. \/ s6' = s6 \cup {v} /\ s11' = s11 /\ s12' = s12
      \/ s6' = s6 /\ s11' = s11 \ {v} /\ (s12' = s12 \/ s12' = TRUE) /\ (v = s7 => s12' = TRUE)
    BY DEF Dashboard!Join, Dashboard!JoinFails
<1>4. DashTypes'
    BY <1>1, <1>2, <1>3 DEF DashInv, DashTypes
<1>5. /\ \A w : (Mapped(w)' <=> Mapped(w)) /\ (WillLeave(w)' <=> WillLeave(w)) /\ (WillJoin(w)' <=> WillJoin(w))
      /\ \A n, w : LeavesAfter(n, w)' <=> LeavesAfter(n, w)
    BY <1>1 DEF Mapped, WillLeave, WillJoin, LeavesAfter
<1>6. \A w \in s5' \cup s6' : w \in s11' \/ WillLeave(w) \/ Mapped(w)
    BY <1>2, <1>3 DEF DashInv, RoomsInv
<1>7. \A w \in s5' \cap s6' : WillLeave(w) \/ Mapped(w)
    BY <1>2, <1>3 DEF DashInv, RoomsInv
<1>8. s7 # None /\ s9 # None => s12' \/ WillJoin(s7) \/ (s7 \in s5' \cup s6' /\ ~WillLeave(s7))
    BY <1>2, <1>3 DEF DashInv, RoomsInv
<1>9. RoomsInv'
    BY <1>1, <1>5, <1>6, <1>7, <1>8 DEF DashInv, RoomsInv
<1> QED  BY <1>1, <1>4, <1>9, ListStays DEF DashInv

(* What is asked behind a message stays behind it when it is taken.        *)
LEMMA BehindStays ==
    ASSUME DashTypes, s3 # <<>>, s3' = Tail(s3)
    PROVE  /\ \A v : LeavesAfter(1, v) => WillLeave(v)'
           /\ \A n \in DOMAIN s3' : /\ n + 1 \in DOMAIN s3 /\ s3'[n] = s3[n + 1]
                                    /\ \A v : LeavesAfter(n + 1, v) => LeavesAfter(n, v)'
<1>1. /\ DOMAIN s3 = 1..Len(s3) /\ Len(s3) \in Nat \ {0}
      /\ DOMAIN s3' = 1..(Len(s3) - 1)
      /\ \A n \in DOMAIN s3' : s3'[n] = s3[n + 1]
    BY TailOf DEF DashTypes
<1>2. \A n \in DOMAIN s3' : n + 1 \in DOMAIN s3 /\ s3'[n] = s3[n + 1]
    BY <1>1
<1>3. ASSUME NEW v, NEW n \in Nat \ {0}, LeavesAfter(n, v)
      PROVE  \E m \in DOMAIN s3' : m > n - 1 /\ s3'[m] = Leaving(v)
    <2>1. PICK m \in DOMAIN s3 : m > n /\ s3[m] = Leaving(v)
        BY <1>3 DEF LeavesAfter
    <2>2. m \in 2..Len(s3) /\ n \in Nat
        BY <1>1, <1>3, <2>1
    <2>3. PICK k \in 1..(Len(s3) - 1) : m = k + 1 /\ k > n - 1
        <3>1. m - 1 \in 1..(Len(s3) - 1) /\ m = (m - 1) + 1 /\ m - 1 > n - 1
            BY <1>1, <2>1, <2>2
        <3> QED  BY Zenon, <3>1
    <2>4. k \in DOMAIN s3' /\ s3'[k] = Leaving(v)
        BY Zenon, <1>1, <2>1, <2>3
    <2> QED  BY <2>3, <2>4
<1>4. \A v : LeavesAfter(1, v) => WillLeave(v)'
    <2> SUFFICES ASSUME NEW v, LeavesAfter(1, v) PROVE WillLeave(v)'
        OBVIOUS
    <2>1. PICK m \in DOMAIN s3' : s3'[m] = Leaving(v)
        BY <1>3
    <2> QED  BY <2>1 DEF WillLeave
<1>5. ASSUME NEW n \in DOMAIN s3', NEW v, LeavesAfter(n + 1, v)
      PROVE  LeavesAfter(n, v)'
    <2>1. n \in Nat /\ n + 1 \in Nat \ {0}
        BY <1>1
    <2>2. PICK m \in DOMAIN s3' : m > n + 1 - 1 /\ s3'[m] = Leaving(v)
        BY <1>3, <1>5, <2>1
    <2>3. m > n
        BY <1>1, <2>1, <2>2
    <2> QED  BY <2>2, <2>3 DEF LeavesAfter
<1> QED  BY <1>2, <1>4, <1>5

LEMMA HandlesMail ==
    ASSUME DashInv, Dashboard!HandleJoin \/ Dashboard!HandleLeave
    PROVE  DashInv'
<1>1. s3 # <<>> /\ s3' = Tail(s3) /\ UNCHANGED <<s1, s2, s4, s7, s8, s9, s10, s12>>
    BY DEF Dashboard!HandleJoin, Dashboard!HandleLeave
<1>2. s3' \in Seq(Mails) /\ Head(s3) \in Mails /\ Head(s3) = s3[1] /\ 1 \in DOMAIN s3
    BY <1>1, MailTaken, TailOf DEF DashInv, DashTypes
<1>3. s2
    BY <1>1 DEF DashInv, DashTypes
<1>4. \A w : Mapped(w)' <=> Mapped(w)
    BY <1>1 DEF Mapped
<1>5. PICK v \in Shown : v = Head(s3)[2]
    BY <1>2, MailKinds
<1>6. ASSUME NEW n \in DOMAIN s3', NEW w \in Shown, s3'[n] = Joining(w)
      PROVE  (Mapped(w) \/ LeavesAfter(n, w))'
    <2>1. n + 1 \in DOMAIN s3 /\ s3[n + 1] = Joining(w)
        BY <1>1, <1>6, BehindStays DEF DashInv
    <2>2. Mapped(w) \/ LeavesAfter(n + 1, w)
        BY <2>1 DEF DashInv, RoomsInv
    <2> QED  BY <1>1, <1>4, <2>2, BehindStays DEF DashInv
<1>7. CASE Dashboard!HandleJoin
    <2>1. Head(s3) = Joining(v) /\ Head(s3)[1] = "join"
        BY <1>2, <1>5, <1>7, MailKinds DEF Dashboard!HandleJoin
    <2>2. /\ s5 \cup {v} \cup s6 = s5' \cup s6' /\ s5 \subseteq s5' /\ s6 \subseteq s6'
          /\ s11' = s11 /\ s5' \subseteq Shown /\ s6' \subseteq Shown
        BY <1>5, <1>7 DEF Dashboard!HandleJoin, DashInv, DashTypes
    <2>3. s5' \cap s6' \subseteq (s5 \cap s6) \cup {v}
        BY <1>5, <1>7 DEF Dashboard!HandleJoin
    <2>4. \A w : WillLeave(w)' <=> WillLeave(w)
        BY <1>1, <2>1, MailTaken DEF DashInv
    <2>5. Mapped(v) \/ WillLeave(v)'
        <3>1. Mapped(v) \/ LeavesAfter(1, v)
            BY <1>2, <2>1 DEF DashInv, RoomsInv
        <3> QED  BY <1>1, <3>1, BehindStays DEF DashInv
    <2>6. \A w \in s5' \cup s6' : (w \in s11 \/ WillLeave(w) \/ Mapped(w))'
        BY <1>4, <2>2, <2>4, <2>5 DEF DashInv, RoomsInv
    <2>7. \A w \in s5' \cap s6' : (WillLeave(w) \/ Mapped(w))'
        BY <1>4, <2>3, <2>4, <2>5 DEF DashInv, RoomsInv
    <2>8. ASSUME s7 # None, s9 # None, ~s12
          PROVE  WillJoin(s7)' \/ (s7 \in s5' \cup s6' /\ ~WillLeave(s7)')
        <3>1. WillJoin(s7) \/ (s7 \in s5 \cup s6 /\ ~WillLeave(s7))
            BY <2>8 DEF DashInv, RoomsInv
        <3>2. PICK p \in Shown : p = s7
            BY <2>8 DEF DashInv, DashTypes
        <3>3. CASE WillJoin(p) /\ Head(s3) # Joining(p)
            <4>1. WillJoin(p)'
                BY <1>1, <3>3, MailTaken DEF DashInv
            <4> QED  BY <1>1, <3>2, <4>1 DEF WillJoin
        <3>4. CASE WillJoin(p) /\ Head(s3) = Joining(p)
            <4>1. p = v
                BY <2>1, <3>4, MailKinds
            <4>2. WillJoin(p)' \/ ~WillLeave(p)'
                BY <1>1, <3>4, MailTaken DEF DashInv
            <4>3. CASE WillJoin(p)'
                BY <1>1, <3>2, <4>3 DEF WillJoin
            <4>4. CASE ~WillLeave(p)'
                BY <1>1, <2>2, <3>2, <4>1, <4>4 DEF WillLeave
            <4> QED  BY <4>2, <4>3, <4>4
        <3>5. CASE p \in s5 \cup s6 /\ ~WillLeave(p)
            <4>1. ~WillLeave(p)'
                BY <2>4, <3>5
            <4> QED  BY <1>1, <2>2, <3>2, <3>5, <4>1 DEF WillLeave
        <3> QED  BY <3>1, <3>2, <3>3, <3>4, <3>5
    <2>9. RoomsInv'
        BY <1>1, <1>6, <2>6, <2>7, <2>8 DEF RoomsInv
    <2>10. DashTypes'
        BY <1>1, <1>2, <1>3, <2>2 DEF DashInv, DashTypes
    <2> QED  BY <1>1, <2>9, <2>10, ListStays DEF DashInv
<1>8. CASE Dashboard!HandleLeave
    <2>1. Head(s3) = Leaving(v)
        BY <1>2, <1>5, <1>8, MailKinds, BehindStays DEF Dashboard!HandleLeave, Dashboard!HandleJoin
    <2>2. /\ s6' = s6 \ {v} /\ s5' = s5
          /\ s11' = IF v \in s5 THEN s11 \cup {v} ELSE s11 \ {v}
        BY <1>5, <1>8 DEF Dashboard!HandleLeave
    <2>3. \A w : w # v => (WillLeave(w)' <=> WillLeave(w))
        BY <1>1, <1>5, MailTaken DEF DashInv
    <2>4. \A w \in s5' \cup s6' : (w \in s11 \/ WillLeave(w) \/ Mapped(w))'
        BY <1>4, <2>2, <2>3 DEF DashInv, RoomsInv
    <2>5. \A w \in s5' \cap s6' : (WillLeave(w) \/ Mapped(w))'
        BY <1>4, <2>2, <2>3 DEF DashInv, RoomsInv
    <2>6. ASSUME s7 # None, s9 # None, ~s12
          PROVE  WillJoin(s7)' \/ (s7 \in s5' \cup s6' /\ ~WillLeave(s7)')
        <3>1. WillJoin(s7) \/ (s7 \in s5 \cup s6 /\ ~WillLeave(s7))
            BY <2>6 DEF DashInv, RoomsInv
        <3>2. PICK p \in Shown : p = s7
            BY <2>6 DEF DashInv, DashTypes
        <3>3. CASE WillJoin(p)
            <4>1. Head(s3) # Joining(p)
                BY <2>1, MailKinds
            <4>2. WillJoin(p)'
                BY <1>1, <3>3, <4>1, MailTaken DEF DashInv
            <4> QED  BY <1>1, <3>2, <4>2 DEF WillJoin
        <3>4. CASE p \in s5 \cup s6 /\ ~WillLeave(p)
            <4>1. p # v
                BY <1>2, <2>1, <3>4 DEF WillLeave
            <4>2. ~WillLeave(p)' /\ p \in s5' \cup s6'
                BY <2>2, <2>3, <3>4, <4>1
            <4> QED  BY <1>1, <3>2, <4>2 DEF WillLeave
        <3> QED  BY <3>1, <3>2, <3>3, <3>4
    <2>7. RoomsInv'
        BY <1>1, <1>6, <2>4, <2>5, <2>6 DEF RoomsInv
    <2>8. DashTypes'
        BY <1>1, <1>2, <1>3, <2>2 DEF DashInv, DashTypes
    <2> QED  BY <1>1, <2>7, <2>8, ListStays DEF DashInv
<1> QED  BY <1>7, <1>8

(* The answer of a request for the vehicles comes: the map is there, and   *)
(* its join is on its way, or it is deaf.                                  *)
LEMMA Receives ==
    ASSUME Dashboard!DashboardAssumption, DashInv, Dashboard!ReceiveFetch
    PROVE  DashInv'
<1>1. /\ s8.at = "answered" /\ s8' = [at |-> "idle"] /\ s9' = s8.versions
      /\ s10' = {v \in Shown : s8.versions[v] # s1[v]}
      /\ UNCHANGED <<s1, s2, s4, s5, s6, s7, s11>>
    BY DEF Dashboard!ReceiveFetch
<1>2. /\ s7 # None /\ s9 = None => /\ s3' = IF s2 THEN s3 \o << <<"join", s7>> >> ELSE s3
                                   /\ s12' = ~s2
      /\ ~(s7 # None /\ s9 = None) => UNCHANGED <<s3, s12>>
    BY DEF Dashboard!ReceiveFetch, Dashboard!Sending
<1>3. s9' \in Lists /\ s9' # None
    <2>1. s8.versions \in Lists
        BY <1>1 DEF DashInv, DashTypes, Fetches
    <2> QED  BY <1>1, <2>1 DEF Dashboard!DashboardAssumption, Lists
<1>4. ListInv'
    BY <1>1, <1>3 DEF DashInv, ListInv
<1>5. CASE ~(s7 # None /\ s9 = None)
    <2>1. UNCHANGED <<s3, s12>>
        BY <1>2, <1>5
    <2>2. DashTypes'
        BY <1>1, <1>3, <2>1 DEF DashInv, DashTypes, Fetches
    <2>3. s7 = None \/ s9 # None
        BY <1>5
    <2>4. CASE s9 # None
        BY <1>1, <1>3, <2>1, <2>2, <2>4, <1>4, RoomsStay DEF DashInv
    <2>5. CASE s7 = None
        <3>1. \A v : /\ WillLeave(v)' <=> WillLeave(v)
                     /\ \A n : LeavesAfter(n, v)' <=> LeavesAfter(n, v)
            BY <2>1 DEF WillLeave, LeavesAfter
        <3>2. \A v \in Shown : ~Mapped(v)
            BY <2>5 DEF Mapped, Dashboard!DashboardAssumption
        <3>3. s5 \subseteq Shown /\ s6 \subseteq Shown
            BY DEF DashInv, DashTypes
        <3>4. RoomsInv'
            BY <1>1, <2>1, <2>5, <3>1, <3>2, <3>3 DEF DashInv, RoomsInv
        <3> QED  BY <1>4, <2>2, <3>4 DEF DashInv
    <2> QED  BY <2>3, <2>4, <2>5
<1>6. CASE s7 # None /\ s9 = None
    <2>1. PICK p \in Shown : p = s7
        BY <1>6 DEF DashInv, DashTypes
    <2>2. Mapped(p)' /\ \A v : ~Mapped(v)
        BY <1>1, <1>3, <1>6, <2>1 DEF Mapped
    <2>3. CASE ~s2
        <3>1. s3 = <<>> /\ s3' = <<>> /\ s5' = {} /\ s6' = {} /\ s12'
            BY <1>1, <1>2, <1>6, <2>3 DEF DashInv, DashTypes
        <3>2. DashTypes'
            BY <1>1, <1>2, <1>3, <1>6, <2>3 DEF DashInv, DashTypes, Fetches
        <3>3. DOMAIN s3' = {}
            BY <3>1
        <3>4. RoomsInv'
            BY Zenon, <3>1, <3>3 DEF RoomsInv
        <3> QED  BY <1>4, <3>2, <3>4 DEF DashInv
    <2>4. CASE s2
        <3>1. Joining(p) \in Mails /\ s3' = s3 \o <<Joining(p)>>
            BY <1>2, <1>6, <2>1, <2>4, MailKinds DEF Joining
        <3>2. /\ s3' \in Seq(Mails)
              /\ \A v : WillLeave(v)' <=> WillLeave(v)
              /\ WillJoin(p)'
              /\ \A n \in DOMAIN s3' : (n \in DOMAIN s3 /\ s3'[n] = s3[n]) \/ s3'[n] = Joining(p)
              /\ \A n \in DOMAIN s3 : n \in DOMAIN s3' /\ s3'[n] = s3[n]
            BY <3>1, MailSent, MailKinds DEF DashInv
        <3>3. DashTypes'
            BY <1>1, <1>3, <2>4, <3>2 DEF DashInv, DashTypes, Fetches
        <3>4. ASSUME NEW n \in DOMAIN s3', NEW v \in Shown, s3'[n] = Joining(v)
              PROVE  Mapped(v)' \/ LeavesAfter(n, v)'
            <4>1. CASE s3'[n] = Joining(p)
                <5>1. Joining(p)[2] = p /\ Joining(v)[2] = v
                    BY MailKinds
                <5>2. v = p
                    BY <3>4, <4>1, <5>1
                <5> QED  BY <2>2, <5>2 DEF Mapped
            <4>2. CASE n \in DOMAIN s3 /\ s3'[n] = s3[n]
                <5>1. LeavesAfter(n, v)
                    BY <2>2, <3>4, <4>2 DEF DashInv, RoomsInv
                <5> QED  BY <3>2, <5>1 DEF LeavesAfter
            <4> QED  BY <3>2, <4>1, <4>2
        <3>5. /\ \A v \in s5' \cup s6' : v \in s11' \/ WillLeave(v)'
              /\ \A v \in s5' \cap s6' : WillLeave(v)'
            BY <1>1, <2>2, <3>2 DEF DashInv, RoomsInv
        <3>6. s7' = p
            BY <1>1, <2>1
        <3>7. RoomsInv'
            <4>1. WillJoin(s7)'
                BY <3>2, <3>6 DEF WillJoin
            <4> QED  BY <3>4, <3>5, <4>1 DEF RoomsInv
        <3> QED  BY <1>4, <3>3, <3>7 DEF DashInv
    <2> QED  BY <2>3, <2>4 DEF DashInv, DashTypes
<1> QED  BY <1>5, <1>6

(* Another page: the room of the last one is going to be left.             *)
LEMMA Opens ==
    ASSUME Dashboard!DashboardAssumption, DashInv,
           NEW u \in Shown \cup {None}, Dashboard!OpenPage(u)
    PROVE  DashInv'
<1>1. /\ s7' = u /\ s9' = None /\ s8' = [at |-> "asked"] /\ s10' = {}
      /\ UNCHANGED <<s1, s2, s4, s5, s6, s11>>
    BY DEF Dashboard!OpenPage
<1>2. s3' = IF s7 # None /\ s9 # None /\ s2 THEN s3 \o << <<"leave", s7>> >> ELSE s3
    BY DEF Dashboard!OpenPage, Dashboard!Sending
<1>3. ListInv'
    BY <1>1 DEF DashInv, ListInv
<1>4. \A v : ~Mapped(v)'
    BY <1>1 DEF Mapped
<1>5. CASE s7 # None /\ s9 # None /\ s2
    <2>1. PICK p \in Shown : p = s7
        BY <1>5 DEF DashInv, DashTypes
    <2>2. Leaving(p) \in Mails /\ s3' = s3 \o <<Leaving(p)>>
        BY <1>2, <1>5, <2>1, MailKinds DEF Leaving
    <2>3. /\ s3' \in Seq(Mails)
          /\ \A v : WillLeave(v) \/ v = p => WillLeave(v)'
          /\ \A n \in DOMAIN s3' : (n \in DOMAIN s3 /\ s3'[n] = s3[n]) \/ s3'[n] = Leaving(p)
          /\ \A n \in DOMAIN s3 : /\ n \in DOMAIN s3' /\ s3'[n] = s3[n]
                                  /\ Len(s3) + 1 \in DOMAIN s3' /\ Len(s3) + 1 > n
          /\ s3'[Len(s3) + 1] = Leaving(p)
        BY <2>2, MailSent DEF DashInv
    <2>4. DashTypes'
        BY <1>1, <1>5, <2>3 DEF DashInv, DashTypes, Fetches
    <2>5. \A v : Mapped(v) => v = p
        BY <2>1 DEF Mapped
    <2>6. ASSUME NEW n \in DOMAIN s3', NEW v \in Shown, s3'[n] = Joining(v)
          PROVE  LeavesAfter(n, v)'
        <3>1. s3'[n] # Leaving(p)
            BY <2>6, MailKinds
        <3>2. n \in DOMAIN s3 /\ s3'[n] = s3[n]
            BY <2>3, <3>1
        <3>3. Mapped(v) \/ LeavesAfter(n, v)
            BY <2>6, <3>2 DEF DashInv, RoomsInv
        <3>4. CASE v = p
            BY <2>3, <3>2, <3>4 DEF LeavesAfter
        <3>5. CASE LeavesAfter(n, v)
            BY <2>3, <3>5 DEF LeavesAfter
        <3> QED  BY <2>5, <3>3, <3>4, <3>5
    <2>7. /\ \A v \in s5' \cup s6' : v \in s11' \/ WillLeave(v)'
          /\ \A v \in s5' \cap s6' : WillLeave(v)'
        BY <1>1, <2>3, <2>5 DEF DashInv, RoomsInv
    <2>8. RoomsInv'
        BY <1>1, <2>6, <2>7 DEF RoomsInv
    <2> QED  BY <1>3, <2>4, <2>8 DEF DashInv
<1>6. CASE ~(s7 # None /\ s9 # None /\ s2)
    <2>1. s3' = s3
        BY <1>2, <1>6
    <2>2. DashTypes'
        BY <1>1, <2>1 DEF DashInv, DashTypes, Fetches
    <2>3. CASE ~s2
        <3>1. s3' = <<>> /\ s5' = {} /\ s6' = {}
            BY <1>1, <2>1, <2>3 DEF DashInv, DashTypes
        <3>2. DOMAIN s3' = {}
            BY <3>1
        <3>3. RoomsInv'
            BY Zenon, <1>1, <3>1, <3>2 DEF RoomsInv
        <3> QED  BY <1>3, <2>2, <3>3 DEF DashInv
    <2>4. CASE s7 = None \/ s9 = None
        <3>1. \A v \in Shown : ~Mapped(v)
            BY <2>4 DEF Mapped, Dashboard!DashboardAssumption
        <3>2. \A v : /\ WillLeave(v)' <=> WillLeave(v)
                     /\ \A n : LeavesAfter(n, v)' <=> LeavesAfter(n, v)
            BY <2>1 DEF WillLeave, LeavesAfter
        <3>3. s5 \subseteq Shown /\ s6 \subseteq Shown
            BY DEF DashInv, DashTypes
        <3>4. RoomsInv'
            BY <1>1, <2>1, <3>1, <3>2, <3>3 DEF DashInv, RoomsInv
        <3> QED  BY <1>3, <2>2, <3>4 DEF DashInv
    <2> QED  BY <1>6, <2>3, <2>4
<1> QED  BY <1>5, <1>6

LEMMA DashMoves ==
    ASSUME Dashboard!DashboardAssumption, DashInv, Dashboard!DashNext
    PROVE  DashInv'
<1>1. CASE \E v \in Shown : Dashboard!Publish(v) \/ Dashboard!Join(v) \/ Dashboard!JoinFails(v)
    BY <1>1, Publishes, JoinEnds
<1>2. CASE \E v \in Shown \cup {None} : Dashboard!OpenPage(v)
    BY <1>2, Opens
<1>3. CASE Dashboard!HandleJoin \/ Dashboard!HandleLeave
    BY <1>3, HandlesMail
<1>4. CASE Dashboard!AnswerFetch \/ Dashboard!FetchFails \/ Dashboard!Refetch
    BY <1>4, Unseen
<1>5. CASE Dashboard!Connect \/ Dashboard!Disconnect
    BY <1>5, Connects, Disconnects
<1>6. CASE Dashboard!HandleUpdate \/ Dashboard!ReceiveFetch
    BY <1>6, UpdateIsHandled, Receives
<1> QED  BY <1>1, <1>2, <1>3, <1>4, <1>5, <1>6 DEF Dashboard!DashNext

LEMMA DashBegins ==
    ASSUME Dashboard!DashboardAssumption, Dashboard!DashInit
    PROVE  DashInv
<1>1. /\ s1 = [v \in Shown |-> 0] /\ s2 = FALSE /\ s3 = <<>> /\ s4 = <<>> /\ s5 = {} /\ s6 = {}
      /\ s7 = None /\ s8 = [at |-> "asked"] /\ s9 = None /\ s10 = {}
    BY DEF Dashboard!DashInit
<1>2. DashTypes
    <2>1. s1 \in Lists
        BY <1>1 DEF Lists, Dashboard!DashboardAssumption
    <2>2. s8 \in Fetches
        BY <1>1 DEF Fetches
    <2>3. s3 \in Seq(Mails) /\ s4 \in Seq(Updates)
        BY <1>1
    <2> QED  BY <1>1, <2>1, <2>2, <2>3 DEF DashTypes
<1>3. DOMAIN s3 = {} /\ DOMAIN s4 = {}
    BY <1>1
<1>4. ListInv
    BY <1>1, <1>3 DEF ListInv
<1>5. RoomsInv
    BY Zenon, <1>1, <1>3 DEF RoomsInv
<1> QED  BY <1>2, <1>4, <1>5 DEF DashInv

(* Nothing is under way: what was on its way has come.                     *)
LEMMA DashAsPromised ==
    ASSUME Dashboard!DashboardAssumption, DashInv
    PROVE  Dashboard!DashTypeOK /\ Dashboard!DashboardHolds
<1>1. Dashboard!DashTypeOK
    <2>1. \A n \in DOMAIN s3 : s3[n] \in {"join", "leave"} \X Shown
        BY DEF DashInv, DashTypes, Mails
    <2>2. s8.at \in {"idle", "asked", "answered"}
        BY DEF DashInv, DashTypes, Fetches
    <2> QED  BY <2>1, <2>2 DEF DashInv, DashTypes, ListInv, Lists, Dashboard!DashTypeOK
<1>2. Dashboard!ListIsCurrent
    <2> SUFFICES ASSUME s4 = <<>>, s9 # None, NEW v \in Shown
                 PROVE  s9[v] = s1[v] \/ v \in s10
        BY DEF Dashboard!ListIsCurrent, Dashboard!Delivered
    <2>1. DOMAIN s4 = {}
        OBVIOUS
    <2>2. ~Current(v)
        BY <2>1, Zenon DEF Current
    <2> QED  BY <2>2 DEF DashInv, ListInv
<1>3. Dashboard!RoomsFollowPage
    <2> SUFFICES ASSUME s3 = <<>>, s5 = {}, s8.at = "idle", s2
                 PROVE  /\ s6 \subseteq {s7} \cup s11
                        /\ s7 # None /\ s9 # None => s7 \in s6 \/ s12
        BY DEF Dashboard!RoomsFollowPage, Dashboard!Settled
    <2>1. DOMAIN s3 = {}
        OBVIOUS
    <2>2. \A v : ~WillLeave(v) /\ ~WillJoin(v)
        BY <2>1, Zenon DEF WillLeave, WillJoin
    <2> QED  BY <2>2 DEF DashInv, RoomsInv, Mapped
<1> QED  BY <1>1, <1>2, <1>3 DEF Dashboard!DashboardHolds

-----------------------------------------------------------------------------
(* The lists that are shown in pages.                                      *)
FeedRows == [id : Nat, time : ForFeeds.times, kind : ForFeeds.kinds]
FeedReaders == [at : {"away", "count", "rows", "page"}, kind : ForFeeds.kinds \cup {None}, page : Nat,
                total : Nat, shown : SUBSET s1, there : SUBSET s1, slipped : Nat, cut : SUBSET ForFeeds.times]

Stored(S) == S \subseteq FeedRows /\ IsFiniteSet(S)
Tied(S, time, kind) == {r \in S : r.time = time /\ r.kind = kind}

(* The rows that come before r in every order, and those that may.         *)
Ahead(r, S) == {s \in S : Feed!Newer(s, r)}
NotBehind(r, S) == {s \in S : ~Feed!Newer(r, s)}

(* Asked for and not seen yet is only what follows the pages turned, and   *)
(* rows of a time among whose rows one of them ended.                      *)
Beyond(pages) ==
    /\ Cardinality(s2.shown) <= pages * ForFeeds.pageSize
    /\ \A r \in s2.there \ s2.shown :
          r.time \in s2.cut \/ pages * ForFeeds.pageSize <= Cardinality(Ahead(r, Feed!Matching(s2.kind)))
LastPageInv ==
    s2.page >= Feed!TotalPages(s2.total) =>
        Cardinality({r \in s2.there \ s2.shown : r.time \notin s2.cut}) <= s2.slipped
FeedInv ==
    /\ Stored(s1) /\ Cardinality(s1) <= ForFeeds.most
    /\ \A r \in s1 : r.id <= Cardinality(Tied(s1, r.time, r.kind))
    /\ s2 \in FeedReaders
    /\ s2.shown \subseteq Feed!Matching(s2.kind) /\ s2.there \subseteq Feed!Matching(s2.kind)
    /\ s2.at \in {"count", "rows"} => s2.page >= 1 /\ Beyond(s2.page - 1)
    /\ s2.at = "rows" => Cardinality(Feed!Matching(s2.kind)) = s2.total + s2.slipped
    /\ s2.at = "page" => s2.page >= 1 /\ Beyond(s2.page) /\ LastPageInv

LEMMA FeedNumbers ==
    ASSUME Feed!FeedAssumption
    PROVE  ForFeeds.times \subseteq Nat /\ ForFeeds.pageSize \in Nat \ {0} /\ ForFeeds.most \in Nat
  BY DEF Feed!FeedAssumption

LEMMA Counts == \A S : Feed!Cardinality(S) = Cardinality(S)
  BY Zenon DEF Feed!Cardinality, Cardinality

LEMMA AheadGrows ==
    ASSUME NEW S, NEW T, Stored(T), S \subseteq T, NEW r
    PROVE  /\ Stored(S)
           /\ Cardinality(Ahead(r, S)) \in Nat /\ Cardinality(Ahead(r, T)) \in Nat
           /\ Cardinality(Ahead(r, S)) <= Cardinality(Ahead(r, T))
<1> DEFINE X == Ahead(r, S)
           Y == Ahead(r, T)
<1>1. X \in SUBSET Y /\ Y \in SUBSET T /\ IsFiniteSet(T) /\ S \in SUBSET T
    BY DEF Stored, Ahead
<1>2. IsFiniteSet(S) /\ IsFiniteSet(Y)
    BY <1>1, FS_Subset
<1> HIDE DEF X, Y
<1>3. IsFiniteSet(X) /\ Cardinality(X) <= Cardinality(Y)
    BY <1>1, <1>2, FS_Subset
<1>4. Cardinality(X) \in Nat /\ Cardinality(Y) \in Nat
    BY <1>2, <1>3, FS_CardinalityType
<1>5. Stored(S)
    BY <1>2 DEF Stored
<1> QED  BY <1>3, <1>4, <1>5 DEF X, Y

(* So many rows have a place from a to b at most.                          *)
LEMMA AtPlaces ==
    ASSUME NEW S, NEW place \in Feed!Orders(S), NEW T \in SUBSET S, NEW a \in Int, NEW b \in Int,
           \A r \in T : a <= place[r] /\ place[r] <= b
    PROVE  /\ IsFiniteSet(T)
           /\ Cardinality(T) <= IF a > b THEN 0 ELSE b - a + 1
<1> DEFINE at == [r \in T |-> place[r]]
<1>1. \A r \in S : place[r] \in Int
    BY DEF Feed!Orders
<1>2. \A r \in T : at[r] = place[r] /\ place[r] \in a..b
    BY <1>1
<1>3. at \in [T -> a..b]
    BY <1>2
<1>4. \A r, s \in T : at[r] = at[s] => r = s
    BY <1>2 DEF Feed!Orders
<1>5. IsFiniteSet(a..b) /\ Cardinality(a..b) = IF a > b THEN 0 ELSE b - a + 1
    BY FS_Interval
<1> HIDE DEF at
<1>6. at \in Injection(T, a..b)
    BY <1>3, <1>4 DEF Injection, IsInjective
<1> QED  BY <1>5, <1>6, FS_Injection

(* In every order a row has those before it that are newer, and behind it  *)
(* those that are older.                                                   *)
LEMMA PlaceOfRow ==
    ASSUME NEW S, Stored(S), NEW place \in Feed!Orders(S), NEW r \in S
    PROVE  /\ place[r] \in Nat /\ place[r] <= Cardinality(S) - 1
           /\ Cardinality(Ahead(r, S)) <= place[r]
           /\ Cardinality(NotBehind(r, S)) \in Nat /\ place[r] < Cardinality(NotBehind(r, S))
<1> DEFINE n == Cardinality(S)
           X == Ahead(r, S)
           N == NotBehind(r, S)
           O == {s \in S : Feed!Newer(r, s)}
<1>1. n \in Nat /\ IsFiniteSet(S)
    BY FS_CardinalityType DEF Stored
<1>2. /\ \A s \in S : place[s] \in 0..(n - 1)
      /\ \A s, t \in S : Feed!Newer(s, t) => place[s] < place[t]
    BY Counts DEF Feed!Orders
<1>3. place[r] \in Nat /\ place[r] <= n - 1
    BY <1>1, <1>2
<1>4. Cardinality(X) <= place[r]
    <2>1. \A s \in X : 0 <= place[s] /\ place[s] <= place[r] - 1
        BY <1>1, <1>2 DEF Ahead
    <2>2. X \in SUBSET S
        BY DEF Ahead
    <2> HIDE DEF X
    <2>3. Cardinality(X) <= IF 0 > place[r] - 1 THEN 0 ELSE place[r] - 1 - 0 + 1
        BY <1>3, <2>1, <2>2, AtPlaces
    <2>4. IsFiniteSet(X)
        BY <1>1, <2>2, FS_Subset
    <2> QED  BY <1>3, <2>3, <2>4, FS_CardinalityType
<1>5. Cardinality(O) <= n - 1 - place[r]
    <2>1. \A s \in O : place[r] + 1 <= place[s] /\ place[s] <= n - 1
        BY <1>1, <1>2
    <2> HIDE DEF O, n
    <2>2. O \in SUBSET S
        BY DEF O
    <2>3. Cardinality(O) <= IF place[r] + 1 > n - 1 THEN 0 ELSE n - 1 - (place[r] + 1) + 1
        BY <1>1, <1>3, <2>1, <2>2, AtPlaces
    <2>4. IsFiniteSet(O)
        BY <1>1, <2>2, FS_Subset
    <2> QED  BY <1>1, <1>3, <2>3, <2>4, FS_CardinalityType
<1>6. Cardinality(N) \in Nat /\ n = Cardinality(N) + Cardinality(O)
    <2>1. N = S \ O /\ S \cap O = O /\ O \in SUBSET S
        BY DEF NotBehind
    <2> HIDE DEF N, O
    <2>2. IsFiniteSet(O) /\ IsFiniteSet(N) /\ Cardinality(N) = Cardinality(S) - Cardinality(S \cap O)
        BY <1>1, <2>1, FS_Difference, FS_Subset
    <2>3. Cardinality(O) \in Nat /\ Cardinality(N) \in Nat
        BY <2>2, FS_CardinalityType
    <2>4. Cardinality(N) = n - Cardinality(O)
        BY <2>1, <2>2
    <2> HIDE DEF n
    <2> QED  BY <1>1, <2>3, <2>4
<1>7. Cardinality(O) \in Nat
    <2>1. IsFiniteSet(O)
        BY <1>1, FS_Subset
    <2> QED  BY <2>1, FS_CardinalityType
<1> HIDE DEF O, N, X, n
<1>8. place[r] < Cardinality(N)
    BY <1>1, <1>3, <1>5, <1>6, <1>7
<1> QED  BY <1>3, <1>4, <1>6, <1>8 DEF N, X, n

LEMMA MatchingFacts ==
    ASSUME Stored(s1), NEW kind
    PROVE  Feed!Matching(kind) \subseteq s1 /\ Stored(Feed!Matching(kind))
<1>1. Feed!Matching(kind) \subseteq s1
    BY DEF Feed!Matching
<1> QED  BY <1>1, AheadGrows

(* Rows that come later push the others back.                              *)
LEMMA BeyondStays ==
    ASSUME Stored(s1), Stored(s1)', s1 \subseteq s1', s2 \in FeedReaders, s2'.kind = s2.kind,
           s2'.shown = s2.shown, s2'.there = s2.there, s2'.cut = s2.cut,
           NEW p \in Nat, Beyond(p), ForFeeds.pageSize \in Nat
    PROVE  Beyond(p)'
<1> DEFINE M == Feed!Matching(s2.kind)
           from == p * ForFeeds.pageSize
<1>1. M \subseteq M'
    BY DEF Feed!Matching
<1>2. Stored(M')
    <2>1. M' \subseteq s1'
        BY DEF Feed!Matching
    <2> QED  BY <2>1, AheadGrows DEF Stored
<1>3. from \in Nat
    OBVIOUS
<1>4. ASSUME NEW r \in s2.there \ s2.shown, r.time \notin s2.cut
      PROVE  from <= Cardinality(Ahead(r, M'))
    <2>1. from <= Cardinality(Ahead(r, M))
        BY <1>4 DEF Beyond
    <2>2. /\ Cardinality(Ahead(r, M)) \in Nat /\ Cardinality(Ahead(r, M')) \in Nat
          /\ Cardinality(Ahead(r, M)) <= Cardinality(Ahead(r, M'))
        BY <1>1, <1>2, AheadGrows
    <2> HIDE DEF from, M
    <2> QED  BY <1>3, <2>1, <2>2
<1>5. Cardinality(s2'.shown) <= from
    BY DEF Beyond
<1>6. M' = Feed!Matching(s2.kind)'
    OBVIOUS
<1>7. \A r : Ahead(r, M') = Ahead(r, Feed!Matching(s2.kind))'
    BY <1>6 DEF Ahead, Feed!Newer
<1> HIDE DEF M, from
<1> QED  BY <1>4, <1>5, <1>7 DEF Beyond, M, from

LEMMA FeedBegins ==
    ASSUME Feed!FeedAssumption, Feed!FeedInit
    PROVE  FeedInv
<1>1. s1 = {} /\ s2 = Feed!NoReader
    BY DEF Feed!FeedInit
<1>2. IsFiniteSet(s1) /\ Cardinality(s1) = 0
    BY <1>1, FS_EmptySet
<1>3. s2 \in FeedReaders /\ s2.at = "away" /\ s2.shown = {} /\ s2.there = {}
    BY <1>1 DEF Feed!NoReader, FeedReaders
<1>4. Stored(s1) /\ Cardinality(s1) <= ForFeeds.most
    BY <1>1, <1>2, FeedNumbers DEF Stored
<1> QED  BY <1>1, <1>3, <1>4 DEF FeedInv

LEMMA RowArrives ==
    ASSUME Feed!FeedAssumption, FeedInv, NEW time \in ForFeeds.times, NEW kind \in ForFeeds.kinds,
           Feed!Insert(time, kind)
    PROVE  FeedInv'
<1> DEFINE tied == Tied(s1, time, kind)
           new == [id |-> Cardinality(tied) + 1, time |-> time, kind |-> kind]
           counted == s2.at = "rows" /\ s2.kind \in {None, kind}
<1>1. /\ Cardinality(s1) < ForFeeds.most
      /\ s1' = s1 \cup {new}
      /\ s2' = [s2 EXCEPT !.slipped = IF counted THEN @ + 1 ELSE @]
    BY Counts DEF Feed!Insert, Tied
<1>2. Stored(s1) /\ Cardinality(s1) \in Nat /\ s2 \in FeedReaders /\ ForFeeds.most \in Nat
      /\ ForFeeds.pageSize \in Nat /\ ForFeeds.times \subseteq Nat
    BY FeedNumbers, FS_CardinalityType DEF FeedInv, Stored
<1>3. IsFiniteSet(tied) /\ Cardinality(tied) \in Nat
    <2>1. tied \in SUBSET s1
        BY DEF Tied
    <2> QED  BY <1>2, <2>1, FS_Subset, FS_CardinalityType DEF Stored
<1>4. new \in FeedRows /\ new \notin s1 /\ new.kind = kind
    <2> DEFINE n == Cardinality(tied) + 1
    <2>1. n \in Nat /\ \A r \in tied : r.id < n
        <3>1. \A r \in tied : r.id \in Nat /\ r.id <= Cardinality(tied)
            BY <1>2 DEF FeedInv, Tied, Stored, FeedRows
        <3> HIDE DEF tied
        <3> QED  BY <1>3, <3>1
    <2>2. new = [id |-> n, time |-> time, kind |-> kind]
        OBVIOUS
    <2> HIDE DEF n, new
    <2>3. new.id = n /\ new.time = time /\ new.kind = kind /\ new \in FeedRows
        BY <2>1, <2>2 DEF FeedRows
    <2>4. new \in s1 => new \in tied
        BY <2>3 DEF Tied
    <2> QED  BY <2>1, <2>3, <2>4
<1>5. /\ IsFiniteSet(s1') /\ Cardinality(s1') = Cardinality(s1) + 1
      /\ Stored(s1')
      /\ \A r \in s1' : r.id <= Cardinality(Tied(s1', r.time, r.kind))
    <2>1. IsFiniteSet(s1') /\ Cardinality(s1') = Cardinality(s1) + 1
        <3> HIDE DEF new
        <3> QED  BY <1>1, <1>2, <1>4, FS_AddElement DEF Stored
    <2>2. Stored(s1')
        <3> HIDE DEF new
        <3> QED  BY <1>1, <1>2, <1>4, <2>1 DEF Stored
    <2>3. ASSUME NEW r \in s1'
          PROVE  r.id <= Cardinality(Tied(s1', r.time, r.kind))
        <3> DEFINE X == Tied(s1, r.time, r.kind)
                   Y == Tied(s1', r.time, r.kind)
        <3>1. X \in SUBSET Y /\ Y \in SUBSET s1'
            <4> HIDE DEF new
            <4> QED  BY <1>1 DEF Tied
        <3>2. IsFiniteSet(X) /\ IsFiniteSet(Y) /\ Cardinality(X) <= Cardinality(Y)
              /\ Cardinality(X) \in Nat /\ Cardinality(Y) \in Nat
            <4> HIDE DEF X, Y
            <4> QED  BY <2>1, <3>1, FS_Subset, FS_CardinalityType
        <3>3. CASE r \in s1
            <4>1. r.id \in Nat /\ r.id <= Cardinality(X)
                BY <1>2, <3>3 DEF FeedInv, Stored, FeedRows
            <4> HIDE DEF X, Y
            <4>2. r.id <= Cardinality(Y)
                BY <3>2, <4>1
            <4> QED  BY <4>2 DEF Y
        <3>4. CASE r \notin s1
            <4>1. r = new
                BY <1>1, <3>4
            <4>2. r.id = Cardinality(tied) + 1 /\ r.time = time /\ r.kind = kind
                BY <4>1
            <4> HIDE DEF new
            <4>3. Y = tied \cup {new} /\ new \notin tied
                BY <1>1, <1>4, <4>1, <4>2 DEF Tied
            <4> HIDE DEF tied, Y
            <4>4. Cardinality(Y) = Cardinality(tied) + 1
                BY <1>3, <4>3, FS_AddElement
            <4>5. r.id <= Cardinality(Y)
                BY <1>3, <4>2, <4>4
            <4> QED  BY <4>5 DEF Y
        <3> QED  BY <3>3, <3>4
    <2> QED  BY <2>1, <2>2, <2>3
<1> HIDE DEF new
<1>6. Cardinality(s1') <= ForFeeds.most
    BY <1>1, <1>2, <1>5
<1>7. /\ s2' \in FeedReaders' /\ s2'.at = s2.at /\ s2'.kind = s2.kind /\ s2'.page = s2.page /\ s2'.total = s2.total
      /\ s2'.shown = s2.shown /\ s2'.there = s2.there /\ s2'.cut = s2.cut
      /\ s2'.slipped = IF counted THEN s2.slipped + 1 ELSE s2.slipped
    <2>1. s2 \in [at : {"away", "count", "rows", "page"}, kind : ForFeeds.kinds \cup {None}, page : Nat,
                  total : Nat, shown : SUBSET s1', there : SUBSET s1', slipped : Nat, cut : SUBSET ForFeeds.times]
        BY <1>1, <1>2 DEF FeedReaders
    <2> HIDE DEF counted
    <2> QED  BY <1>1, <2>1 DEF FeedReaders
<1>8. /\ Feed!Matching(s2.kind)' = Feed!Matching(s2.kind) \cup (IF s2.kind \in {None, kind} THEN {new} ELSE {})
      /\ new \notin Feed!Matching(s2.kind)
    BY <1>1, <1>4, <1>7 DEF Feed!Matching
<1>9. ASSUME NEW p \in Nat, Beyond(p)
      PROVE  Beyond(p)'
    BY <1>1, <1>2, <1>5, <1>7, <1>9, BeyondStays
<1>10. s2'.at \in {"count", "rows"} => s2'.page >= 1 /\ Beyond(s2.page - 1)'
    <2>1. SUFFICES ASSUME s2'.at \in {"count", "rows"}
                   PROVE  s2'.page >= 1 /\ Beyond(s2.page - 1)'
        OBVIOUS
    <2>2. s2.page >= 1 /\ Beyond(s2.page - 1) /\ s2.page \in Nat
        BY <1>2, <1>7, <2>1 DEF FeedInv, FeedReaders
    <2>3. s2.page - 1 \in Nat
        BY <2>2
    <2> QED  BY <1>7, <1>9, <2>2, <2>3 DEF Beyond
<1>11. s2'.at = "rows" => Cardinality(Feed!Matching(s2.kind)') = s2'.total + s2'.slipped
    <2>1. SUFFICES ASSUME s2.at = "rows"
                   PROVE  Cardinality(Feed!Matching(s2.kind)') = s2'.total + s2'.slipped
        BY <1>7
    <2>2. Cardinality(Feed!Matching(s2.kind)) = s2.total + s2.slipped /\ s2.total \in Nat /\ s2.slipped \in Nat
          /\ IsFiniteSet(Feed!Matching(s2.kind))
        BY <1>2, <2>1, MatchingFacts DEF FeedInv, FeedReaders, Stored
    <2>3. CASE s2.kind \in {None, kind}
        <3>1. Cardinality(Feed!Matching(s2.kind) \cup {new}) = Cardinality(Feed!Matching(s2.kind)) + 1
            BY <1>8, <2>2, FS_AddElement
        <3> QED  BY <1>7, <1>8, <2>1, <2>2, <2>3, <3>1
    <2>4. CASE s2.kind \notin {None, kind}
        BY <1>7, <1>8, <2>1, <2>2, <2>4
    <2> QED  BY <2>3, <2>4
<1>12. s2'.at = "page" => s2'.page >= 1 /\ Beyond(s2.page)' /\ LastPageInv'
    <2>1. SUFFICES ASSUME s2.at = "page"
                   PROVE  s2'.page >= 1 /\ Beyond(s2.page)' /\ LastPageInv'
        BY <1>7
    <2>2. s2.page >= 1 /\ Beyond(s2.page) /\ s2.page \in Nat /\ LastPageInv
        BY <1>2, <2>1 DEF FeedInv, FeedReaders
    <2>3. LastPageInv'
        BY <1>7, <2>1, <2>2 DEF LastPageInv, Feed!TotalPages
    <2> QED  BY <1>7, <1>9, <2>2, <2>3 DEF Beyond
<1>13. s2'.shown \subseteq Feed!Matching(s2.kind)' /\ s2'.there \subseteq Feed!Matching(s2.kind)'
    BY <1>7, <1>8 DEF FeedInv
<1> QED  BY <1>5, <1>6, <1>7, <1>10, <1>11, <1>12, <1>13 DEF FeedInv, Beyond

(* The pages follow each other.                                            *)
LEMMA PagesFollow ==
    ASSUME NEW size \in Nat \ {0}, NEW p \in Nat
    PROVE  /\ (p - 1) * size \in Int /\ p * size \in Nat
           /\ p * size = (p - 1) * size + size
<1>1. (p - 1) * size = size * (p - 1) /\ p * size = size * p /\ size * (p - 1) = size * p - size * 1
    BY Multiple, Distributes
<1>2. size * p \in Int /\ size * 1 = size /\ p * size \in Nat
    OBVIOUS
<1> QED  BY <1>1, <1>2

LEMMA Rounded ==
    ASSUME NEW size \in Nat \ {0}, NEW p \in Nat, NEW n \in Nat, p >= (n + size - 1) \div size
    PROVE  n <= p * size
<1> DEFINE q == (n + size - 1) \div size
<1>1. q \in Int /\ size * q \in Int /\ n + size - 1 < size * q + size
    BY Division
<1> HIDE DEF q
<1>2. p - q \in Int /\ size * (p - q) = size * p - size * q /\ p * size = size * p /\ size * p \in Int
    BY <1>1, Distributes, Multiple
<1>3. p >= q
    BY DEF q
<1>4. size * (p - q) >= 0
    <2>1. CASE p - q = 0
        BY <2>1, Multiple
    <2>2. CASE p - q >= 1
        BY <1>2, <2>2, Multiple
    <2> QED  BY <1>1, <1>2, <1>3, <2>1, <2>2
<1>5. n + size - 1 < p * size + size
    BY <1>1, <1>2, <1>4
<1> QED  BY <1>2, <1>5

LEMMA ReaderTurns ==
    ASSUME Feed!FeedAssumption, FeedInv,
           (\E kind \in ForFeeds.kinds \cup {None} : Feed!Begin(kind)) \/ Feed!CountRows \/ Feed!Turn \/ Feed!Leave
    PROVE  FeedInv'
<1>1. s1' = s1
    BY DEF Feed!Begin, Feed!CountRows, Feed!Turn, Feed!Leave
<1>2. Stored(s1) /\ s2 \in FeedReaders /\ ForFeeds.pageSize \in Nat \ {0}
    BY FeedNumbers DEF FeedInv
<1>3. /\ Stored(s1)' /\ (Cardinality(s1) <= ForFeeds.most)'
      /\ (\A r \in s1 : r.id <= Cardinality(Tied(s1, r.time, r.kind)))'
      /\ \A kind : Feed!Matching(kind)' = Feed!Matching(kind)
    BY <1>1 DEF FeedInv, Feed!Matching, Stored, Tied
<1>4. ASSUME NEW kind \in ForFeeds.kinds \cup {None}, Feed!Begin(kind)
      PROVE  FeedInv'
    <2>1. s2' = [Feed!NoReader EXCEPT !.at = "count", !.kind = kind, !.page = 1, !.there = Feed!Matching(kind)]
        BY <1>4 DEF Feed!Begin
    <2>2. /\ s2'.at = "count" /\ s2'.kind = kind /\ s2'.page = 1 /\ s2'.total = 0 /\ s2'.shown = {}
          /\ s2'.there = Feed!Matching(kind) /\ s2'.slipped = 0 /\ s2'.cut = {}
          /\ s2' = [at |-> "count", kind |-> kind, page |-> 1, total |-> 0, shown |-> {},
                    there |-> Feed!Matching(kind), slipped |-> 0, cut |-> {}]
        BY <2>1 DEF Feed!NoReader
    <2>3. s2' \in FeedReaders'
        <3>1. Feed!Matching(kind) \subseteq s1
            BY <1>2, MatchingFacts
        <3> QED  BY <1>1, <2>2, <3>1 DEF FeedReaders
    <2>4. Beyond(s2.page - 1)'
        <3>1. Cardinality({}) = 0
            BY FS_EmptySet
        <3>2. \A r : Cardinality(Ahead(r, Feed!Matching(kind))) \in Nat
            BY <1>2, MatchingFacts, AheadGrows
        <3>3. (1 - 1) * ForFeeds.pageSize = 0
            BY <1>2
        <3>4. Feed!Matching(s2.kind)' = Feed!Matching(kind)
            BY <1>1, <2>2 DEF Feed!Matching
        <3>5. \A r : 0 <= Cardinality(Ahead(r, Feed!Matching(s2.kind)))'
            BY <3>2, <3>4 DEF Ahead, Feed!Newer
        <3> QED  BY <2>2, <3>1, <3>3, <3>5 DEF Beyond
    <2> QED  BY <1>1, <1>3, <2>2, <2>3, <2>4 DEF FeedInv
<1>5. CASE Feed!CountRows
    <2>1. s2' = [s2 EXCEPT !.at = "rows", !.total = Cardinality(Feed!Matching(s2.kind)), !.slipped = 0] /\ s2.at = "count"
        BY <1>5, Counts DEF Feed!CountRows
    <2> DEFINE total == Cardinality(Feed!Matching(s2.kind))
    <2>2. total \in Nat
        BY <1>2, MatchingFacts, FS_CardinalityType DEF Stored
    <2> HIDE DEF total
    <2>3. s2' = [s2 EXCEPT !.at = "rows", !.total = total, !.slipped = 0]
        BY <2>1 DEF total
    <2>4. /\ s2'.at = "rows" /\ s2'.kind = s2.kind /\ s2'.page = s2.page /\ s2'.total = total
          /\ s2'.shown = s2.shown /\ s2'.there = s2.there /\ s2'.slipped = 0 /\ s2'.cut = s2.cut
          /\ s2' \in FeedReaders
        BY <1>2, <2>2, <2>3 DEF FeedReaders
    <2>5. s2' \in FeedReaders'
        BY <1>1, <2>4 DEF FeedReaders
    <2>6. s2'.page >= 1 /\ Beyond(s2.page - 1)'
        <3>1. s2.page >= 1 /\ Beyond(s2.page - 1)
            BY <2>1 DEF FeedInv
        <3>2. Feed!Matching(s2.kind)' = Feed!Matching(s2.kind)
            BY <1>1, <2>4 DEF Feed!Matching
        <3> QED  BY <2>4, <3>1, <3>2 DEF Beyond, Ahead, Feed!Newer
    <2>7. Cardinality(Feed!Matching(s2.kind)') = s2'.total + s2'.slipped
        BY <1>3, <2>2, <2>4 DEF total
    <2> QED  BY <1>1, <1>3, <2>4, <2>5, <2>6, <2>7 DEF FeedInv
<1>6. CASE Feed!Turn
    <2>1. s2' = [s2 EXCEPT !.at = "count", !.page = @ + 1] /\ s2.at = "page" /\ s2.page \in Nat
        BY <1>2, <1>6 DEF Feed!Turn, FeedReaders
    <2> DEFINE next == s2.page + 1
    <2>5. next \in Nat /\ s2' = [s2 EXCEPT !.at = "count", !.page = next]
        BY <1>2, <2>1 DEF FeedReaders
    <2> HIDE DEF next
    <2>6. /\ s2'.at = "count" /\ s2'.kind = s2.kind /\ s2'.page = next
          /\ s2'.shown = s2.shown /\ s2'.there = s2.there /\ s2'.cut = s2.cut
          /\ s2' \in FeedReaders
        BY <1>2, <2>5 DEF FeedReaders
    <2>2. /\ s2'.at = "count" /\ s2'.kind = s2.kind /\ s2'.page = s2.page + 1
          /\ s2'.shown = s2.shown /\ s2'.there = s2.there /\ s2'.cut = s2.cut
          /\ s2' \in FeedReaders
        BY <2>6 DEF next
    <2>3. s2' \in FeedReaders'
        BY <1>1, <2>2 DEF FeedReaders
    <2>4. s2'.page >= 1 /\ Beyond(s2.page - 1)'
        <3>1. Beyond(s2.page)
            BY <2>1 DEF FeedInv
        <3>2. s2'.page - 1 = s2.page /\ s2'.page >= 1
            BY <2>1, <2>2
        <3>3. Feed!Matching(s2.kind)' = Feed!Matching(s2.kind)
            BY <1>1, <2>2 DEF Feed!Matching
        <3> QED  BY <2>2, <3>1, <3>2, <3>3 DEF Beyond, Ahead, Feed!Newer
    <2> QED  BY <1>1, <1>3, <2>2, <2>3, <2>4 DEF FeedInv
<1>7. CASE Feed!Leave
    <2>1. s2' = Feed!NoReader
        BY <1>7 DEF Feed!Leave
    <2>2. s2' \in FeedReaders' /\ s2'.at = "away" /\ s2'.shown = {} /\ s2'.there = {}
        BY <2>1 DEF Feed!NoReader, FeedReaders
    <2> QED  BY <1>1, <1>3, <2>2 DEF FeedInv
<1> QED  BY <1>4, <1>5, <1>6, <1>7

LEMMA PageIsRead ==
    ASSUME Feed!FeedAssumption, FeedInv, Feed!ReadRows
    PROVE  FeedInv'
<1> DEFINE M == Feed!Matching(s2.kind)
           C == Feed!CutBy(M, s2.page)
           size == ForFeeds.pageSize
           from == (s2.page - 1) * size
           upto == s2.page * size
<1>1. PICK place \in Feed!Orders(M) :
          s2' = [s2 EXCEPT !.at = "page", !.shown = @ \cup Feed!PageOf(place, s2.page), !.cut = @ \cup C]
    BY DEF Feed!ReadRows
<1> DEFINE P == Feed!PageOf(place, s2.page)
           left == {r \in s2.there \ (s2.shown \cup P) : r.time \notin s2.cut \cup C}
<1>2. s2.at = "rows" /\ s1' = s1 /\ Stored(s1) /\ s2 \in FeedReaders /\ size \in Nat \ {0} /\ s2.page \in Nat
      /\ s2.page >= 1 /\ s2.total \in Nat /\ s2.slipped \in Nat
    BY FeedNumbers DEF FeedInv, FeedReaders, Feed!ReadRows
<1>3. from \in Int /\ upto \in Nat /\ upto = from + size
    BY <1>2, PagesFollow
<1>4. M \subseteq s1 /\ Stored(M) /\ IsFiniteSet(M) /\ Cardinality(M) \in Nat /\ Cardinality(M) = s2.total + s2.slipped
    BY <1>2, MatchingFacts, FS_CardinalityType DEF FeedInv, Stored
<1>5. \A r \in M : /\ place[r] \in Nat /\ place[r] <= Cardinality(M) - 1
                   /\ Cardinality(Ahead(r, M)) \in Nat /\ Cardinality(Ahead(r, M)) <= place[r]
                   /\ Cardinality(NotBehind(r, M)) \in Nat /\ place[r] < Cardinality(NotBehind(r, M))
    <2> SUFFICES ASSUME NEW r \in M
                 PROVE  /\ place[r] \in Nat /\ place[r] <= Cardinality(M) - 1
                        /\ Cardinality(Ahead(r, M)) \in Nat /\ Cardinality(Ahead(r, M)) <= place[r]
                        /\ Cardinality(NotBehind(r, M)) \in Nat /\ place[r] < Cardinality(NotBehind(r, M))
        OBVIOUS
    <2> HIDE DEF M
    <2>1. Cardinality(Ahead(r, M)) \in Nat
        BY <1>4, AheadGrows
    <2> QED  BY <1>4, <2>1, PlaceOfRow
<1>6. P = {r \in M : from <= place[r] /\ place[r] < upto}
    <2>1. DOMAIN place = M
        BY DEF Feed!Orders
    <2> QED  BY <2>1, Zenon DEF Feed!PageOf
<1>7. C \subseteq ForFeeds.times /\ \A r \in M : Cardinality(Ahead(r, M)) < upto /\ upto < Cardinality(NotBehind(r, M)) => r.time \in C
    <2>1. C = {r.time : r \in {s \in M : Cardinality(Ahead(s, M)) < upto /\ upto < Cardinality(NotBehind(s, M))}}
        BY Counts DEF Feed!CutBy, Ahead, NotBehind
    <2>2. \A r \in M : r.time \in ForFeeds.times
        BY <1>4 DEF Stored, FeedRows
    <2> HIDE DEF C, M, upto
    <2> QED  BY <2>1, <2>2
<1>8. s2.shown \subseteq M /\ s2.there \subseteq M
    BY DEF FeedInv
<1>9. /\ Cardinality(s2.shown) <= from
      /\ \A r \in s2.there \ s2.shown : r.time \in s2.cut \/ from <= Cardinality(Ahead(r, M))
    BY <1>2 DEF FeedInv, Beyond
<1> HIDE DEF M, C, P, size, from, upto
<1>10. P \in SUBSET M /\ \A r \in P : from <= place[r] /\ place[r] <= upto - 1
    BY <1>3, <1>5, <1>6
<1>11. IsFiniteSet(P) /\ Cardinality(P) \in Nat /\ Cardinality(P) <= size
    <2>1. Cardinality(P) <= IF from > upto - 1 THEN 0 ELSE upto - 1 - from + 1
        BY <1>3, <1>4, <1>10, AtPlaces
    <2>2. IsFiniteSet(P)
        BY <1>4, <1>10, FS_Subset
    <2> QED  BY <1>2, <1>3, <2>1, <2>2, FS_CardinalityType
<1>12. Cardinality(s2.shown \cup P) <= upto
    <2>1. IsFiniteSet(s2.shown)
        BY <1>4, <1>8, FS_Subset
    <2>2. Cardinality(s2.shown) \in Nat /\ Cardinality(s2.shown \cap P) \in Nat
        BY <2>1, FS_CardinalityType, FS_Intersection
    <2>3. Cardinality(s2.shown \cup P) = Cardinality(s2.shown) + Cardinality(P) - Cardinality(s2.shown \cap P)
        BY <1>11, <2>1, FS_Union
    <2> QED  BY <1>2, <1>3, <1>9, <1>11, <2>2, <2>3
<1>13. left \in SUBSET M /\ \A r \in left : upto <= Cardinality(Ahead(r, M))
    <2>1. left \in SUBSET M
        BY <1>8
    <2>2. ASSUME NEW r \in left
          PROVE  upto <= Cardinality(Ahead(r, M))
        <3>1. r \in M /\ r \notin P /\ from <= Cardinality(Ahead(r, M)) /\ r.time \notin C
            BY <1>8, <1>9
        <3>2. upto <= place[r]
            BY <1>3, <1>5, <1>6, <3>1
        <3> QED  BY <1>3, <1>5, <1>7, <3>1, <3>2
    <2> QED  BY <2>1, <2>2
<1>14. s2.page >= Feed!TotalPages(s2.total) => Cardinality(left) <= s2.slipped
    <2>1. SUFFICES ASSUME s2.page >= Feed!TotalPages(s2.total)
                   PROVE  Cardinality(left) <= s2.slipped
        OBVIOUS
    <2>2. s2.total <= upto
        BY <1>2, <2>1, Rounded DEF Feed!TotalPages, upto, size
    <2>3. Cardinality(left) <= IF upto > Cardinality(M) - 1 THEN 0 ELSE Cardinality(M) - 1 - upto + 1
        <3>1. Cardinality(M) - 1 \in Int /\ upto \in Int
            BY <1>3, <1>4
        <3>2. \A r \in left : upto <= place[r] /\ place[r] <= Cardinality(M) - 1
            <4> SUFFICES ASSUME NEW r \in left
                         PROVE  upto <= place[r] /\ place[r] <= Cardinality(M) - 1
                OBVIOUS
            <4>1. r \in M /\ upto <= Cardinality(Ahead(r, M))
                BY <1>13
            <4> HIDE DEF left
            <4> QED  BY <1>3, <1>4, <1>5, <4>1
        <3> QED  BY <1>4, <1>13, <3>1, <3>2, AtPlaces
    <2>4. Cardinality(left) \in Nat
        BY <1>4, <1>13, FS_Subset, FS_CardinalityType
    <2> HIDE DEF left
    <2> QED  BY <1>2, <1>3, <1>4, <2>2, <2>3, <2>4
<1>15. /\ s2'.at = "page" /\ s2'.kind = s2.kind /\ s2'.page = s2.page /\ s2'.total = s2.total
       /\ s2'.shown = s2.shown \cup P /\ s2'.there = s2.there /\ s2'.slipped = s2.slipped
       /\ s2'.cut = s2.cut \cup C /\ s2' \in FeedReaders
    <2> DEFINE seen == s2.shown \cup P
               ends == s2.cut \cup C
    <2>1. seen \in SUBSET s1
        BY <1>4, <1>8, <1>10
    <2>2. s2' = [s2 EXCEPT !.at = "page", !.shown = seen, !.cut = ends]
        BY <1>1 DEF P
    <2>3. ends \in SUBSET ForFeeds.times
        BY <1>2, <1>7 DEF FeedReaders
    <2> HIDE DEF seen, ends
    <2>4. /\ s2'.at = "page" /\ s2'.kind = s2.kind /\ s2'.page = s2.page /\ s2'.total = s2.total
          /\ s2'.shown = seen /\ s2'.there = s2.there /\ s2'.slipped = s2.slipped /\ s2'.cut = ends
          /\ s2' \in FeedReaders
        BY <1>2, <2>1, <2>2, <2>3 DEF FeedReaders
    <2> QED  BY <2>4 DEF seen, ends
<1>16. s2' \in FeedReaders'
    BY <1>2, <1>15 DEF FeedReaders
<1>17. Feed!Matching(s2.kind)' = M
    BY <1>2, <1>15 DEF Feed!Matching, M
<1>18. Beyond(s2.page)'
    <2>1. s2'.page * ForFeeds.pageSize = upto
        BY <1>15 DEF upto, size
    <2>2. \A r \in s2'.there \ s2'.shown : r.time \in s2'.cut \/ r \in left
        BY <1>15
    <2> HIDE DEF left
    <2>3. \A r \in s2'.there \ s2'.shown : r.time \in s2'.cut \/ upto <= Cardinality(Ahead(r, M))
        BY <1>13, <2>2
    <2>4. \A r : Ahead(r, M) = Ahead(r, Feed!Matching(s2.kind))'
        BY <1>17 DEF Ahead, Feed!Newer
    <2> QED  BY <1>12, <1>15, <2>1, <2>3, <2>4 DEF Beyond
<1>19. LastPageInv'
    <2>1. {r \in s2'.there \ s2'.shown : r.time \notin s2'.cut} = left
        BY <1>15
    <2> HIDE DEF left
    <2> QED  BY <1>14, <1>15, <2>1 DEF LastPageInv, Feed!TotalPages
<1>20. /\ Stored(s1)' /\ (Cardinality(s1) <= ForFeeds.most)'
       /\ (\A r \in s1 : r.id <= Cardinality(Tied(s1, r.time, r.kind)))'
    BY <1>2 DEF FeedInv, Stored, Tied
<1>21. s2'.shown \subseteq Feed!Matching(s2.kind)' /\ s2'.there \subseteq Feed!Matching(s2.kind)'
    BY <1>8, <1>10, <1>15, <1>17
<1> QED  BY <1>2, <1>15, <1>16, <1>18, <1>19, <1>20, <1>21 DEF FeedInv

LEMMA FeedMoves ==
    ASSUME Feed!FeedAssumption, FeedInv, Feed!FeedNext
    PROVE  FeedInv'
  BY RowArrives, ReaderTurns, PageIsRead DEF Feed!FeedNext

LEMMA FeedRests ==
    ASSUME FeedInv, UNCHANGED <<s1, s2>>
    PROVE  FeedInv'
  BY DEF FeedInv, Stored, Tied, Ahead, FeedReaders, Beyond, LastPageInv, Feed!Matching, Feed!Newer, Feed!TotalPages

LEMMA FeedAsPromised ==
    ASSUME Feed!FeedAssumption, FeedInv
    PROVE  Feed!FeedTypeOK /\ Feed!EveryRowIsSeen
<1>1. s2 \in FeedReaders /\ Stored(s1)
    BY DEF FeedInv
<1>2. s2.at = "page" => Cardinality(s2.shown) <= s2.page * ForFeeds.pageSize
    BY DEF FeedInv, Beyond
<1>3. Feed!FeedTypeOK
    BY <1>1, <1>2, Counts DEF FeedInv, Feed!FeedTypeOK, FeedReaders, Stored
<1>4. Feed!EveryRowIsSeen
    BY Counts DEF FeedInv, Feed!EveryRowIsSeen, LastPageInv
<1> QED  BY <1>3, <1>4

-----------------------------------------------------------------------------
(* What lists, counts and details show.                                    *)
LEMMA ViewsBegin ==
    ASSUME View!ViewsAssumption, View!ViewsInit
    PROVE  View!ViewsTypeOK
  BY DEF View!ViewsAssumption, View!ViewsInit, View!ViewsTypeOK

LEMMA ViewsMove ==
    ASSUME View!ViewsAssumption, View!ViewsTypeOK, View!ViewsNext
    PROVE  View!ViewsTypeOK'
<1> USE DEF View!ViewsTypeOK
<1>1. ASSUME NEW v \in ForViews.vehicles, NEW on \in BOOLEAN, View!SetActive(v, on)
      PROVE  View!ViewsTypeOK'
    BY <1>1 DEF View!SetActive
<1>2. ASSUME NEW v \in ForViews.vehicles, NEW o \in ForViews.orgs, View!Move(v, o)
      PROVE  View!ViewsTypeOK'
    BY <1>2 DEF View!Move
<1>3. ASSUME NEW v \in ForViews.vehicles, NEW G \in SUBSET ForViews.groups, View!AssignVehicle(v, G)
      PROVE  View!ViewsTypeOK'
    BY <1>3 DEF View!AssignVehicle
<1>4. ASSUME NEW v \in ForViews.vehicles, View!DeleteDevice(v)
      PROVE  View!ViewsTypeOK'
    BY <1>4 DEF View!DeleteDevice
<1>5. ASSUME NEW G \in SUBSET ForViews.groups, View!AssignUser(G)
      PROVE  View!ViewsTypeOK'
    BY <1>5 DEF View!AssignUser
<1> QED  BY <1>1, <1>2, <1>3, <1>4, <1>5 DEF View!ViewsNext

LEMMA ViewsRest ==
    ASSUME View!ViewsTypeOK, UNCHANGED <<s1, s2, s3, s4, s5, s6>>
    PROVE  View!ViewsTypeOK'
  BY DEF View!ViewsTypeOK

LEMMA ListsAreDetails ==
    ASSUME View!ViewsAssumption, View!ViewsTypeOK
    PROVE  View!ListsMatchDetails
  BY DEF View!ViewsAssumption, View!ViewsTypeOK, View!ListsMatchDetails, View!Staff, View!Superadmin, View!Dealer,
         View!Listed, View!Opens, View!OrgsListed, View!OpensOrg, View!Overdue, View!Reach, View!Tree

LEMMA DevicesAreFollowed ==
    ASSUME View!ViewsAssumption, View!ViewsTypeOK
    PROVE  View!DevicesFollowVehicles
  BY DEF View!ViewsAssumption, View!ViewsTypeOK, View!DevicesFollowVehicles, View!Dealer,
         View!Listed, View!DevicesListed, View!Reach, View!Tree

LEMMA ViewCounts == \A S : View!Cardinality(S) = Cardinality(S) /\ View!IsFiniteSet(S) = IsFiniteSet(S)
  BY Zenon DEF View!Cardinality, Cardinality, View!IsFiniteSet, IsFiniteSet

LEMMA CustomerOpens ==
    ASSUME View!ViewsAssumption, View!ViewsTypeOK
    PROVE  View!CustomerSeesWhatHeOpens
<1> DEFINE kept == \A g \in s5 : s3[g] \in View!Tree(ForViews.userOrg) /\ \A v \in View!OfGroup(g) : s1[v] \in View!Tree(ForViews.userOrg)
<1>1. View!Reach(View!Customer) = View!Tree(ForViews.userOrg)
    BY DEF View!Reach, View!Customer
<1>2. View!Listed(View!Customer) = {v \in s2 : \E g \in s5 : v \in View!OfGroup(g)}
    BY DEF View!Listed, View!Customer
<1>3. ASSUME NEW v \in ForViews.vehicles
      PROVE  View!UserRows(v) > 0 <=> v \in s2 /\ \E g \in s5 : v \in View!OfGroup(g)
    <2> DEFINE his == {g \in s5 : v \in View!OfGroup(g)}
    <2>1. View!UserRows(v) = IF v \in s2 THEN Cardinality(his) ELSE 0
        BY ViewCounts DEF View!UserRows
    <2>2. IsFiniteSet(his)
        <3>1. IsFiniteSet(ForViews.groups) /\ his \in SUBSET ForViews.groups
            BY ViewCounts DEF View!ViewsAssumption, View!ViewsTypeOK
        <3> QED  BY <3>1, FS_Subset
    <2> HIDE DEF his
    <2>3. Cardinality(his) \in Nat /\ (Cardinality(his) = 0 <=> his = {})
        BY <2>2, FS_CardinalityType, FS_EmptySet
    <2>4. his # {} <=> \E g \in s5 : v \in View!OfGroup(g)
        BY DEF his
    <2> QED  BY <2>1, <2>3, <2>4
<1>4. {v \in ForViews.vehicles : View!UserRows(v) > 0} = View!Listed(View!Customer)
    BY <1>2, <1>3 DEF View!ViewsTypeOK
<1>5. View!GroupsListed(View!Customer) = s5
    BY DEF View!GroupsListed, View!Customer
<1>6. View!Listed(View!Customer) = UNION {View!ListedIn(View!Customer, g) : g \in View!GroupsListed(View!Customer)}
    BY <1>2, <1>5 DEF View!ListedIn
<1>7. kept => /\ \A v \in View!Listed(View!Customer) : View!Opens(View!Customer, v)
              /\ \A g \in View!GroupsListed(View!Customer) : View!MayFilter(View!Customer, g)
    BY <1>1, <1>2, <1>5 DEF View!Opens, View!MayFilter
<1> QED  BY <1>4, <1>6, <1>7 DEF View!CustomerSeesWhatHeOpens

LEMMA ListsAreOfOrgs ==
    ASSUME NEW a \in View!Staff
    PROVE  /\ View!Listed(a) = {v \in s2 : s1[v] \in View!Reach(a)}
           /\ View!GroupsListed(a) = {g \in ForViews.groups : s3[g] \in View!Reach(a)}
           /\ View!OrgsListed(a) = View!Reach(a)
  BY DEF View!Staff, View!Superadmin, View!Dealer, View!Listed, View!GroupsListed, View!OrgsListed

LEMMA ReachIsOrgs ==
    ASSUME View!ViewsAssumption, NEW a \in View!Staff
    PROVE  View!Reach(a) \subseteq ForViews.orgs
  BY DEF View!Staff, View!Superadmin, View!Dealer, View!Reach, View!Tree

(* The vehicles of some organisations.                                     *)
OfOrgs(T) == {v \in s2 : s1[v] \in T}

LEMMA OfOrgsFacts ==
    ASSUME View!ViewsAssumption, View!ViewsTypeOK, NEW T
    PROVE  IsFiniteSet(OfOrgs(T)) /\ Cardinality(OfOrgs(T)) \in Nat
<1>1. IsFiniteSet(ForViews.vehicles) /\ OfOrgs(T) \in SUBSET ForViews.vehicles
    BY ViewCounts DEF View!ViewsAssumption, View!ViewsTypeOK, OfOrgs
<1> QED  BY <1>1, FS_Subset, FS_CardinalityType

(* One organisation more has its own vehicles more.                        *)
LEMMA OneOrgMore ==
    ASSUME View!ViewsAssumption, View!ViewsTypeOK, NEW T, NEW o \in T
    PROVE  Cardinality(OfOrgs(T)) = View!OrgSize(o) + Cardinality(OfOrgs(T \ {o}))
<1> DEFINE own == {v \in s2 : s1[v] = o}
           rest == OfOrgs(T \ {o})
<1>1. own = OfOrgs({o}) /\ View!OrgSize(o) = Cardinality(own)
    BY ViewCounts DEF View!OrgSize, OfOrgs
<1>2. OfOrgs(T) = own \cup rest /\ own \cap rest = {}
    BY DEF OfOrgs
<1>3. IsFiniteSet(own) /\ IsFiniteSet(rest) /\ Cardinality(own) \in Nat /\ Cardinality(rest) \in Nat
    BY <1>1, OfOrgsFacts
<1> HIDE DEF own, rest
<1>4. Cardinality(own \cup rest) = Cardinality(own) + Cardinality(rest) - Cardinality(own \cap rest)
    BY <1>3, FS_Union
<1>5. Cardinality(own \cap rest) = 0
    BY <1>2, FS_EmptySet
<1>6. Cardinality(own \cup rest) = Cardinality(own) + Cardinality(rest)
    BY <1>3, <1>4, <1>5
<1> QED  BY <1>1, <1>2, <1>6 DEF rest

(* The sizes of organisations add up to the number of their vehicles: the  *)
(* sum takes one organisation after the other.                             *)
LEMMA SizesAddUp ==
    ASSUME View!ViewsAssumption, View!ViewsTypeOK, NEW S, IsFiniteSet(S)
    PROVE  View!MapThenSumSet(View!OrgSize, S) = Cardinality(OfOrgs(S))
<1> DEFINE pick(T) == CHOOSE x \in T : TRUE
           Sums(f) == f = [T \in SUBSET S |->
                            IF T = {} THEN 0 ELSE View!OrgSize(pick(T)) + f[T \ {pick(T)}]]
           sum == CHOOSE f : Sums(f)
           sizes == [T \in SUBSET S |-> Cardinality(OfOrgs(T))]
<1>1. View!MapThenSumSet(View!OrgSize, S) = sum[S]
    BY Zenon DEF View!MapThenSumSet, View!MapThenFoldSet
<1>2. \A T \in SUBSET S : T # {} => pick(T) \in T /\ T \ {pick(T)} \in SUBSET S
    OBVIOUS
<1>3. Cardinality(OfOrgs({})) = 0
    <2>1. OfOrgs({}) = {}
        BY DEF OfOrgs
    <2> QED  BY <2>1, FS_EmptySet
<1> HIDE DEF pick
<1>4. \A T \in SUBSET S : T # {} =>
          Cardinality(OfOrgs(T)) = View!OrgSize(pick(T)) + Cardinality(OfOrgs(T \ {pick(T)}))
    BY <1>2, OneOrgMore
<1>5. Sums(sizes)
    <2>1. \A T \in SUBSET S :
              sizes[T] = IF T = {} THEN 0 ELSE View!OrgSize(pick(T)) + sizes[T \ {pick(T)}]
        BY <1>2, <1>3, <1>4
    <2> QED  BY <2>1
<1>6. Sums(sum)
    <2> HIDE DEF Sums, sizes
    <2> QED  BY <1>5
<1> HIDE DEF sum
<1>7. \A T \in SUBSET S : sum[T] = IF T = {} THEN 0 ELSE View!OrgSize(pick(T)) + sum[T \ {pick(T)}]
    BY <1>6
<1> HIDE DEF sizes, Sums
<1> DEFINE done == {n \in Nat : \A T \in SUBSET S : Cardinality(T) = n => sum[T] = Cardinality(OfOrgs(T))}
<1>8. 0 \in done
    <2>1. \A T \in SUBSET S : Cardinality(T) = 0 => T = {}
        BY FS_Subset, FS_EmptySet
    <2> QED  BY <1>3, <1>7, <2>1
<1>9. ASSUME NEW n \in Nat, n \in done
      PROVE  n + 1 \in done
    <2> SUFFICES ASSUME NEW T \in SUBSET S, Cardinality(T) = n + 1
                 PROVE  sum[T] = Cardinality(OfOrgs(T))
        OBVIOUS
    <2>1. T # {}
        BY FS_EmptySet
    <2>2. IsFiniteSet(T) /\ pick(T) \in T
        BY <1>2, <2>1, FS_Subset
    <2>3. Cardinality(T \ {pick(T)}) = n
        <3>1. Cardinality(T \ {pick(T)}) = Cardinality(T) - 1
            BY <2>2, FS_RemoveElement
        <3> QED  BY <3>1
    <2>4. sum[T \ {pick(T)}] = Cardinality(OfOrgs(T \ {pick(T)}))
        BY <1>2, <1>9, <2>1, <2>3
    <2> QED  BY <1>4, <1>7, <2>1, <2>4
<1> HIDE DEF done
<1>10. Cardinality(S) \in done
    BY <1>8, <1>9, Induction, FS_CardinalityType
<1> QED  BY <1>1, <1>10 DEF done

LEMMA TotalIsList ==
    ASSUME View!ViewsAssumption, View!ViewsTypeOK, NEW a \in View!Staff
    PROVE  View!Total(a) = Cardinality(View!Listed(a))
<1> DEFINE pairs == {p \in View!Reach(a) \X s2 : s1[p[2]] = p[1]}
           list == View!Listed(a)
           pair == [v \in list |-> <<s1[v], v>>]
<1>1. View!Total(a) = Cardinality(pairs)
    BY ViewCounts DEF View!Total
<1>2. list = OfOrgs(View!Reach(a))
    BY ListsAreOfOrgs DEF OfOrgs
<1>3. \A v \in list : v \in s2 /\ s1[v] \in View!Reach(a)
    BY <1>2 DEF OfOrgs
<1>4. pair \in [list -> pairs]
    BY <1>3
<1>5. \A p \in pairs : p[2] \in list /\ pair[p[2]] = p
    BY <1>2 DEF OfOrgs
<1>6. \A v, w \in list : pair[v] = pair[w] => v = w
    OBVIOUS
<1>7. IsFiniteSet(list)
    BY <1>2, OfOrgsFacts
<1> HIDE DEF pair, pairs, list
<1>8. pair \in Surjection(list, pairs)
    BY <1>4, <1>5 DEF Surjection
<1>9. pair \in Injection(list, pairs)
    BY <1>4, <1>6 DEF Injection, IsInjective
<1>10. Cardinality(pairs) = Cardinality(list)
    BY <1>7, <1>8, <1>9, FS_Surjection
<1> QED  BY <1>1, <1>10 DEF list

LEMMA GroupsAreCounted ==
    ASSUME View!ViewsAssumption, View!ViewsTypeOK, NEW a \in View!Staff, NEW g
    PROVE  View!GroupSize(g) = Cardinality(View!ListedIn(a, g))
                                + Cardinality({v \in View!OfGroup(g) : v \notin s2 \/ ~View!Opens(a, v)})
<1> DEFINE all == View!OfGroup(g)
           there == View!ListedIn(a, g)
           others == {v \in View!OfGroup(g) : v \notin s2 \/ ~View!Opens(a, v)}
<1>1. there = {v \in all : v \in s2 /\ View!Opens(a, v)}
    BY ListsAreOfOrgs DEF View!ListedIn, View!Opens
<1>2. all = there \cup others /\ there \cap others = {}
    BY <1>1
<1>3. IsFiniteSet(all)
    <2>1. all \in SUBSET ForViews.vehicles /\ IsFiniteSet(ForViews.vehicles)
        BY ViewCounts DEF View!OfGroup, View!ViewsAssumption
    <2> QED  BY <2>1, FS_Subset
<1>4. there \in SUBSET all /\ others \in SUBSET all
    BY <1>2
<1>5. View!GroupSize(g) = Cardinality(all)
    BY ViewCounts DEF View!GroupSize
<1> HIDE DEF all, there, others
<1>6. IsFiniteSet(there) /\ IsFiniteSet(others)
    BY <1>3, <1>4, FS_Subset
<1>7. Cardinality(there) \in Nat /\ Cardinality(others) \in Nat
    BY <1>6, FS_CardinalityType
<1>8. Cardinality(there \cup others) = Cardinality(there) + Cardinality(others) - Cardinality(there \cap others)
    BY <1>6, FS_Union
<1>9. Cardinality(there \cap others) = 0
    BY <1>2, FS_EmptySet
<1>10. Cardinality(all) = Cardinality(there) + Cardinality(others)
    <2>1. Cardinality(there \cup others) = Cardinality(there) + Cardinality(others)
        BY <1>7, <1>8, <1>9
    <2> QED  BY <1>2, <2>1
<1> QED  BY <1>5, <1>10 DEF there, others

LEMMA CountsAreLists ==
    ASSUME View!ViewsAssumption, View!ViewsTypeOK
    PROVE  View!CountsMatchLists
<1> SUFFICES ASSUME NEW a \in View!Staff
             PROVE  /\ View!Total(a) = Cardinality(View!Listed(a))
                    /\ View!Total(a) = View!MapThenSumSet(View!OrgSize, View!OrgsListed(a))
                    /\ \A g \in View!GroupsListed(a) :
                        /\ View!MayFilter(a, g)
                        /\ View!GroupSize(g) = Cardinality(View!ListedIn(a, g))
                                + Cardinality({v \in View!OfGroup(g) : v \notin s2 \/ ~View!Opens(a, v)})
    BY ViewCounts DEF View!CountsMatchLists
<1>1. View!Listed(a) = OfOrgs(View!Reach(a)) /\ View!OrgsListed(a) = View!Reach(a)
    BY ListsAreOfOrgs DEF OfOrgs
<1>2. IsFiniteSet(View!Reach(a))
    <2>1. IsFiniteSet(ForViews.orgs)
        BY ViewCounts DEF View!ViewsAssumption
    <2> QED  BY <2>1, ReachIsOrgs, FS_Subset
<1>3. View!MapThenSumSet(View!OrgSize, View!Reach(a)) = Cardinality(OfOrgs(View!Reach(a)))
    BY <1>2, SizesAddUp
<1>4. \A g \in View!GroupsListed(a) : View!MayFilter(a, g)
    BY ListsAreOfOrgs DEF View!MayFilter
<1> QED  BY <1>1, <1>3, <1>4, TotalIsList, GroupsAreCounted

LEMMA ViewsAsPromised ==
    ASSUME View!ViewsAssumption, View!ViewsTypeOK
    PROVE  View!ViewsHold
  BY ListsAreDetails, CustomerOpens, CountsAreLists, DevicesAreFollowed DEF View!ViewsHold

-----------------------------------------------------------------------------
(* The routes that are played back.                                        *)
PlayRows == [place : Int \cup {None}, at : Nat]
InOrder(all) == \A i, j \in 1..Len(all) : i <= j => all[i].at <= all[j].at

PlayTypes ==
    /\ s1 \in {"history", "route", "map"}
    /\ s2 \in Seq(ForPlayback.vehicles) /\ s3 \in BOOLEAN /\ s7 \in BOOLEAN
    /\ s6 \in Nat /\ s8 \in Nat \ {0}
    /\ s9 \in ForPlayback.vehicles \cup {None} /\ (s1 # "map" => s9 \in ForPlayback.vehicles)
    /\ s10 \in [auto : BOOLEAN, touched : BOOLEAN, owner : ForPlayback.vehicles \cup {None}, crossed : BOOLEAN]
    /\ s11 \in Nat /\ s11 <= ForPlayback.acts
ShownInv == (s4 = <<>> /\ s5 = <<>>) \/ (s4 \in ForPlayback.feeds /\ s5 = Play!Processed(s4))
PlayedInv ==
    s1 = "history" =>
        /\ s8 = Play!NeededPage(s5, s6)
        /\ ~s10.touched => /\ IF s5 = <<>> THEN s6 = 0 ELSE s6 < Len(s5)
                           /\ s2 # <<>> => s6 = 0 /\ ~s7
SelectedInv ==
    /\ s10.auto => s1 = "history"
    /\ s1 = "map" /\ ~s10.crossed => /\ \A n \in DOMAIN s2 : s2[n] = s9
                                     /\ s5 # <<>> => s10.owner = s9
PlayInv == PlayTypes /\ ShownInv /\ PlayedInv /\ SelectedInv

LEMMA PlayNumbers ==
    ASSUME Play!PlaybackAssumption
    PROVE  /\ ForPlayback.limit \in Nat \ {0} /\ ForPlayback.rowsPerPage \in Nat \ {0} /\ ForPlayback.acts \in Nat
           /\ ForPlayback.feeds \subseteq Seq([place : Int, at : Nat])
  BY DEF Play!PlaybackAssumption

LEMMA FeedsInOrder ==
    ASSUME Play!PlaybackAssumption, NEW all \in ForPlayback.feeds
    PROVE  InOrder(all)
<1>1. all \in Seq([place : Int, at : Nat]) /\ \A i \in 2..Len(all) : all[i - 1].at <= all[i].at
    BY DEF Play!PlaybackAssumption
<1>3. Len(all) \in Nat /\ \A j \in 1..Len(all) : j \in Nat /\ all[j].at \in Nat
    <2> DEFINE row == [place : Int, at : Nat]
    <2>1. all \in Seq(row)
        BY <1>1
    <2> HIDE DEF row
    <2>2. Len(all) \in Nat /\ \A j \in 1..Len(all) : j \in Nat /\ all[j] \in row
        BY <2>1
    <2> QED  BY <2>2 DEF row
<1>2. ASSUME NEW i \in 1..Len(all)
      PROVE  \A j \in 1..Len(all) : i <= j => all[i].at <= all[j].at
    <2> DEFINE S == {k \in Nat : i + k <= Len(all) => all[i].at <= all[i + k].at}
    <2>1. 0 \in S
        <3>1. i + 0 = i /\ all[i].at \in Nat
            BY <1>3
        <3> QED  BY <3>1
    <2>2. ASSUME NEW k \in Nat, k \in S
          PROVE  k + 1 \in S
        <3> SUFFICES ASSUME i + (k + 1) <= Len(all)
                     PROVE  all[i].at <= all[i + (k + 1)].at
            OBVIOUS
        <3>1. Len(all) \in Nat /\ i + (k + 1) \in 2..Len(all) /\ i + (k + 1) - 1 = i + k /\ i + k \in 1..Len(all)
            BY <1>1
        <3>2. all[i + k].at <= all[i + (k + 1)].at
            BY <1>1, <3>1
        <3>3. all[i].at <= all[i + k].at
            BY <2>2, <3>1
        <3>4. all[i].at \in Nat /\ all[i + k].at \in Nat /\ all[i + (k + 1)].at \in Nat
            BY <1>3, <3>1
        <3> QED  BY <3>2, <3>3, <3>4
    <2> HIDE DEF S
    <2>3. \A k \in Nat : k \in S
        BY <2>1, <2>2, Induction
    <2> SUFFICES ASSUME NEW j \in 1..Len(all), i <= j
                 PROVE  all[i].at <= all[j].at
        OBVIOUS
    <2>4. j - i \in Nat /\ i + (j - i) = j /\ i + (j - i) <= Len(all)
        BY <1>1
    <2> QED  BY <2>3, <2>4 DEF S
<1> QED  BY <1>2 DEF InOrder

(* What is left out: the rows without a place within India.                *)
LEMMA RowsAreKept ==
    ASSUME NEW A, NEW all \in Seq(A)
    PROVE  \E kept \in [0..Len(all) -> Seq(A)] :
              /\ kept[0] = <<>> /\ Play!GoodRows(all) = kept[Len(all)]
              /\ \A n \in 1..Len(all) :
                    kept[n] = IF Play!Good(all[n]) THEN Append(kept[n - 1], all[n]) ELSE kept[n - 1]
<1> DEFINE N == Len(all)
           step == [n \in 1..N |-> [k \in Seq(A) |-> IF Play!Good(all[n]) THEN Append(k, all[n]) ELSE k]]
           Keeps(k) == k = [n \in 0..N |->
                              IF n = 0 THEN <<>> ELSE IF Play!Good(all[n]) THEN Append(k[n - 1], all[n]) ELSE k[n - 1]]
           kept == CHOOSE k : Keeps(k)
<1>1. N \in Nat /\ <<>> \in Seq(A) /\ \A n \in 1..N : all[n] \in A
    OBVIOUS
<1>2. step \in [1..N -> [Seq(A) -> Seq(A)]]
    BY <1>1
<1>3. PICK f \in [0..N -> Seq(A)] : f[0] = <<>> /\ \A n \in 1..N : f[n] = step[n][f[n - 1]]
    <2> DEFINE B == Seq(A)
               base == <<>>
    <2>1. Steps(N, B, base, step) /\ N \in Nat
        BY <1>1, <1>2 DEF Steps
    <2> HIDE DEF step, N, B, base
    <2>2. \E f \in [0..N -> B] : Follows(N, base, step, f)
        BY <2>1, Recursion
    <2> QED  BY <2>2 DEF B, base, Follows
<1>4. \A n \in 1..N : f[n] = IF Play!Good(all[n]) THEN Append(f[n - 1], all[n]) ELSE f[n - 1]
    <2>1. \A n \in 1..N : f[n - 1] \in Seq(A)
        BY <1>1
    <2> QED  BY <1>3, <2>1
<1> HIDE DEF step
<1>5. Keeps(f)
    <2>1. \A n \in 0..N : f[n] = IF n = 0 THEN <<>>
                                 ELSE IF Play!Good(all[n]) THEN Append(f[n - 1], all[n]) ELSE f[n - 1]
        <3>1. \A n \in 0..N : n # 0 => n \in 1..N
            BY <1>1
        <3> QED  BY <1>3, <1>4, <3>1
    <2> QED  BY <2>1
<1>6. Keeps(kept)
    <2> HIDE DEF Keeps
    <2> QED  BY <1>5
<1>7. Play!GoodRows(all) = kept[N]
    BY DEF Play!GoodRows
<1> HIDE DEF kept
<1>8. /\ kept[0] = <<>>
      /\ \A n \in 1..N : kept[n] = IF Play!Good(all[n]) THEN Append(kept[n - 1], all[n]) ELSE kept[n - 1]
    <2>1. 0 \in 0..N /\ \A n \in 1..N : n \in 0..N /\ n # 0
        BY <1>1
    <2>2. \A n \in 0..N : kept[n] = IF n = 0 THEN <<>>
                                    ELSE IF Play!Good(all[n]) THEN Append(kept[n - 1], all[n]) ELSE kept[n - 1]
        BY <1>6
    <2> QED  BY <2>1, <2>2
<1>9. \A n \in 0..N : kept[n] = f[n]
    <2>1. \A n \in 1..N : kept[n - 1] = f[n - 1] => kept[n] = f[n]
        BY <1>4, <1>8
    <2>2. Agree(N, kept, f) /\ N \in Nat
        BY <1>1, <1>3, <1>8, <2>1 DEF Agree
    <2> HIDE DEF N, Keeps
    <2> QED  BY <2>2, Agreement
<1>10. kept = f
    BY <1>6, <1>9
<1> QED  BY <1>7, <1>8, <1>10

LEMMA KeptFacts ==
    ASSUME NEW A, NEW all \in Seq(A)
    PROVE  /\ Play!GoodRows(all) \in Seq(A) /\ Len(Play!GoodRows(all)) <= Len(all)
           /\ (\A i \in 1..Len(all) : Play!Good(all[i])) => Len(Play!GoodRows(all)) = Len(all)
           /\ (\A i \in 1..Len(all) : ~Play!Good(all[i])) => Play!GoodRows(all) = <<>>
<1> DEFINE N == Len(all)
           AllGood == \A i \in 1..N : Play!Good(all[i])
           NoneGood == \A i \in 1..N : ~Play!Good(all[i])
<1>1. PICK kept \in [0..N -> Seq(A)] :
          /\ kept[0] = <<>> /\ Play!GoodRows(all) = kept[N]
          /\ \A n \in 1..N : kept[n] = IF Play!Good(all[n]) THEN Append(kept[n - 1], all[n]) ELSE kept[n - 1]
    BY RowsAreKept
<1>2. N \in Nat /\ \A n \in 1..N : all[n] \in A
    OBVIOUS
<1> HIDE DEF N
<1> DEFINE Fits(n) == Len(kept[n]) <= n /\ (AllGood => Len(kept[n]) = n) /\ (NoneGood => kept[n] = <<>>)
           S == {n \in Nat : n <= N => Fits(n)}
<1>3. 0 \in S
    BY <1>1
<1>4. ASSUME NEW n \in Nat, n \in S
      PROVE  n + 1 \in S
    <2> SUFFICES ASSUME n + 1 <= N
                 PROVE  Fits(n + 1)
        OBVIOUS
    <2>1. n + 1 \in 1..N /\ n + 1 - 1 = n /\ n \in 0..N /\ n <= N
        BY <1>2
    <2>2. kept[n + 1] = IF Play!Good(all[n + 1]) THEN Append(kept[n], all[n + 1]) ELSE kept[n]
        BY <1>1, <2>1
    <2>3. kept[n] \in Seq(A) /\ all[n + 1] \in A
        BY <1>2, <2>1
    <2>4. Fits(n)
        BY <1>4, <2>1
    <2>5. CASE Play!Good(all[n + 1])
        <3>1. Len(kept[n + 1]) = Len(kept[n]) + 1 /\ Len(kept[n]) \in Nat
            BY <2>2, <2>3, <2>5
        <3>2. ~NoneGood
            BY <2>1, <2>5
        <3> HIDE DEF AllGood, NoneGood
        <3> QED  BY <2>4, <3>1, <3>2
    <2>6. CASE ~Play!Good(all[n + 1])
        <3>1. kept[n + 1] = kept[n] /\ Len(kept[n]) \in Nat
            BY <2>2, <2>3, <2>6
        <3>2. ~AllGood
            BY <2>1, <2>6
        <3> HIDE DEF AllGood, NoneGood
        <3> QED  BY <2>4, <3>1, <3>2
    <2> QED  BY <2>5, <2>6
<1> HIDE DEF S
<1>5. N \in S
    BY <1>2, <1>3, <1>4, Induction
<1>6. Fits(N)
    BY <1>2, <1>5 DEF S
<1>7. kept[N] \in Seq(A)
    BY <1>1, <1>2
<1> QED  BY <1>1, <1>6, <1>7 DEF N

(* The place of a row that has none is that of another.                    *)
ArePlaced(made, all, good, first) ==
    \E last :
        /\ made = [n \in DOMAIN all |-> [all[n] EXCEPT !.place = last[n]]]
        /\ \A n \in 0..Len(all) :
              \/ \E k \in 1..n : /\ all[k].place \in good /\ last[n] = all[k].place
                                 /\ \A j \in 1..n : all[j].place \in good => j <= k
              \/ (\A j \in 1..n : all[j].place \notin good) /\ last[n] = first

LEMMA Placed ==
    ASSUME NEW all, Len(all) \in Nat, NEW good, NEW first
    PROVE  ArePlaced(Play!Substituted(all, good, first), all, good, first)
<1> DEFINE N == Len(all)
           Lasts(f) == f = [n \in 0..N |-> IF n = 0 THEN first
                                           ELSE IF all[n].place \in good THEN all[n].place ELSE f[n - 1]]
           Is(n, k) == all[k].place \in good /\ \A j \in 1..n : all[j].place \in good => j <= k
           from(n) == CHOOSE k \in 1..n : Is(n, k)
           known == [n \in 0..N |-> IF \E k \in 1..n : Is(n, k) THEN all[from(n)].place ELSE first]
           last == CHOOSE f : Lasts(f)
<1>1. N \in Nat
    OBVIOUS
<1> HIDE DEF N
<1>2. \A n \in 0..N : (\E j \in 1..n : all[j].place \in good) => \E k \in 1..n : Is(n, k)
    <2> DEFINE S == {n \in Nat : (\E j \in 1..n : all[j].place \in good) => \E k \in 1..n : Is(n, k)}
    <2>1. 0 \in S
        OBVIOUS
    <2>2. ASSUME NEW n \in Nat, n \in S
          PROVE  n + 1 \in S
        <3>1. \A j \in 1..(n + 1) : j = n + 1 \/ j \in 1..n
            OBVIOUS
        <3>2. \A j \in 1..n : j <= n + 1 /\ j \in 1..(n + 1)
            OBVIOUS
        <3>3. CASE all[n + 1].place \in good
            <4>1. n + 1 \in 1..(n + 1) /\ Is(n + 1, n + 1)
                BY <3>1, <3>2, <3>3
            <4> QED  BY <4>1
        <3>4. CASE all[n + 1].place \notin good
            <4>1. SUFFICES ASSUME \E j \in 1..(n + 1) : all[j].place \in good
                           PROVE  \E k \in 1..(n + 1) : Is(n + 1, k)
                OBVIOUS
            <4>2. \E j \in 1..n : all[j].place \in good
                BY <3>1, <3>4, <4>1
            <4>3. PICK k \in 1..n : Is(n, k)
                BY <2>2, <4>2
            <4>4. Is(n + 1, k)
                BY <3>1, <3>4, <4>3
            <4> QED  BY <3>2, <4>4
        <3> QED  BY <3>3, <3>4
    <2> HIDE DEF S
    <2>3. \A n \in 0..N : n \in S
        BY <1>1, <2>1, <2>2, Induction
    <2> HIDE DEF Is
    <2> QED  BY <2>3 DEF S
<1>3. \A n \in Nat : \A k, l \in 1..n : Is(n, k) /\ Is(n, l) => k = l
    OBVIOUS
<1>4. \A n \in 0..N : known[n] = IF \E k \in 1..n : Is(n, k) THEN all[from(n)].place ELSE first
    OBVIOUS
<1>5. \A n \in Nat : (\E k \in 1..n : Is(n, k)) => from(n) \in 1..n /\ Is(n, from(n))
    OBVIOUS
<1> HIDE DEF known, from
<1>6. \A n \in 1..N : known[n] = IF all[n].place \in good THEN all[n].place ELSE known[n - 1]
    <2> SUFFICES ASSUME NEW n \in 1..N
                 PROVE  known[n] = IF all[n].place \in good THEN all[n].place ELSE known[n - 1]
        OBVIOUS
    <2>1. n \in Nat /\ n - 1 \in Nat /\ n \in 0..N /\ n - 1 \in 0..N /\ n \in 1..n
        BY <1>1
    <2>2. \A j \in 1..n : (j = n \/ j \in 1..(n - 1)) /\ j <= n
        OBVIOUS
    <2>3. \A j \in 1..(n - 1) : j \in 1..n
        OBVIOUS
    <2>4. CASE all[n].place \in good
        <3>1. Is(n, n)
            BY <2>2, <2>4
        <3>2. from(n) = n
            BY <1>3, <1>5, <2>1, <3>1
        <3> QED  BY <1>4, <2>1, <2>4, <3>1, <3>2
    <2>5. CASE all[n].place \notin good
        <3>1. \A k \in 1..(n - 1) : Is(n - 1, k) <=> Is(n, k)
            BY <2>2, <2>3, <2>5
        <3>2. \A k \in 1..n : Is(n, k) => k \in 1..(n - 1)
            BY <2>2, <2>5
        <3>3. CASE \E k \in 1..(n - 1) : Is(n - 1, k)
            <4>1. from(n - 1) \in 1..(n - 1) /\ Is(n - 1, from(n - 1))
                BY <1>5, <2>1, <3>3
            <4>2. from(n - 1) \in 1..n /\ Is(n, from(n - 1))
                BY <2>3, <3>1, <4>1
            <4>3. from(n) = from(n - 1)
                <5>1. from(n) \in 1..n /\ Is(n, from(n))
                    BY <1>5, <2>1, <4>2
                <5> HIDE DEF Is
                <5> QED  BY <1>3, <2>1, <4>2, <5>1
            <4> QED  BY <1>4, <2>1, <2>5, <3>3, <4>2, <4>3
        <3>4. CASE ~\E k \in 1..(n - 1) : Is(n - 1, k)
            BY <1>4, <2>1, <2>5, <3>1, <3>2, <3>4
        <3> QED  BY <3>3, <3>4
    <2> QED  BY <2>4, <2>5
<1>7. known[0] = first
    BY <1>1, <1>4
<1> HIDE DEF Is
<1>8. Lasts(known)
    <2>1. known = [n \in 0..N |-> known[n]]
        BY DEF known
    <2>2. \A n \in 0..N : n = 0 \/ n \in 1..N
        BY <1>1
    <2>3. \A n \in 0..N : known[n] = IF n = 0 THEN first
                                     ELSE IF all[n].place \in good THEN all[n].place ELSE known[n - 1]
        BY <1>6, <1>7, <2>2
    <2> QED  BY <2>1, <2>3
<1>9. Lasts(last)
    <2> HIDE DEF Lasts
    <2> QED  BY <1>8
<1>10. Play!Substituted(all, good, first) = [n \in DOMAIN all |-> [all[n] EXCEPT !.place = last[n]]]
    BY DEF Play!Substituted, N
<1> HIDE DEF last
<1>11. last[0] = first /\ \A n \in 1..N : last[n] = IF all[n].place \in good THEN all[n].place ELSE last[n - 1]
    <2>1. \A n \in 0..N : last[n] = IF n = 0 THEN first
                                    ELSE IF all[n].place \in good THEN all[n].place ELSE last[n - 1]
        BY <1>9
    <2>2. 0 \in 0..N /\ \A n \in 1..N : n \in 0..N /\ n # 0
        BY <1>1
    <2> QED  BY <2>1, <2>2
<1> HIDE DEF Lasts
<1>12. \A n \in 0..N : last[n] = known[n]
    <2>1. Agree(N, last, known)
        BY <1>6, <1>7, <1>11 DEF Agree
    <2> QED  BY <1>1, <2>1, Agreement
<1>13. ASSUME NEW n \in 0..N
       PROVE  \/ \E k \in 1..n : /\ all[k].place \in good /\ last[n] = all[k].place
                                 /\ \A j \in 1..n : all[j].place \in good => j <= k
              \/ (\A j \in 1..n : all[j].place \notin good) /\ last[n] = first
    <2>1. n \in Nat /\ last[n] = IF \E k \in 1..n : Is(n, k) THEN all[from(n)].place ELSE first
        BY <1>1, <1>4, <1>12
    <2>2. CASE \E k \in 1..n : Is(n, k)
        <3>1. from(n) \in 1..n /\ Is(n, from(n)) /\ last[n] = all[from(n)].place
            BY <1>5, <2>1, <2>2
        <3> QED  BY <3>1 DEF Is
    <2>3. CASE ~\E k \in 1..n : Is(n, k)
        BY <1>2, <2>1, <2>3
    <2> QED  BY <2>2, <2>3
<1> QED  BY <1>10, <1>13 DEF N, ArePlaced

LEMMA SentFacts ==
    ASSUME Play!PlaybackAssumption, NEW all \in ForPlayback.feeds
    PROVE  /\ all \in Seq(PlayRows) /\ Play!Sent(all) \in Seq(PlayRows) /\ Len(all) \in Nat
           /\ Len(Play!Sent(all)) = IF Len(all) < ForPlayback.limit THEN Len(all) ELSE ForPlayback.limit
           /\ Len(Play!Sent(all)) \in Nat /\ DOMAIN Play!Sent(all) = 1..Len(Play!Sent(all))
           /\ \A i \in 1..Len(Play!Sent(all)) : i \in 1..Len(all) /\ Play!Sent(all)[i] = all[i]
<1>1. ForPlayback.limit \in Nat \ {0} /\ all \in Seq(PlayRows)
    <2>1. [place : Int, at : Nat] \subseteq PlayRows
        BY DEF PlayRows
    <2>2. all \in Seq([place : Int, at : Nat])
        BY PlayNumbers
    <2> DEFINE row == [place : Int, at : Nat]
    <2> HIDE DEF row
    <2>3. all \in Seq(row) /\ row \subseteq PlayRows
        BY <2>1, <2>2 DEF row
    <2> QED  BY <2>3, PlayNumbers
<1> DEFINE n == IF Len(all) < ForPlayback.limit THEN Len(all) ELSE ForPlayback.limit
<1>2. Play!Sent(all) = SubSeq(all, 1, n)
    BY DEF Play!Sent
<1>3. n \in Nat /\ n <= Len(all) /\ Len(all) \in Nat
    BY <1>1
<1> HIDE DEF n
<1>4. /\ SubSeq(all, 1, n) \in Seq(PlayRows) /\ Len(SubSeq(all, 1, n)) = n
      /\ \A i \in 1..n : SubSeq(all, 1, n)[i] = all[i]
    BY <1>1, <1>3
<1>5. DOMAIN Play!Sent(all) = 1..Len(Play!Sent(all))
    BY <1>2, <1>4
<1>6. \A i \in 1..n : i \in 1..Len(all)
    BY <1>3
<1> QED  BY <1>1, <1>2, <1>3, <1>4, <1>5, <1>6 DEF n

LEMMA PlacesShown ==
    ASSUME Play!PlaybackAssumption, PlayInv
    PROVE  Play!PlacesAreKnown
<1> DEFINE good == IF s1 = "history" THEN ForPlayback.india ELSE ForPlayback.usable
           all == Play!Sent(s4)
<1> SUFFICES ASSUME s1 # "map", NEW i \in DOMAIN s5
             PROVE  s5[i] = [s4[i] EXCEPT !.place = Play!LastKnown(all, good, i)]
    BY DEF Play!PlacesAreKnown
<1> DEFINE first == IF s1 = "history" THEN Play!FirstGood(all) ELSE None
<1>1. s4 \in ForPlayback.feeds /\ s5 = Play!Substituted(all, good, first)
    <2>1. s4 \in ForPlayback.feeds /\ s5 = Play!Processed(s4)
        BY DEF PlayInv, ShownInv
    <2>2. CASE s1 = "history"
        BY <2>1, <2>2 DEF Play!Processed, Play!HistoryPoints
    <2>3. CASE s1 = "route"
        BY <2>1, <2>3 DEF Play!Processed, Play!RoutePoints
    <2> QED  BY <2>1, <2>2, <2>3 DEF PlayInv, PlayTypes
<1>2. Len(all) \in Nat /\ DOMAIN all = 1..Len(all) /\ \A j \in 1..Len(all) : all[j] = s4[j]
    BY <1>1, SentFacts
<1>3. s1 = "history" => first = Play!FirstGood(all) /\ good = ForPlayback.india
    OBVIOUS
<1>4. s1 # "history" => first = None
    OBVIOUS
<1> HIDE DEF all, good, first
<1>5. PICK last :
          /\ s5 = [n \in DOMAIN all |-> [all[n] EXCEPT !.place = last[n]]]
          /\ \A n \in 0..Len(all) :
                \/ \E k \in 1..n : /\ all[k].place \in good /\ last[n] = all[k].place
                                   /\ \A j \in 1..n : all[j].place \in good => j <= k
                \/ (\A j \in 1..n : all[j].place \notin good) /\ last[n] = first
    <2>1. Len(all) \in Nat
        BY <1>2
    <2>2. ArePlaced(s5, all, good, first)
        BY <1>1, <2>1, Placed
    <2> QED  BY <2>2 DEF ArePlaced
<1>6. i \in 1..Len(all) /\ i \in 0..Len(all) /\ i \in Nat /\ s5[i] = [s4[i] EXCEPT !.place = last[i]]
    BY <1>2, <1>5
<1> DEFINE before == {j \in 1..i : all[j].place \in good}
           after == {j \in i..Len(all) : all[j].place \in good}
           latest == CHOOSE j \in before : \A k \in before : k <= j
           next == CHOOSE j \in after : \A k \in after : j <= k
<1>7. Play!LastKnown(all, good, i) =
          IF before # {} THEN all[latest].place
          ELSE IF after # {} /\ s1 = "history" THEN all[next].place ELSE None
    BY Zenon DEF Play!LastKnown
<1>8. CASE \E k \in 1..i : /\ all[k].place \in good /\ last[i] = all[k].place
                           /\ \A j \in 1..i : all[j].place \in good => j <= k
    <2>1. PICK k \in 1..i : /\ all[k].place \in good /\ last[i] = all[k].place
                            /\ \A j \in 1..i : all[j].place \in good => j <= k
        BY <1>8
    <2>2. k \in before /\ \A j \in before : j <= k
        BY <2>1
    <2>3. \A j \in before : j \in Nat
        BY <1>6
    <2> HIDE DEF before
    <2>4. latest \in before /\ \A j \in before : j <= latest
        BY <2>2
    <2> HIDE DEF latest
    <2>5. latest = k
        BY <2>2, <2>3, <2>4
    <2> QED  BY <1>6, <1>7, <2>1, <2>2, <2>5
<1>9. CASE (\A j \in 1..i : all[j].place \notin good) /\ last[i] = first
    <2>1. before = {}
        BY <1>9
    <2>2. CASE s1 # "history"
        BY <1>4, <1>6, <1>7, <1>9, <2>1, <2>2
    <2>3. CASE s1 = "history"
        <3> DEFINE known == {j \in DOMAIN all : Play!Good(all[j])}
        <3>1. after = known
            <4>1. \A j \in 1..Len(all) : j \in 1..i \/ j \in i..Len(all)
                BY <1>6
            <4>2. \A j \in i..Len(all) : j \in 1..Len(all)
                BY <1>6
            <4> QED  BY <1>2, <1>3, <1>9, <2>3, <4>1, <4>2 DEF Play!Good
        <3>2. first = IF known = {} THEN None ELSE all[CHOOSE j \in known : \A k \in known : j <= k].place
            BY Zenon, <1>3, <2>3 DEF Play!FirstGood
        <3> HIDE DEF known, after, before
        <3>3. first = IF after # {} THEN all[next].place ELSE None
            BY <3>1, <3>2
        <3> HIDE DEF next
        <3> QED  BY <1>6, <1>7, <1>9, <2>1, <2>3, <3>3
    <2> QED  BY <2>2, <2>3
<1> QED  BY <1>5, <1>6, <1>8, <1>9

(* The lines, each place added to the last one or to a new one.            *)
Grown(segs, place) ==
    IF segs = <<>> \/ Play!Apart(Play!Last(Play!Last(segs)), place) THEN Append(segs, <<place>>)
    ELSE [segs EXCEPT ![Len(segs)] = Append(@, place)]

LEMMA SequencesEqual ==
    ASSUME NEW P, NEW s \in Seq(P), NEW t \in Seq(P), Len(s) = Len(t), \A i \in 1..Len(s) : s[i] = t[i]
    PROVE  s = t
<1>1. s = [i \in 1..Len(s) |-> s[i]] /\ t = [i \in 1..Len(t) |-> t[i]]
    OBVIOUS
<1> QED  BY <1>1

LEMMA JoinsAppended ==
    ASSUME NEW P, NEW s \in Seq(P), NEW t \in Seq(P), NEW x \in P
    PROVE  s \o Append(t, x) = Append(s \o t, x)
<1>1. s \o t \in Seq(P) /\ Append(t, x) \in Seq(P)
    OBVIOUS
<1>2. s \o Append(t, x) \in Seq(P) /\ Append(s \o t, x) \in Seq(P)
    BY <1>1
<1>3. Len(s \o Append(t, x)) = Len(Append(s \o t, x))
    OBVIOUS
<1>4. ASSUME NEW i \in 1..Len(s \o Append(t, x))
      PROVE  (s \o Append(t, x))[i] = Append(s \o t, x)[i]
    OBVIOUS
<1> QED  BY <1>2, <1>3, <1>4, SequencesEqual

LEMMA GrownIsSequence ==
    ASSUME NEW P, NEW segs \in Seq(Seq(P)), NEW place \in P
    PROVE  Grown(segs, place) \in Seq(Seq(P)) \ {<<>>}
<1> DEFINE Lines == Seq(P)
<1>1. <<place>> \in Lines
    OBVIOUS
<1>2. CASE Grown(segs, place) = Append(segs, <<place>>)
    <2>1. segs \in Seq(Lines)
        OBVIOUS
    <2> DEFINE line == <<place>>
    <2>2. line \in Lines
        BY <1>1
    <2> HIDE DEF Lines, line
    <2>3. Append(segs, line) \in Seq(Lines) \ {<<>>}
        BY <2>1, <2>2
    <2> QED  BY <1>2, <2>3 DEF Lines, line
<1>3. CASE segs # <<>> /\ Grown(segs, place) = [segs EXCEPT ![Len(segs)] = Append(@, place)]
    <2>1. Len(segs) \in 1..Len(segs) /\ segs[Len(segs)] \in Seq(P)
        BY <1>3
    <2> DEFINE line == Append(segs[Len(segs)], place)
    <2>2. line \in Lines /\ segs \in Seq(Lines)
        BY <2>1
    <2> HIDE DEF line, Lines
    <2>3. [segs EXCEPT ![Len(segs)] = line] \in Seq(Lines) \ {<<>>}
        BY <1>3, <2>1, <2>2
    <2> QED  BY <1>3, <2>3 DEF Lines, line
<1> QED  BY <1>2, <1>3 DEF Grown

LEMMA Cut ==
    ASSUME NEW P, NEW places \in Seq(P)
    PROVE  \E upto \in [0..Len(places) -> Seq(Seq(P))] :
              /\ upto[0] = <<>> /\ Play!Segments(places) = upto[Len(places)]
              /\ \A n \in 1..Len(places) : upto[n] = Grown(upto[n - 1], places[n])
<1> DEFINE N == Len(places)
           B == Seq(Seq(P))
           base == <<>>
           step == [n \in 1..N |-> [segs \in B |-> Grown(segs, places[n])]]
           GrowsFrom(f) == f = [n \in 0..N |-> IF n = 0 THEN <<>> ELSE Grown(f[n - 1], places[n])]
           upto == CHOOSE f : GrowsFrom(f)
<1>1. N \in Nat /\ base \in B /\ \A n \in 1..N : places[n] \in P
    OBVIOUS
<1>2. Steps(N, B, base, step)
    BY <1>1, GrownIsSequence DEF Steps
<1>3. PICK f \in [0..N -> B] : Follows(N, base, step, f)
    <2> HIDE DEF step, N, B, base
    <2> QED  BY <1>1, <1>2, Recursion
<1>4. f[0] = <<>> /\ \A n \in 1..N : f[n] = Grown(f[n - 1], places[n])
    <2>1. \A n \in 1..N : f[n - 1] \in B
        BY <1>1
    <2> HIDE DEF B
    <2> QED  BY <1>3, <2>1 DEF Follows
<1> HIDE DEF step, B
<1>5. GrowsFrom(f)
    <2>1. \A n \in 0..N : n # 0 => n \in 1..N
        BY <1>1
    <2>2. \A n \in 0..N : f[n] = IF n = 0 THEN <<>> ELSE Grown(f[n - 1], places[n])
        BY <1>4, <2>1
    <2> QED  BY <2>2
<1>6. GrowsFrom(upto)
    <2> HIDE DEF GrowsFrom
    <2> QED  BY <1>5
<1>7. Play!Segments(places) = upto[N]
    BY DEF Play!Segments, Grown
<1> HIDE DEF upto
<1>8. upto[0] = <<>> /\ \A n \in 1..N : upto[n] = Grown(upto[n - 1], places[n])
    <2>1. 0 \in 0..N /\ \A n \in 1..N : n \in 0..N /\ n # 0
        BY <1>1
    <2>2. \A n \in 0..N : upto[n] = IF n = 0 THEN <<>> ELSE Grown(upto[n - 1], places[n])
        BY <1>6
    <2> QED  BY <2>1, <2>2
<1>9. \A n \in 0..N : upto[n] = f[n]
    <2>1. Agree(N, upto, f)
        BY <1>4, <1>8 DEF Agree
    <2> HIDE DEF N, GrowsFrom
    <2> QED  BY <1>1, <2>1, Agreement
<1>10. upto = f
    BY <1>6, <1>9
<1> QED  BY <1>7, <1>8, <1>10 DEF B

LEMMA JoinedIs ==
    ASSUME NEW P, NEW segs \in Seq(Seq(P))
    PROVE  \E joined \in [0..Len(segs) -> Seq(P)] :
              /\ joined[0] = <<>> /\ Play!Joined(segs) = joined[Len(segs)]
              /\ \A n \in 1..Len(segs) : joined[n] = joined[n - 1] \o segs[n]
<1> DEFINE N == Len(segs)
           B == Seq(P)
           base == <<>>
           step == [n \in 1..N |-> [s \in B |-> s \o segs[n]]]
           Joins(f) == f = [n \in 0..N |-> IF n = 0 THEN <<>> ELSE f[n - 1] \o segs[n]]
           joined == CHOOSE f : Joins(f)
<1>1. N \in Nat /\ base \in B /\ \A n \in 1..N : segs[n] \in B
    OBVIOUS
<1>2. Steps(N, B, base, step)
    <2>1. \A n \in 1..N : \A s \in B : s \o segs[n] \in B
        <3>1. ASSUME NEW n \in 1..N, NEW s \in Seq(P)
              PROVE  s \o segs[n] \in Seq(P)
            <4> DEFINE t == segs[n]
            <4>1. t \in Seq(P)
                BY Zenon, <1>1
            <4> HIDE DEF t
            <4>2. s \o t \in Seq(P)
                BY <4>1
            <4> QED  BY <4>2 DEF t
        <3> QED  BY <3>1
    <2> HIDE DEF N, B
    <2> QED  BY <1>1, <2>1 DEF Steps
<1>3. PICK f \in [0..N -> B] : Follows(N, base, step, f)
    <2> HIDE DEF step, N, B, base
    <2> QED  BY <1>1, <1>2, Recursion
<1>4. f[0] = <<>> /\ \A n \in 1..N : f[n] = f[n - 1] \o segs[n]
    <2> HIDE DEF B
    <2>1. \A n \in 1..N : n - 1 \in 0..N
        BY <1>1
    <2>2. \A n \in 1..N : f[n - 1] \in B
        BY <2>1
    <2> QED  BY <1>3, <2>2 DEF Follows
<1> HIDE DEF step, B
<1>5. Joins(f)
    <2>1. \A n \in 0..N : n # 0 => n \in 1..N
        BY <1>1
    <2>2. \A n \in 0..N : f[n] = IF n = 0 THEN <<>> ELSE f[n - 1] \o segs[n]
        BY <1>4, <2>1
    <2> QED  BY <2>2
<1>6. Joins(joined)
    <2> HIDE DEF Joins
    <2> QED  BY <1>5
<1>7. Play!Joined(segs) = joined[N]
    BY DEF Play!Joined
<1> HIDE DEF joined
<1>8. joined[0] = <<>> /\ \A n \in 1..N : joined[n] = joined[n - 1] \o segs[n]
    <2>1. 0 \in 0..N /\ \A n \in 1..N : n \in 0..N /\ n # 0
        BY <1>1
    <2>2. \A n \in 0..N : joined[n] = IF n = 0 THEN <<>> ELSE joined[n - 1] \o segs[n]
        BY <1>6
    <2> QED  BY <2>1, <2>2
<1>9. \A n \in 0..N : joined[n] = f[n]
    <2>1. Agree(N, joined, f)
        BY <1>4, <1>8 DEF Agree
    <2> HIDE DEF N, Joins
    <2> QED  BY <1>1, <2>1, Agreement
<1>10. joined = f
    BY <1>6, <1>9
<1> QED  BY <1>7, <1>8, <1>10 DEF B

(* Lines that begin alike are joined alike.                                *)
JoinedBy(f, segs) == f[0] = <<>> /\ \A n \in 1..Len(segs) : f[n] = f[n - 1] \o segs[n]
Alike(m, segs, more) ==
    Len(segs) \in Nat /\ Len(more) \in Nat /\ m <= Len(segs) /\ m <= Len(more) /\ \A n \in 1..m : segs[n] = more[n]

LEMMA JoinedAlike ==
    ASSUME NEW segs, NEW more, NEW m \in Nat, Alike(m, segs, more),
           NEW f, JoinedBy(f, segs), NEW g, JoinedBy(g, more)
    PROVE  f[m] = g[m]
<1>1. \A n \in 1..m : n \in 1..Len(segs) /\ n \in 1..Len(more)
    BY DEF Alike
<1>2. Agree(m, f, g)
    <2>1. \A n \in 1..m : f[n] = f[n - 1] \o segs[n] /\ g[n] = g[n - 1] \o segs[n]
        BY <1>1 DEF JoinedBy, Alike
    <2> QED  BY <2>1 DEF Agree, JoinedBy
<1>3. m \in 0..m
    OBVIOUS
<1> QED  BY <1>2, <1>3, Agreement

LEMMA GrownIsJoined ==
    ASSUME NEW P, NEW segs \in Seq(Seq(P)), NEW place \in P
    PROVE  /\ Play!Joined(segs) \in Seq(P)
           /\ Play!Joined(Grown(segs, place)) = Append(Play!Joined(segs), place)
<1> DEFINE more == Grown(segs, place)
           L == Len(segs)
<1>1. more \in Seq(Seq(P))
    BY GrownIsSequence
<1>2. PICK f \in [0..L -> Seq(P)] :
          f[0] = <<>> /\ Play!Joined(segs) = f[L] /\ \A n \in 1..L : f[n] = f[n - 1] \o segs[n]
    BY JoinedIs
<1> HIDE DEF more
<1>3. PICK g \in [0..Len(more) -> Seq(P)] :
          g[0] = <<>> /\ Play!Joined(more) = g[Len(more)] /\ \A n \in 1..Len(more) : g[n] = g[n - 1] \o more[n]
    BY <1>1, JoinedIs
<1>4. L \in Nat /\ L \in 0..L /\ f[L] \in Seq(P)
    OBVIOUS
<1>5. CASE more = Append(segs, <<place>>)
    <2> DEFINE line == <<place>>
    <2>1. /\ Len(more) = L + 1 /\ more[L + 1] = line /\ \A n \in 1..L : segs[n] = more[n]
        <3> DEFINE Lines == Seq(P)
        <3>1. segs \in Seq(Lines) /\ line \in Lines /\ more = Append(segs, line)
            BY <1>5
        <3> HIDE DEF line, Lines
        <3> QED  BY <3>1
    <2>2. f[L] = g[L]
        <3> HIDE DEF line
        <3>1. Alike(L, segs, more)
            BY <1>1, <1>4, <2>1 DEF Alike
        <3>2. JoinedBy(f, segs) /\ JoinedBy(g, more)
            BY <1>2, <1>3 DEF JoinedBy
        <3>3. L \in Nat
            BY <1>4
        <3> HIDE DEF L
        <3> QED  BY SMTT(30), <3>1, <3>2, <3>3, JoinedAlike
    <2>3. g[L + 1] = g[L] \o line
        <3>1. L \in Nat /\ L + 1 \in 1..Len(more) /\ L + 1 - 1 = L
            BY <1>4, <2>1
        <3> DEFINE m == L + 1
        <3>2. m \in 1..Len(more) /\ m - 1 = L /\ more[m] = line
            BY <2>1, <3>1
        <3> HIDE DEF line, L, m
        <3>3. g[m] = g[m - 1] \o more[m]
            BY <1>3, <3>2
        <3>4. g[m] = g[L] \o line
            BY <3>2, <3>3
        <3> QED  BY <3>4 DEF m
    <2>4. f[L] \o line = Append(f[L], place)
        <3> DEFINE s == f[L]
        <3>1. s \in Seq(P)
            BY <1>4
        <3> HIDE DEF s
        <3>2. s \o <<place>> = Append(s, place)
            BY <3>1
        <3> QED  BY <3>2 DEF s
    <2> HIDE DEF line
    <2> QED  BY <1>2, <1>3, <1>4, <2>1, <2>2, <2>3, <2>4 DEF more
<1>6. CASE segs # <<>> /\ more = [segs EXCEPT ![L] = Append(@, place)]
    <2> DEFINE line == Append(segs[L], place)
    <2>1. L \in 1..L /\ segs[L] \in Seq(P) /\ L - 1 \in Nat /\ L - 1 \in 0..L
        BY <1>6
    <2>2. /\ Len(more) = L /\ more[L] = line /\ \A n \in 1..(L - 1) : segs[n] = more[n]
        <3>1. line \in Seq(P)
            BY <2>1
        <3> DEFINE Lines == Seq(P)
        <3>2. segs \in Seq(Lines) /\ line \in Lines /\ more = [segs EXCEPT ![L] = line]
            BY <1>6, <3>1
        <3> HIDE DEF line, Lines
        <3> QED  BY <2>1, <3>2
    <2> HIDE DEF line
    <2>3. f[L - 1] = g[L - 1]
        <3> DEFINE m == L - 1
        <3>1. m \in Nat /\ Alike(m, segs, more)
            BY <1>1, <1>4, <2>1, <2>2 DEF Alike
        <3>2. JoinedBy(f, segs) /\ JoinedBy(g, more)
            BY <1>2, <1>3 DEF JoinedBy
        <3> HIDE DEF m
        <3>3. f[m] = g[m]
            BY <3>1, <3>2, JoinedAlike
        <3> QED  BY <3>3 DEF m
    <2>4. g[L] = f[L - 1] \o line /\ f[L] = f[L - 1] \o segs[L]
        BY <1>2, <1>3, <2>1, <2>2, <2>3
    <2>5. f[L - 1] \in Seq(P)
        BY <2>1
    <2>6. f[L - 1] \o line = Append(f[L - 1] \o segs[L], place)
        <3> DEFINE s == f[L - 1]
                   t == segs[L]
        <3>1. s \in Seq(P) /\ t \in Seq(P)
            BY <2>1, <2>5
        <3> HIDE DEF s, t
        <3>2. s \o Append(t, place) = Append(s \o t, place)
            BY <3>1, JoinsAppended
        <3> QED  BY <3>2 DEF s, t, line
    <2> QED  BY <1>2, <1>3, <1>4, <2>2, <2>4, <2>6 DEF more
<1> QED  BY <1>2, <1>4, <1>5, <1>6 DEF Grown, more

(* A line breaks where two places are too far apart.                       *)
WellCut(segs) ==
    \A s \in DOMAIN segs :
        /\ segs[s] # <<>>
        /\ \A i \in 1..(Len(segs[s]) - 1) : ~Play!Apart(segs[s][i], segs[s][i + 1])
        /\ s > 1 => Play!Apart(Play!Last(segs[s - 1]), segs[s][1])

LEMMA GrownIsCut ==
    ASSUME NEW P, NEW segs \in Seq(Seq(P)), NEW place \in P, WellCut(segs)
    PROVE  WellCut(Grown(segs, place))
<1> DEFINE more == Grown(segs, place)
           L == Len(segs)
<1>1. L \in Nat /\ DOMAIN segs = 1..L /\ \A s \in 1..L : segs[s] \in Seq(P)
    OBVIOUS
<1>2. \A s \in 1..L :
        /\ segs[s] # <<>>
        /\ \A i \in 1..(Len(segs[s]) - 1) : ~Play!Apart(segs[s][i], segs[s][i + 1])
        /\ s > 1 => Play!Apart(Play!Last(segs[s - 1]), segs[s][1])
    BY <1>1 DEF WellCut
<1>3. CASE segs = <<>> \/ Play!Apart(Play!Last(Play!Last(segs)), place)
    <2> DEFINE line == <<place>>
    <2>1. more = Append(segs, line)
        BY <1>3 DEF Grown
    <2> HIDE DEF more
    <2>2. DOMAIN more = 1..(L + 1) /\ more[L + 1] = line /\ \A n \in 1..L : more[n] = segs[n]
        <3> DEFINE Lines == Seq(P)
        <3>1. segs \in Seq(Lines) /\ line \in Lines
            OBVIOUS
        <3> HIDE DEF line, Lines
        <3> QED  BY <2>1, <3>1
    <2>3. line # <<>> /\ Len(line) = 1 /\ line[1] = place
        OBVIOUS
    <2> HIDE DEF line
    <2>4. L >= 1 => Play!Apart(Play!Last(segs[L]), place)
        BY <1>1, <1>3 DEF Play!Last
    <2> HIDE DEF L
    <2>5. ASSUME NEW s \in 1..L
          PROVE  /\ more[s] # <<>>
                 /\ \A i \in 1..(Len(more[s]) - 1) : ~Play!Apart(more[s][i], more[s][i + 1])
                 /\ s > 1 => Play!Apart(Play!Last(more[s - 1]), more[s][1])
        <3>1. more[s] = segs[s] /\ (s > 1 => s - 1 \in 1..L)
            BY <1>1, <2>2
        <3>2. s > 1 => more[s - 1] = segs[s - 1]
            BY <2>2, <3>1
        <3> QED  BY <1>2, <3>1, <3>2
    <2>6. /\ more[L + 1] # <<>>
          /\ \A i \in 1..(Len(more[L + 1]) - 1) : ~Play!Apart(more[L + 1][i], more[L + 1][i + 1])
          /\ L + 1 > 1 => Play!Apart(Play!Last(more[L + 1 - 1]), more[L + 1][1])
        <3>1. L + 1 > 1 => L >= 1 /\ L + 1 - 1 = L /\ L \in 1..L
            BY <1>1
        <3>2. 1..(1 - 1) = {}
            OBVIOUS
        <3> QED  BY <2>2, <2>3, <2>4, <3>1, <3>2
    <2>7. PICK m : m = L + 1
        OBVIOUS
    <2>8. /\ DOMAIN more = 1..m /\ \A s \in 1..m : s = m \/ s \in 1..L
          /\ more[m] # <<>>
          /\ \A i \in 1..(Len(more[m]) - 1) : ~Play!Apart(more[m][i], more[m][i + 1])
          /\ m > 1 => Play!Apart(Play!Last(more[m - 1]), more[m][1])
        <3>1. \A s \in 1..m : s = m \/ s \in 1..L
            BY <1>1, <2>7
        <3>2. DOMAIN more = 1..m
            BY <2>2, <2>7
        <3>3. more[m] # <<>>
            BY <2>6, <2>7
        <3>4. \A i \in 1..(Len(more[m]) - 1) : ~Play!Apart(more[m][i], more[m][i + 1])
            BY <2>6, <2>7
        <3>5. m > 1 => Play!Apart(Play!Last(more[m - 1]), more[m][1])
            <4>1. L \in Nat /\ m \in Nat
                BY <1>1, <2>7
            <4>2. m - 1 = L /\ L + 1 - 1 = L /\ (m > 1 => L + 1 > 1)
                BY <2>7, <4>1
            <4>3. L + 1 > 1 => Play!Apart(Play!Last(more[L]), more[L + 1][1])
                BY <2>6, <4>2
            <4>4. m > 1 => Play!Apart(Play!Last(more[L]), more[m][1])
                BY <2>7, <4>2, <4>3
            <4> QED  BY <4>2, <4>4
        <3> QED  BY <3>1, <3>2, <3>3, <3>4, <3>5
    <2>9. WellCut(more)
        BY <2>5, <2>8 DEF WellCut
    <2> QED  BY <2>9 DEF more
<1>4. CASE ~(segs = <<>> \/ Play!Apart(Play!Last(Play!Last(segs)), place))
    <2> DEFINE old == segs[L]
               line == Append(old, place)
    <2>1. L \in 1..L /\ old \in Seq(P) /\ more = [segs EXCEPT ![L] = line]
        BY <1>4 DEF Grown
    <2>2. old # <<>> /\ ~Play!Apart(Play!Last(old), place)
        BY <1>2, <1>4, <2>1 DEF Play!Last
    <2>3. DOMAIN more = 1..L /\ more[L] = line /\ \A s \in 1..L : s # L => more[s] = segs[s]
        <3> HIDE DEF line, more
        <3> QED  BY <1>1, <2>1
    <2> HIDE DEF more, old
    <2>4. /\ line # <<>> /\ Len(line) = Len(old) + 1 /\ line[Len(old) + 1] = place /\ line[1] = old[1]
          /\ Len(old) \in Nat /\ Len(old) >= 1 /\ \A i \in 1..Len(old) : line[i] = old[i]
        <3>1. old \in Seq(P)
            BY <2>1
        <3>2. Len(old) \in Nat /\ Len(old) >= 1 /\ 1 \in 1..Len(old)
            BY <2>2, <3>1
        <3>3. /\ Len(line) = Len(old) + 1 /\ line[Len(old) + 1] = place
              /\ \A i \in 1..Len(old) : line[i] = old[i]
            BY <3>1
        <3> HIDE DEF line
        <3>4. line # <<>>
            <4>1. Len(line) # 0
                BY <3>2, <3>3
            <4> QED  BY <4>1
        <3> QED  BY <3>2, <3>3, <3>4
    <2> HIDE DEF line
    <2>5. ASSUME NEW i \in 1..(Len(line) - 1)
          PROVE  ~Play!Apart(line[i], line[i + 1])
        <3>1. CASE i = Len(old)
            BY <2>2, <2>4, <3>1 DEF Play!Last
        <3>2. CASE i # Len(old)
            <4>1. i \in 1..(Len(old) - 1) /\ i \in 1..Len(old) /\ i + 1 \in 1..Len(old)
                BY <2>4, <3>2
            <4>2. ~Play!Apart(old[i], old[i + 1])
                BY <1>2, <2>1, <4>1 DEF old
            <4> QED  BY <2>4, <4>1, <4>2
        <3> QED  BY <3>1, <3>2
    <2> HIDE DEF L
    <2>6. ASSUME NEW s \in 1..L
          PROVE  s > 1 => s - 1 \in 1..L /\ s - 1 # L /\ more[s - 1] = segs[s - 1]
        <3>1. s > 1 => s - 1 \in 1..L /\ s - 1 # L
            BY <1>1
        <3> QED  BY <2>3, <3>1
    <2>7. ASSUME NEW s \in 1..L, s # L
          PROVE  /\ more[s] # <<>>
                 /\ \A i \in 1..(Len(more[s]) - 1) : ~Play!Apart(more[s][i], more[s][i + 1])
                 /\ s > 1 => Play!Apart(Play!Last(more[s - 1]), more[s][1])
        <3>1. more[s] = segs[s]
            BY <2>3, <2>7
        <3> QED  BY <1>2, <2>6, <3>1
    <2>8. /\ more[L] # <<>>
          /\ \A i \in 1..(Len(more[L]) - 1) : ~Play!Apart(more[L][i], more[L][i + 1])
          /\ L > 1 => Play!Apart(Play!Last(more[L - 1]), more[L][1])
        <3>1. L > 1 => Play!Apart(Play!Last(segs[L - 1]), old[1])
            BY <1>2, <2>1 DEF old
        <3> QED  BY <2>1, <2>3, <2>4, <2>5, <2>6, <3>1
    <2>9. WellCut(more)
        BY <2>3, <2>7, <2>8 DEF WellCut
    <2> QED  BY <2>9 DEF more
<1> QED  BY <1>3, <1>4

(* Every place is on a line, in their order.                               *)
LEMMA LinesAreWellCut ==
    ASSUME NEW P, NEW places \in Seq(P)
    PROVE  /\ WellCut(Play!Segments(places))
           /\ Play!Joined(Play!Segments(places)) = places
<1> DEFINE N == Len(places)
<1>1. PICK upto \in [0..N -> Seq(Seq(P))] :
          /\ upto[0] = <<>> /\ Play!Segments(places) = upto[N]
          /\ \A n \in 1..N : upto[n] = Grown(upto[n - 1], places[n])
    BY Cut
<1>2. N \in Nat /\ \A n \in 1..N : places[n] \in P
    OBVIOUS
<1> DEFINE Fits(n) ==
        /\ WellCut(upto[n]) /\ Play!Joined(upto[n]) \in Seq(P) /\ Len(Play!Joined(upto[n])) = n
        /\ \A i \in 1..n : Play!Joined(upto[n])[i] = places[i]
           S == {n \in Nat : n <= N => Fits(n)}
<1> HIDE DEF N
<1>3. 0 \in S
    <2>1. WellCut(<<>>)
        BY DEF WellCut
    <2>2. Play!Joined(<<>>) = <<>>
        <3>1. <<>> \in Seq(Seq(P)) /\ Len(<<>>) = 0
            OBVIOUS
        <3>2. PICK joined \in [0..Len(<<>>) -> Seq(P)] :
                  joined[0] = <<>> /\ Play!Joined(<<>>) = joined[Len(<<>>)]
            BY <3>1, JoinedIs
        <3> QED  BY <3>1, <3>2
    <2> QED  BY <1>1, <2>1, <2>2
<1>4. ASSUME NEW n \in Nat, n \in S
      PROVE  n + 1 \in S
    <2> SUFFICES ASSUME n + 1 <= N
                 PROVE  Fits(n + 1)
        OBVIOUS
    <2>1. n + 1 \in 1..N /\ n + 1 - 1 = n /\ n \in 0..N /\ n <= N
        BY <1>2
    <2>2. Fits(n)
        BY <1>4, <2>1
    <2>3. upto[n + 1] = Grown(upto[n], places[n + 1]) /\ upto[n] \in Seq(Seq(P)) /\ places[n + 1] \in P
        BY <1>1, <1>2, <2>1
    <2>4. WellCut(upto[n + 1])
        BY <2>2, <2>3, GrownIsCut
    <2> DEFINE s == Play!Joined(upto[n])
    <2>5. Play!Joined(upto[n + 1]) = Append(s, places[n + 1])
        BY <2>3, GrownIsJoined
    <2>6. s \in Seq(P) /\ Len(s) = n /\ \A i \in 1..n : s[i] = places[i]
        BY <2>2
    <2> HIDE DEF s
    <2>7. /\ Append(s, places[n + 1]) \in Seq(P) /\ Len(Append(s, places[n + 1])) = n + 1
          /\ \A i \in 1..(n + 1) : Append(s, places[n + 1])[i] = places[i]
        BY <2>3, <2>6
    <2> QED  BY <2>4, <2>5, <2>7
<1> HIDE DEF S
<1>5. N \in S
    BY <1>2, <1>3, <1>4, Induction
<1>6. Fits(N)
    BY <1>2, <1>5 DEF S
<1> DEFINE joined == Play!Joined(upto[N])
<1>7. joined \in Seq(P) /\ Len(joined) = Len(places) /\ \A i \in 1..Len(joined) : joined[i] = places[i]
    BY <1>6 DEF N
<1> HIDE DEF joined
<1>8. joined = places
    BY <1>7, SequencesEqual
<1> QED  BY <1>1, <1>6, <1>8 DEF joined

(* What the three pages make of the rows: as many of them, at their times, *)
(* and where one of the history has no place within India, none has.       *)
LEMMA FirstIs ==
    ASSUME NEW all \in Seq(PlayRows), Play!PlaybackAssumption
    PROVE  /\ Play!FirstGood(all) \in Int \cup {None}
           /\ (\E i \in 1..Len(all) : Play!Good(all[i])) => Play!FirstGood(all) \in ForPlayback.india
           /\ ~(\E i \in 1..Len(all) : Play!Good(all[i])) => Play!FirstGood(all) = None
<1> DEFINE good == {i \in DOMAIN all : Play!Good(all[i])}
           first == CHOOSE i \in good : \A j \in good : i <= j
<1>1. Play!FirstGood(all) = IF good = {} THEN None ELSE all[first].place
    BY DEF Play!FirstGood
<1>2. Len(all) \in Nat /\ DOMAIN all = 1..Len(all) /\ \A i \in 1..Len(all) : all[i].place \in Int \cup {None}
    <2>1. \A i \in 1..Len(all) : all[i] \in PlayRows
        OBVIOUS
    <2> QED  BY <2>1 DEF PlayRows
<1>3. good \in SUBSET Nat /\ \A i \in good : i \in 1..Len(all) /\ all[i].place \in ForPlayback.india
    BY <1>2 DEF Play!Good
<1>4. (\E i \in 1..Len(all) : Play!Good(all[i])) <=> good # {}
    BY <1>2
<1> HIDE DEF good
<1>5. good # {} => first \in good
    BY <1>3, Least
<1> HIDE DEF first
<1> QED  BY <1>1, <1>2, <1>3, <1>4, <1>5

LEMMA Replaced ==
    ASSUME NEW all \in Seq(PlayRows), NEW good, NEW first \in Int \cup {None}
    PROVE  /\ Play!Substituted(all, good, first) \in Seq(PlayRows)
           /\ Len(Play!Substituted(all, good, first)) = Len(all)
           /\ \A i \in 1..Len(all) :
                 /\ Play!Substituted(all, good, first)[i].at = all[i].at
                 /\ \/ Play!Substituted(all, good, first)[i].place \in good
                    \/ Play!Substituted(all, good, first)[i].place = first /\ all[i].place \notin good
<1> DEFINE made == Play!Substituted(all, good, first)
<1>1. Len(all) \in Nat /\ DOMAIN all = 1..Len(all) /\ \A i \in 1..Len(all) : all[i] \in PlayRows
    OBVIOUS
<1>2. PICK last :
          /\ made = [n \in DOMAIN all |-> [all[n] EXCEPT !.place = last[n]]]
          /\ \A n \in 0..Len(all) :
                \/ \E k \in 1..n : /\ all[k].place \in good /\ last[n] = all[k].place
                                   /\ \A j \in 1..n : all[j].place \in good => j <= k
                \/ (\A j \in 1..n : all[j].place \notin good) /\ last[n] = first
    <2>1. ArePlaced(made, all, good, first)
        BY <1>1, Placed
    <2> QED  BY <2>1 DEF ArePlaced
<1> HIDE DEF made
<1>3. ASSUME NEW i \in 1..Len(all)
      PROVE  /\ made[i] \in PlayRows /\ made[i].at = all[i].at
             /\ made[i].place \in good \/ (made[i].place = first /\ all[i].place \notin good)
    <2>1. i \in 0..Len(all) /\ i \in 1..i /\ \A k \in 1..i : k \in 1..Len(all)
        BY <1>1
    <2>2. all[i] \in PlayRows /\ made[i] = [all[i] EXCEPT !.place = last[i]]
        BY <1>1, <1>2
    <2>3. last[i] \in Int \cup {None} /\ (last[i] \in good \/ (last[i] = first /\ all[i].place \notin good))
        <3>1. \A k \in 1..i : all[k].place \in Int \cup {None}
            BY <1>1, <2>1 DEF PlayRows
        <3> QED  BY <1>2, <2>1, <3>1
    <2>4. made[i] \in PlayRows /\ made[i].at = all[i].at /\ made[i].place = last[i]
        BY <2>2, <2>3 DEF PlayRows
    <2> QED  BY <2>3, <2>4
<1>4. made = [i \in 1..Len(all) |-> made[i]]
    BY <1>1, <1>2
<1>5. made \in Seq(PlayRows) /\ Len(made) = Len(all)
    <2>1. \A i \in 1..Len(all) : made[i] \in PlayRows
        BY <1>3
    <2> QED  BY <1>1, <1>4, <2>1
<1> QED  BY <1>3, <1>5 DEF made

LEMMA PointsFacts ==
    ASSUME Play!PlaybackAssumption, ShownInv, s1 \in {"history", "route", "map"}
    PROVE  /\ s5 \in Seq(PlayRows) /\ Len(s5) \in Nat /\ Len(s5) <= ForPlayback.limit
           /\ s1 # "map" => /\ s5 # <<>> => s4 \in ForPlayback.feeds /\ s4 \in Seq(PlayRows)
                            /\ Len(s5) = IF Len(s4) < ForPlayback.limit THEN Len(s4) ELSE ForPlayback.limit
                            /\ \A i \in 1..Len(s5) : i \in 1..Len(s4) /\ s5[i].at = s4[i].at
                            /\ InOrder(s5)
           /\ s1 = "history" => \/ \A i \in 1..Len(s5) : Play!Good(s5[i])
                                \/ \A i \in 1..Len(s5) : ~Play!Good(s5[i])
<1>1. ForPlayback.limit \in Nat \ {0}
    BY PlayNumbers
<1>2. CASE s4 = <<>> /\ s5 = <<>>
    <2>1. <<>> \in Seq(PlayRows) /\ Len(<<>>) = 0
        OBVIOUS
    <2>2. 1..0 = {}
        OBVIOUS
    <2> QED  BY <1>1, <1>2, <2>1, <2>2 DEF InOrder
<1>3. CASE s4 \in ForPlayback.feeds /\ s5 = Play!Processed(s4)
    <2> DEFINE all == Play!Sent(s4)
    <2>1. /\ s4 \in Seq(PlayRows) /\ all \in Seq(PlayRows) /\ Len(s4) \in Nat /\ Len(all) \in Nat
          /\ Len(all) = IF Len(s4) < ForPlayback.limit THEN Len(s4) ELSE ForPlayback.limit
          /\ \A i \in 1..Len(all) : i \in 1..Len(s4) /\ all[i] = s4[i]
        BY <1>3, SentFacts
    <2>2. Len(all) <= ForPlayback.limit
        BY <1>1, <2>1
    <2>3. /\ s1 = "history" => s5 = Play!Substituted(all, ForPlayback.india, Play!FirstGood(all))
          /\ s1 = "route" => s5 = Play!Substituted(all, ForPlayback.usable, None)
          /\ s1 = "map" => s5 = Play!GoodRows(all)
        BY <1>3 DEF Play!Processed, Play!HistoryPoints, Play!RoutePoints, Play!MapPoints
    <2> HIDE DEF all
    <2>4. ASSUME s5 \in Seq(PlayRows), Len(s5) = Len(all), \A i \in 1..Len(all) : s5[i].at = all[i].at
          PROVE  /\ Len(s5) = IF Len(s4) < ForPlayback.limit THEN Len(s4) ELSE ForPlayback.limit
                 /\ \A i \in 1..Len(s5) : i \in 1..Len(s4) /\ s5[i].at = s4[i].at
                 /\ InOrder(s5) /\ Len(s5) \in Nat /\ Len(s5) <= ForPlayback.limit
        <3>1. \A i \in 1..Len(s5) : i \in 1..Len(s4) /\ s5[i].at = s4[i].at
            BY <2>1, <2>4
        <3>2. InOrder(s4)
            BY <1>3, FeedsInOrder
        <3>3. InOrder(s5)
            BY <3>1, <3>2 DEF InOrder
        <3> QED  BY <2>1, <2>2, <2>4, <3>1, <3>3
    <2>5. CASE s1 = "history"
        <3> DEFINE first == Play!FirstGood(all)
        <3>1. /\ first \in Int \cup {None}
              /\ (\E i \in 1..Len(all) : Play!Good(all[i])) => first \in ForPlayback.india
            BY <2>1, FirstIs
        <3>2. s5 = Play!Substituted(all, ForPlayback.india, first)
            BY <2>3, <2>5
        <3> HIDE DEF first
        <3>3. /\ s5 \in Seq(PlayRows) /\ Len(s5) = Len(all)
              /\ \A i \in 1..Len(all) :
                    /\ s5[i].at = all[i].at
                    /\ \/ s5[i].place \in ForPlayback.india
                       \/ s5[i].place = first /\ all[i].place \notin ForPlayback.india
            BY <2>1, <3>1, <3>2, Replaced
        <3>4. CASE \E i \in 1..Len(all) : Play!Good(all[i])
            <4>1. \A i \in 1..Len(s5) : Play!Good(s5[i])
                BY <3>1, <3>3, <3>4 DEF Play!Good
            <4> QED  BY <1>3, <2>1, <2>4, <2>5, <3>3, <4>1
        <3>5. CASE ~\E i \in 1..Len(all) : Play!Good(all[i])
            <4>1. PICK last :
                      /\ s5 = [n \in DOMAIN all |-> [all[n] EXCEPT !.place = last[n]]]
                      /\ \A n \in 0..Len(all) :
                            \/ \E k \in 1..n : /\ all[k].place \in ForPlayback.india /\ last[n] = all[k].place
                                               /\ \A j \in 1..n : all[j].place \in ForPlayback.india => j <= k
                            \/ (\A j \in 1..n : all[j].place \notin ForPlayback.india) /\ last[n] = first
                <5>1. ArePlaced(s5, all, ForPlayback.india, first)
                    BY <2>1, <3>2, Placed
                <5> QED  BY <5>1 DEF ArePlaced
            <4>2. DOMAIN all = 1..Len(all) /\ \A i \in 1..Len(all) : all[i] \in PlayRows
                BY <2>1
            <4>3. ASSUME NEW n \in 1..Len(all)
                  PROVE  s5[n].place = first
                <5>1. n \in 0..Len(all) /\ \A k \in 1..n : k \in 1..Len(all)
                    BY <2>1
                <5>2. \A k \in 1..n : all[k].place \notin ForPlayback.india
                    BY <3>5, <5>1 DEF Play!Good
                <5>3. last[n] = first
                    BY <4>1, <5>1, <5>2
                <5>4. all[n] \in PlayRows /\ s5[n] = [all[n] EXCEPT !.place = last[n]]
                    BY <4>1, <4>2
                <5> QED  BY <5>3, <5>4 DEF PlayRows
            <4>4. \/ \A i \in 1..Len(s5) : Play!Good(s5[i])
                  \/ \A i \in 1..Len(s5) : ~Play!Good(s5[i])
                BY <3>3, <4>3 DEF Play!Good
            <4> QED  BY <1>3, <2>1, <2>4, <2>5, <3>3, <4>4
        <3> QED  BY <3>4, <3>5
    <2>6. CASE s1 = "route"
        <3>1. None \in Int \cup {None}
            OBVIOUS
        <3>2. /\ s5 \in Seq(PlayRows) /\ Len(s5) = Len(all)
              /\ \A i \in 1..Len(all) : s5[i].at = all[i].at
            <4> DEFINE good == ForPlayback.usable
                       first == None
                       made == Play!Substituted(all, good, first)
            <4>1. s5 = made /\ first \in Int \cup {None}
                BY <2>3, <2>6, <3>1
            <4> HIDE DEF good, first
            <4>2. /\ made \in Seq(PlayRows) /\ Len(made) = Len(all)
                  /\ \A i \in 1..Len(all) :
                        /\ made[i].at = all[i].at
                        /\ made[i].place \in good \/ (made[i].place = first /\ all[i].place \notin good)
                BY <2>1, <4>1, Replaced
            <4> QED  BY <4>1, <4>2
        <3> QED  BY <1>3, <2>1, <2>4, <2>6, <3>2
    <2>7. CASE s1 = "map"
        <3>1. s5 \in Seq(PlayRows) /\ Len(s5) <= Len(all)
            BY <2>1, <2>3, <2>7, KeptFacts
        <3>2. Len(s5) \in Nat
            BY <3>1
        <3> QED  BY <1>1, <2>1, <2>2, <2>7, <3>1, <3>2
    <2> QED  BY <2>5, <2>6, <2>7
<1> QED  BY <1>2, <1>3 DEF ShownInv

LEMMA PositionsFacts ==
    ASSUME NEW all \in Seq(PlayRows), all = s5
    PROVE  /\ Play!RoutePositions \in Seq(Int \cup {None}) /\ Len(Play!RoutePositions) \in Nat
           /\ Len(Play!RoutePositions) = Len(Play!GoodRows(s5)) /\ Len(Play!RoutePositions) <= Len(s5)
<1> DEFINE kept == Play!GoodRows(s5)
<1>1. kept \in Seq(PlayRows) /\ Len(kept) <= Len(s5)
    BY KeptFacts
<1>2. Play!RoutePositions = [i \in DOMAIN kept |-> kept[i].place]
    BY DEF Play!RoutePositions
<1> HIDE DEF kept
<1>3. Len(kept) \in Nat /\ DOMAIN kept = 1..Len(kept) /\ \A i \in 1..Len(kept) : kept[i].place \in Int \cup {None}
    <2>1. \A i \in 1..Len(kept) : kept[i] \in PlayRows
        BY <1>1
    <2> QED  BY <1>1, <2>1 DEF PlayRows
<1> DEFINE places == [i \in 1..Len(kept) |-> kept[i].place]
           P == Int \cup {None}
<1>4. places \in Seq(P) /\ Len(places) = Len(kept)
    <2> HIDE DEF P
    <2>1. \A i \in 1..Len(kept) : kept[i].place \in P
        BY <1>3 DEF P
    <2> QED  BY <1>3, <2>1
<1>5. Play!RoutePositions = places
    BY <1>2, <1>3
<1> QED  BY <1>1, <1>3, <1>4, <1>5 DEF kept

(* The line is drawn as travelled up to the first point with the time of   *)
(* the one that is played, or to its end.                                  *)
LEMMA Travelled ==
    ASSUME NEW all \in Seq(PlayRows), all = s5, NEW n \in 1..Len(s5), Play!HasActive, Play!ActivePoint = s5[n]
    PROVE  \E c \in 1..n :
              /\ s5[c].at = s5[n].at /\ \A j \in 1..(c - 1) : s5[j].at # s5[n].at
              /\ Len(Play!PastPositions) = IF c < Len(Play!RoutePositions) THEN c ELSE Len(Play!RoutePositions)
<1> DEFINE same == {i \in 1..Len(s5) : s5[i].at = s5[n].at}
           Is(i) == s5[i].at = s5[n].at /\ \A j \in 1..(i - 1) : s5[j].at # s5[n].at
           c == CHOOSE i \in DOMAIN s5 : Is(i)
<1>1. Len(s5) \in Nat /\ DOMAIN s5 = 1..Len(s5)
    OBVIOUS
<1>2. PICK m \in same : \A i \in same : m <= i
    <2>1. same \in SUBSET Nat /\ same # {}
        BY <1>1
    <2> HIDE DEF same
    <2> QED  BY <2>1, Least
<1>3. m \in DOMAIN s5 /\ Is(m)
    <2>1. m \in 1..Len(s5) /\ s5[m].at = s5[n].at
        BY <1>2
    <2>2. ASSUME NEW j \in 1..(m - 1)
          PROVE  s5[j].at # s5[n].at
        <3>1. j \in 1..Len(s5) /\ ~(m <= j)
            BY <1>1, <2>1
        <3> QED  BY <1>2, <3>1
    <2> QED  BY <1>1, <2>1, <2>2
<1>4. c \in DOMAIN s5 /\ Is(c)
    <2> HIDE DEF Is
    <2> QED  BY <1>3
<1>5. Play!CurrentIndex = c
    BY DEF Play!CurrentIndex
<1>6. c \in 1..n
    <2>1. c \in 1..Len(s5) /\ n \in 1..Len(s5)
        BY <1>1, <1>4
    <2>2. \A j \in 1..(c - 1) : s5[j].at # s5[n].at
        BY <1>4
    <2> HIDE DEF c
    <2>3. ~(n < c)
        BY <2>1, <2>2
    <2> QED  BY <1>1, <2>1, <2>3
<1> HIDE DEF c
<1> DEFINE R == Play!RoutePositions
           upto == IF c < Len(R) THEN c ELSE Len(R)
           P == Int \cup {None}
<1>7. Play!PastPositions = SubSeq(R, 1, upto)
    BY <1>5 DEF Play!PastPositions
<1>8. R \in Seq(P) /\ Len(R) \in Nat
    BY PositionsFacts
<1>9. upto \in Nat /\ upto <= Len(R)
    BY <1>1, <1>6, <1>8
<1> HIDE DEF R, P, upto
<1>10. Len(SubSeq(R, 1, upto)) = upto
    BY <1>8, <1>9
<1> QED  BY <1>4, <1>6, <1>7, <1>10 DEF R, upto

LEMMA LinesShown ==
    ASSUME Play!PlaybackAssumption, PlayInv
    PROVE  Play!LinesAreTravelled
<1> DEFINE R == Play!RoutePositions
           P == Int \cup {None}
           segs == Play!Segments(R)
<1>1. /\ s5 \in Seq(PlayRows) /\ Len(s5) \in Nat
      /\ s1 # "map" => InOrder(s5)
      /\ s1 = "history" => \/ \A i \in 1..Len(s5) : Play!Good(s5[i])
                           \/ \A i \in 1..Len(s5) : ~Play!Good(s5[i])
    BY PointsFacts DEF PlayInv, PlayTypes
<1>2. R \in Seq(P) /\ Len(R) \in Nat /\ Len(R) = Len(Play!GoodRows(s5)) /\ Len(R) <= Len(s5)
    BY <1>1, PositionsFacts
<1>3. /\ Play!Joined(segs) = R
      /\ \A s \in DOMAIN segs :
            /\ segs[s] # <<>>
            /\ \A i \in 1..(Len(segs[s]) - 1) : ~Play!Apart(segs[s][i], segs[s][i + 1])
            /\ s > 1 => Play!Apart(Play!Last(segs[s - 1]), segs[s][1])
    <2>1. R \in Seq(P)
        BY <1>2
    <2> HIDE DEF R, P
    <2>2. WellCut(segs) /\ Play!Joined(segs) = R
        BY <2>1, LinesAreWellCut
    <2> HIDE DEF segs
    <2> QED  BY <2>2 DEF WellCut
<1>4. s6 \in Nat
    BY DEF PlayInv, PlayTypes
<1>5. ASSUME s1 = "history", Play!HasActive, R # <<>>
      PROVE  /\ Len(Play!PastPositions) <= s6 + 1
             /\ \A i \in (Len(Play!PastPositions) + 1)..(s6 + 1) : s5[i].at = Play!ActivePoint.at
    <2> DEFINE n == s6 + 1
    <2>1. n \in 1..Len(s5) /\ Play!ActivePoint = s5[n]
        BY <1>1, <1>4, <1>5 DEF Play!HasActive, Play!ActivePoint
    <2> HIDE DEF n
    <2>2. Len(R) = Len(s5)
        <3>1. ~(\A i \in 1..Len(s5) : ~Play!Good(s5[i]))
            <4>1. Len(R) # 0
                BY <1>2, <1>5
            <4>2. (\A i \in 1..Len(s5) : ~Play!Good(s5[i])) => Play!GoodRows(s5) = <<>>
                BY <1>1, KeptFacts
            <4> HIDE DEF R
            <4> QED  BY <1>2, <4>1, <4>2
        <3>2. \A i \in 1..Len(s5) : Play!Good(s5[i])
            BY <1>1, <1>5, <3>1
        <3> QED  BY <1>1, <1>2, <3>2, KeptFacts
    <2>3. PICK c \in 1..n :
              /\ s5[c].at = s5[n].at
              /\ Len(Play!PastPositions) = IF c < Len(R) THEN c ELSE Len(R)
        BY <1>1, <1>5, <2>1, Travelled
    <2> HIDE DEF R
    <2>4. c \in 1..Len(s5) /\ c <= n /\ Len(Play!PastPositions) = c
        BY <1>1, <2>1, <2>2, <2>3
    <2>5. ASSUME NEW i \in (c + 1)..n
          PROVE  s5[i].at = s5[n].at
        <3>1. i \in 1..Len(s5) /\ c <= i /\ i <= n
            BY <1>1, <2>1, <2>4
        <3>2. s5[c].at <= s5[i].at /\ s5[i].at <= s5[n].at
            BY <1>1, <1>5, <2>1, <2>4, <3>1 DEF InOrder
        <3>3. s5[i].at \in Nat /\ s5[n].at \in Nat
            <4>1. s5[i] \in PlayRows /\ s5[n] \in PlayRows
                BY <1>1, <2>1, <3>1
            <4> QED  BY <4>1 DEF PlayRows
        <3> QED  BY <2>3, <3>2, <3>3
    <2> QED  BY <2>1, <2>4, <2>5 DEF n
<1>6. ASSUME s1 = "route", Play!HasActive, Len(Play!PastPositions) < Len(R)
      PROVE  \E i \in 1..(Len(s5) - 1) : s5[i].at = Play!Last(s5).at
    <2> DEFINE n == Len(s5)
    <2>1. n \in 1..Len(s5) /\ Play!ActivePoint = s5[n] /\ Play!Last(s5) = s5[n]
        <3>1. s5 # <<>>
            BY <1>6 DEF Play!HasActive
        <3>2. Len(s5) # 0
            BY <1>1, <3>1
        <3> QED  BY <1>1, <1>6, <3>2 DEF Play!ActivePoint, Play!Last
    <2>2. PICK c \in 1..n :
              /\ s5[c].at = s5[n].at
              /\ Len(Play!PastPositions) = IF c < Len(R) THEN c ELSE Len(R)
        BY <1>1, <1>6, <2>1, Travelled
    <2> HIDE DEF R
    <2>3. c \in 1..(Len(s5) - 1)
        BY <1>1, <1>2, <1>6, <2>2
    <2> QED  BY <2>1, <2>2, <2>3
<1> QED  BY Zenon, <1>3, <1>5, <1>6 DEF Play!LinesAreTravelled

LEMMA PlayAsPromised ==
    ASSUME Play!PlaybackAssumption, PlayInv
    PROVE  Play!PlayTypeOK /\ Play!PlaybackHolds
<1>1. /\ s5 \in Seq(PlayRows) /\ Len(s5) \in Nat /\ Len(s5) <= ForPlayback.limit
      /\ s1 # "map" => /\ s5 # <<>> => s4 \in ForPlayback.feeds /\ s4 \in Seq(PlayRows)
                       /\ Len(s5) = IF Len(s4) < ForPlayback.limit THEN Len(s4) ELSE ForPlayback.limit
                       /\ \A i \in 1..Len(s5) : i \in 1..Len(s4) /\ s5[i].at = s4[i].at
    BY PointsFacts DEF PlayInv, PlayTypes
<1>2. Play!PlayTypeOK
    <2>1. \A n \in DOMAIN s2 : s2[n] \in ForPlayback.vehicles
        BY DEF PlayInv, PlayTypes
    <2> QED  BY <1>1, <2>1 DEF PlayInv, PlayTypes, Play!PlayTypeOK
<1>3. Play!PlayedIsShown
    <2>1. s5 = <<>> <=> Len(s5) = 0
        BY <1>1
    <2> QED  BY DEF PlayInv, PlayedInv, Play!PlayedIsShown
<1>4. Play!EndIsLatest
    <2> SUFFICES ASSUME s1 # "map", s5 # <<>>, ~(Len(s4) > ForPlayback.limit)
                 PROVE  Play!Last(s5).at = Play!Last(s4).at
        BY DEF Play!EndIsLatest
    <2>1. ForPlayback.limit \in Nat /\ Len(s4) \in Nat /\ Len(s5) # 0
        BY <1>1, PlayNumbers
    <2>2. Len(s5) = Len(s4) /\ Len(s5) \in 1..Len(s5)
        BY <1>1, <2>1
    <2> QED  BY <1>1, <2>2 DEF Play!Last
<1>5. Play!RouteIsOfSelected
    BY DEF PlayInv, SelectedInv, Play!RouteIsOfSelected
<1> QED  BY <1>2, <1>3, <1>4, <1>5, PlacesShown, LinesShown DEF Play!PlaybackHolds

(* The steps. *)
LEMMA NeededIs ==
    ASSUME Play!PlaybackAssumption, NEW n \in Nat, NEW all
    PROVE  Play!NeededPage(all, n) \in Nat \ {0}
<1> DEFINE r == ForPlayback.rowsPerPage
           q == n \div r
<1>1. r \in Nat \ {0}
    BY PlayNumbers
<1> HIDE DEF r
<1>2. q \in Int /\ r * q \in Int /\ n < r * q + r
    BY <1>1, Division
<1> HIDE DEF q
<1>3. q >= 0
    <2>1. q <= -1 => r * q <= -r
        BY <1>1, <1>2, Multiple
    <2> QED  BY <1>1, <1>2, <2>1
<1>4. q + 1 \in Nat \ {0}
    BY <1>2, <1>3
<1> QED  BY <1>4 DEF Play!NeededPage, q, r

LEMMA WithoutFacts ==
    ASSUME s2 \in Seq(ForPlayback.vehicles), NEW n \in DOMAIN s2
    PROVE  /\ Play!Without(n) \in Seq(ForPlayback.vehicles)
           /\ \A m \in DOMAIN Play!Without(n) : \E k \in DOMAIN s2 : Play!Without(n)[m] = s2[k]
<1> DEFINE rest == [m \in 1..(Len(s2) - 1) |-> IF m < n THEN s2[m] ELSE s2[m + 1]]
<1>1. Len(s2) \in Nat /\ DOMAIN s2 = 1..Len(s2) /\ n \in 1..Len(s2) /\ Len(s2) - 1 \in Nat
    OBVIOUS
<1>2. \A m \in 1..(Len(s2) - 1) : m \in 1..Len(s2) /\ m + 1 \in 1..Len(s2)
    BY <1>1
<1>3. \A m \in 1..(Len(s2) - 1) : rest[m] \in ForPlayback.vehicles /\ \E k \in 1..Len(s2) : rest[m] = s2[k]
    BY <1>2
<1>4. DOMAIN rest = 1..(Len(s2) - 1)
    OBVIOUS
<1>5. rest = [m \in 1..(Len(s2) - 1) |-> rest[m]]
    OBVIOUS
<1> HIDE DEF rest
<1>6. rest \in [1..(Len(s2) - 1) -> ForPlayback.vehicles]
    BY <1>3, <1>5
<1>7. rest \in Seq(ForPlayback.vehicles)
    BY <1>1, <1>6
<1> QED  BY <1>1, <1>3, <1>4, <1>7 DEF rest, Play!Without

LEMMA ProcessedIs ==
    ASSUME Play!PlaybackAssumption, s1 \in {"history", "route", "map"}, NEW all \in ForPlayback.feeds
    PROVE  Play!Processed(all) \in Seq(PlayRows)
<1> DEFINE sent == Play!Sent(all)
<1>1. sent \in Seq(PlayRows)
    BY SentFacts
<1> HIDE DEF sent
<1>2. CASE s1 = "history"
    <2> DEFINE good == ForPlayback.india
               first == Play!FirstGood(sent)
    <2>1. first \in Int \cup {None} /\ Play!Processed(all) = Play!Substituted(sent, good, first)
        BY <1>1, <1>2, FirstIs DEF Play!Processed, Play!HistoryPoints, sent
    <2> HIDE DEF good, first
    <2> QED  BY <1>1, <2>1, Replaced
<1>3. CASE s1 = "route"
    <2> DEFINE good == ForPlayback.usable
               first == None
    <2>1. first \in Int \cup {None} /\ Play!Processed(all) = Play!Substituted(sent, good, first)
        BY <1>3 DEF Play!Processed, Play!RoutePoints, sent
    <2> HIDE DEF good, first
    <2> QED  BY <1>1, <2>1, Replaced
<1>4. CASE s1 = "map"
    <2>1. Play!Processed(all) = Play!GoodRows(sent)
        BY <1>4 DEF Play!Processed, Play!MapPoints, sent
    <2> QED  BY <1>1, <2>1, KeptFacts
<1> QED  BY <1>2, <1>3, <1>4

LEMMA PlayBegins ==
    ASSUME Play!PlaybackAssumption, Play!PlayInit
    PROVE  PlayInv
<1> USE DEF Play!PlayInit
<1>1. PlayTypes
    <2>1. <<>> \in Seq(ForPlayback.vehicles) /\ ForPlayback.acts \in Nat
        BY PlayNumbers
    <2>2. s10 \in [auto : BOOLEAN, touched : BOOLEAN, owner : ForPlayback.vehicles \cup {None}, crossed : BOOLEAN]
        OBVIOUS
    <2>3. s1 \in {"history", "route", "map"} /\ s3 \in BOOLEAN /\ s7 \in BOOLEAN /\ s6 = 0 /\ s8 = 1 /\ s11 = 0
        BY Zenon
    <2>4. s9 \in ForPlayback.vehicles \cup {None} /\ (s1 # "map" => s9 \in ForPlayback.vehicles)
        OBVIOUS
    <2>5. s2 \in Seq(ForPlayback.vehicles)
        BY <2>1
    <2> HIDE DEF Play!PlayInit
    <2> QED  BY <2>1, <2>2, <2>3, <2>4, <2>5 DEF PlayTypes
<1>2. PlayedInv
    BY DEF PlayedInv, Play!NeededPage
<1>3. SelectedInv
    <2> DEFINE yes == s1 = "history"
    <2>1. s10.auto = yes /\ s2 = <<>> /\ s5 = <<>>
        OBVIOUS
    <2>2. s10.auto => s1 = "history"
        BY Zenon, <2>1
    <2> QED  BY <2>1, <2>2 DEF SelectedInv
<1> QED  BY <1>1, <1>2, <1>3 DEF PlayInv, ShownInv

LEMMA ShownStays ==
    ASSUME ShownInv, UNCHANGED <<s1, s4, s5>>
    PROVE  ShownInv'
<1>1. Play!Processed(s4)' = Play!Processed(s4)
    BY DEF Play!Processed
<1> QED  BY <1>1 DEF ShownInv

LEMMA PlayRests ==
    ASSUME PlayInv, UNCHANGED <<s1, s2, s3, s4, s5, s6, s7, s8, s9, s10, s11>>
    PROVE  PlayInv'
<1>1. ShownInv'
    BY ShownStays DEF PlayInv
<1> QED  BY <1>1 DEF PlayInv, PlayTypes, PlayedInv, SelectedInv, Play!NeededPage

LEMMA RouteAsked ==
    ASSUME Play!PlaybackAssumption, PlayInv, Play!Ask, s1 # "map", s11' \in Nat, s11' <= ForPlayback.acts
    PROVE  PlayInv'
<1> USE DEF PlayInv, Play!Ask
<1>1. s2' \in Seq(ForPlayback.vehicles)
    BY DEF PlayTypes
<1>2. s10' \in [auto : BOOLEAN, touched : BOOLEAN, owner : ForPlayback.vehicles \cup {None}, crossed : BOOLEAN]
      /\ (s10'.auto => s10.auto) /\ ~s10'.touched
    <2> DEFINE on == s10.auto /\ s11' # s11
    <2>1. on \in BOOLEAN /\ (on => s10.auto)
        BY DEF PlayTypes
    <2>2. s10' = [s10 EXCEPT !.touched = FALSE, !.auto = on]
        OBVIOUS
    <2> HIDE DEF on
    <2> QED  BY <2>1, <2>2 DEF PlayTypes
<1>3. ShownInv'
    BY ShownStays
<1>4. s6' \in Nat /\ s8' \in Nat \ {0} /\ s7' \in BOOLEAN
    <2>1. Play!NeededPage(s5, 0) \in Nat \ {0}
        BY NeededIs
    <2>2. CASE s1 = "history"
        <3>1. s7' = FALSE /\ s6' = 0 /\ s8' = Play!NeededPage(s5, 0)
            BY <2>2
        <3> HIDE DEF Play!Ask
        <3>2. s7' \in BOOLEAN
            BY Zenon, <3>1
        <3> QED  BY <2>1, <3>1, <3>2
    <2>3. CASE s1 # "history"
        BY <2>3 DEF PlayTypes
    <2> QED  BY <2>2, <2>3
<1>5. PlayTypes'
    BY <1>1, <1>2, <1>4 DEF PlayTypes
<1>6. PlayedInv'
    <2> SUFFICES ASSUME s1 = "history"
                 PROVE  /\ s8' = Play!NeededPage(s5, s6)'
                        /\ IF s5' = <<>> THEN s6' = 0 ELSE s6' < Len(s5')
                        /\ s6' = 0 /\ ~s7'
        BY DEF PlayedInv
    <2>1. s5 \in Seq(PlayRows)
        BY PointsFacts DEF PlayTypes
    <2>2. s5 # <<>> => 0 < Len(s5)
        BY <2>1
    <2> QED  BY <2>2 DEF Play!NeededPage
<1>7. SelectedInv'
    BY <1>2 DEF SelectedInv
<1> QED  BY <1>3, <1>5, <1>6, <1>7

LEMMA OtherSelected ==
    ASSUME Play!PlaybackAssumption, PlayInv, NEW v \in ForPlayback.vehicles \cup {None}, Play!Select(v)
    PROVE  PlayInv'
<1> USE DEF PlayInv, Play!Select
<1>1. s2' \in Seq(ForPlayback.vehicles) /\ (s2 = <<>> => \A n \in DOMAIN s2' : s2'[n] = v)
    <2>1. CASE v = None
        BY <2>1 DEF PlayTypes
    <2>2. CASE v # None
        <3>1. v \in ForPlayback.vehicles /\ s2' = Append(s2, v) /\ s2 \in Seq(ForPlayback.vehicles)
            BY <2>2 DEF PlayTypes
        <3> HIDE DEF Play!Select
        <3>2. s2' \in Seq(ForPlayback.vehicles)
            BY <3>1
        <3>3. ASSUME s2 = <<>>
              PROVE  \A n \in DOMAIN s2' : s2'[n] = v
            <4>1. Append(<<>>, v) = <<v>>
                OBVIOUS
            <4> QED  BY <3>1, <3>3, <4>1
        <3> QED  BY <3>2, <3>3
    <2> QED  BY <2>1, <2>2
<1>2. /\ s10' \in [auto : BOOLEAN, touched : BOOLEAN, owner : ForPlayback.vehicles \cup {None}, crossed : BOOLEAN]
      /\ s10'.auto = s10.auto /\ (s10'.crossed <=> s2 # <<>>)
    <2> DEFINE over == s2 # <<>>
               no == None
    <2>1. over \in BOOLEAN /\ no \in ForPlayback.vehicles \cup {None}
        OBVIOUS
    <2>2. s10' = [s10 EXCEPT !.owner = no, !.crossed = over]
        OBVIOUS
    <2>3. over <=> s2 # <<>>
        OBVIOUS
    <2> HIDE DEF over, no
    <2> QED  BY <2>1, <2>2, <2>3 DEF PlayTypes
<1>3. s11' \in Nat /\ s11' <= ForPlayback.acts
    BY PlayNumbers DEF Play!Act, PlayTypes
<1>4. PlayTypes'
    BY <1>1, <1>2, <1>3 DEF PlayTypes
<1>5. ShownInv' /\ PlayedInv'
    BY DEF ShownInv, PlayedInv
<1>6. SelectedInv'
    BY <1>1, <1>2 DEF SelectedInv
<1> QED  BY <1>4, <1>5, <1>6

LEMMA RouteAnswered ==
    ASSUME Play!PlaybackAssumption, PlayInv, NEW n \in DOMAIN s2, NEW all \in ForPlayback.feeds, Play!Answer(n, all)
    PROVE  PlayInv'
<1> USE DEF PlayInv, Play!Answer
<1>1. /\ s2' \in Seq(ForPlayback.vehicles)
      /\ \A m \in DOMAIN s2' : \E k \in DOMAIN s2 : s2'[m] = s2[k]
    BY WithoutFacts DEF PlayTypes
<1>2. /\ s10' \in [auto : BOOLEAN, touched : BOOLEAN, owner : ForPlayback.vehicles \cup {None}, crossed : BOOLEAN]
      /\ s10'.auto = s10.auto /\ s10'.crossed = s10.crossed /\ s10'.touched = s10.touched /\ s10'.owner = s2[n]
    <2> DEFINE v == s2[n]
    <2>1. v \in ForPlayback.vehicles /\ s10' = [s10 EXCEPT !.owner = v]
        BY DEF PlayTypes
    <2> HIDE DEF v
    <2> QED  BY <2>1 DEF PlayTypes, v
<1>3. ShownInv'
    <2>1. Play!Processed(s4)' = Play!Processed(all)
        BY DEF Play!Processed
    <2> QED  BY <2>1 DEF ShownInv
<1>4. s8' \in Nat \ {0}
    BY NeededIs DEF PlayTypes
<1>5. PlayTypes'
    BY <1>1, <1>2, <1>4 DEF PlayTypes
<1>6. PlayedInv'
    <2> SUFFICES ASSUME s1 = "history"
                 PROVE  /\ s8' = Play!NeededPage(s5, s6)'
                        /\ ~s10.touched => /\ IF s5' = <<>> THEN s6 = 0 ELSE s6 < Len(s5')
                                           /\ s6 = 0 /\ ~s7
        BY <1>2 DEF PlayedInv
    <2>1. s2 # <<>>
        BY DEF PlayTypes
    <2>2. s5' \in Seq(PlayRows)
        BY ProcessedIs DEF PlayTypes
    <2>3. s5' # <<>> => 0 < Len(s5')
        BY <2>2
    <2>4. s8' = Play!NeededPage(s5, s6)'
        BY DEF Play!NeededPage
    <2> QED  BY <2>1, <2>3, <2>4 DEF PlayedInv
<1>7. SelectedInv'
    BY <1>1, <1>2 DEF SelectedInv
<1> QED  BY <1>3, <1>5, <1>6, <1>7

LEMMA RouteFailed ==
    ASSUME Play!PlaybackAssumption, PlayInv, NEW n \in DOMAIN s2, Play!Fail(n)
    PROVE  PlayInv'
<1> USE DEF PlayInv, Play!Fail
<1>1. /\ s2' \in Seq(ForPlayback.vehicles)
      /\ \A m \in DOMAIN s2' : \E k \in DOMAIN s2 : s2'[m] = s2[k]
    BY WithoutFacts DEF PlayTypes
<1>2. PlayTypes'
    BY <1>1 DEF PlayTypes
<1>3. ShownInv'
    BY ShownStays
<1>4. PlayedInv'
    <2>1. s2 # <<>>
        BY DEF PlayTypes
    <2> QED  BY <2>1 DEF PlayedInv, Play!NeededPage
<1>5. SelectedInv'
    BY <1>1 DEF SelectedInv
<1> QED  BY <1>2, <1>3, <1>4, <1>5

(* A row, the slider, Play or Stop.                                        *)
LEMMA PlayControlled ==
    ASSUME Play!PlaybackAssumption, PlayInv, Play!TogglePlay \/ Play!handleStop \/ \E n \in 0..(Len(s5) - 1) : Play!Jump(n)
    PROVE  PlayInv'
<1> USE DEF PlayInv
<1>1. /\ s1 = "history" /\ s5 # <<>> /\ s11' \in Nat /\ s11' <= ForPlayback.acts
      /\ UNCHANGED <<s1, s2, s3, s4, s5, s9>>
    BY PlayNumbers DEF Play!TogglePlay, Play!handleStop, Play!Jump, Play!Control, Play!Act, PlayTypes
<1>2. s5 \in Seq(PlayRows) /\ Len(s5) \in Nat /\ 0 < Len(s5)
    <2>1. s5 \in Seq(PlayRows)
        BY PointsFacts DEF PlayTypes
    <2> QED  BY <1>1, <2>1
<1>3. /\ s10' \in [auto : BOOLEAN, touched : BOOLEAN, owner : ForPlayback.vehicles \cup {None}, crossed : BOOLEAN]
      /\ (s10'.touched \/ s2 = <<>> \/ Play!handleStop) /\ (s10.touched => s10'.touched)
    <2>1. CASE Play!handleStop
        BY <2>1 DEF Play!handleStop, PlayTypes
    <2>2. CASE Play!Touched
        <3> DEFINE now == s10.touched \/ s2 # <<>>
        <3>1. now \in BOOLEAN /\ s10' = [s10 EXCEPT !.touched = now]
            BY <2>2 DEF PlayTypes, Play!Touched
        <3>2. now <=> s10.touched \/ s2 # <<>>
            OBVIOUS
        <3> HIDE DEF now
        <3> QED  BY <3>1, <3>2 DEF PlayTypes
    <2> QED  BY <2>1, <2>2 DEF Play!TogglePlay, Play!Jump
<1>4. /\ s6' \in Nat /\ (s6' < Len(s5) \/ s6' = s6)
      /\ s8' \in Nat \ {0} /\ s7' \in BOOLEAN /\ s8' = Play!NeededPage(s5, s6)'
    <2>1. CASE Play!TogglePlay
        BY <1>1, <2>1 DEF Play!TogglePlay, PlayTypes, PlayedInv, Play!NeededPage
    <2>2. CASE Play!handleStop
        <3>1. Play!NeededPage(s5, 0) \in Nat \ {0}
            BY NeededIs
        <3> QED  BY <1>1, <1>2, <2>2, <3>1 DEF Play!handleStop, PlayTypes, Play!NeededPage
    <2>3. CASE \E n \in 0..(Len(s5) - 1) : Play!Jump(n)
        <3>1. PICK n \in 0..(Len(s5) - 1) : Play!Jump(n)
            BY <2>3
        <3>2. n \in Nat /\ n < Len(s5)
            BY <1>2
        <3>3. Play!NeededPage(s5, n) \in Nat \ {0}
            BY <3>2, NeededIs
        <3> QED  BY <1>1, <3>1, <3>2, <3>3 DEF Play!Jump, PlayTypes, Play!NeededPage
    <2> QED  BY <2>1, <2>2, <2>3
<1>5. PlayTypes'
    BY <1>1, <1>3, <1>4 DEF PlayTypes
<1>6. ShownInv'
    BY <1>1, ShownStays
<1>7. PlayedInv'
    <2>1. ~s10'.touched => s6' < Len(s5) /\ (s2 # <<>> => s6' = 0 /\ ~s7')
        <3>1. s6' < Len(s5) \/ s6' = s6
            BY <1>4
        <3>2. Play!handleStop => s6' = 0 /\ ~s7'
            BY DEF Play!handleStop
        <3> QED  BY <1>1, <1>3, <3>1, <3>2 DEF PlayedInv
    <2> QED  BY <1>1, <1>4, <2>1 DEF PlayedInv
<1>8. SelectedInv'
    BY <1>1 DEF SelectedInv
<1> QED  BY <1>5, <1>6, <1>7, <1>8

LEMMA TimerTicks ==
    ASSUME Play!PlaybackAssumption, PlayInv, Play!Tick
    PROVE  PlayInv'
<1> USE DEF PlayInv, Play!Tick
<1>1. s5 \in Seq(PlayRows) /\ Len(s5) \in Nat
    BY PointsFacts DEF PlayTypes
<1>2. s6' \in Nat /\ s8' \in Nat \ {0} /\ s7' \in BOOLEAN
    <2>1. s6 + 1 \in Nat /\ Play!NeededPage(s5, s6 + 1) \in Nat \ {0}
        BY NeededIs DEF PlayTypes
    <2> QED  BY <2>1 DEF PlayTypes
<1>3. PlayTypes'
    BY <1>2 DEF PlayTypes
<1>4. ShownInv'
    BY ShownStays
<1>5. PlayedInv'
    <2> SUFFICES ASSUME s1 = "history"
                 PROVE  /\ s8' = Play!NeededPage(s5, s6)'
                        /\ ~s10.touched => s6' < Len(s5) /\ (s2 # <<>> => s6' = 0 /\ ~s7')
        BY DEF PlayedInv
    <2>1. s8' = Play!NeededPage(s5, s6)'
        BY DEF Play!NeededPage, PlayedInv
    <2>2. ~s10.touched => s2 = <<>> /\ s6 < Len(s5)
        BY DEF PlayedInv
    <2>3. s6' < Len(s5) \/ s6' = s6
        <3>1. s6 \in Nat
            BY DEF PlayTypes
        <3>2. CASE s6 >= Len(s5) - 1
            BY <3>2
        <3>3. CASE ~(s6 >= Len(s5) - 1)
            BY <1>1, <3>1, <3>3
        <3> QED  BY <3>2, <3>3
    <2> QED  BY <2>1, <2>2, <2>3
<1>6. SelectedInv'
    BY DEF SelectedInv
<1> QED  BY <1>3, <1>4, <1>5, <1>6

LEMMA PlayMoves ==
    ASSUME Play!PlaybackAssumption, PlayInv, Play!PlayNext
    PROVE  PlayInv'
<1>1. CASE Play!VehicleArrives
    <2>1. s1 # "map" /\ s11' \in Nat /\ s11' <= ForPlayback.acts /\ Play!Ask
        BY <1>1 DEF Play!VehicleArrives, PlayInv, SelectedInv, PlayTypes
    <2> QED  BY <2>1, RouteAsked
<1>2. CASE Play!Submit
    <2>1. s1 # "map" /\ s11' \in Nat /\ s11' <= ForPlayback.acts /\ Play!Ask
        BY <1>2, PlayNumbers DEF Play!Submit, Play!Act, PlayInv, PlayTypes
    <2> QED  BY <2>1, RouteAsked
<1> QED  BY Zenon, <1>1, <1>2, OtherSelected, RouteAnswered, RouteFailed, PlayControlled, TimerTicks DEF Play!PlayNext

-----------------------------------------------------------------------------
(* What the run checks. *)

ConsoleInv ==
    /\ which \in {"reports", "dashboard", "session", "pages", "views", "feeds", "queries", "ranges", "playback",
                  "onboarding", "renewals"}
    /\ which = "reports" => PointsInv
    /\ which = "dashboard" => DashInv
    /\ which = "session" => SessionInv
    /\ which = "pages" => PageInv
    /\ which = "views" => View!ViewsTypeOK
    /\ which = "feeds" => FeedInv
    /\ which = "queries" => QueryInv
    /\ which = "ranges" => RangeInv
    /\ which = "playback" => PlayInv
    /\ which = "onboarding" => OnboardInv
    /\ which = "renewals" => RenewalInv

(* What leaves the variables alone leaves the invariants alone.            *)
LEMMA SessionRests ==
    ASSUME SessionInv, UNCHANGED <<s1, s2, s3, s4, s5, s6, s7, s8, s9, s10>>
    PROVE  SessionInv'
<1>1. Session!Open' = Session!Open
    BY DEF Session!Open
<1>2. TabsInv'
    BY <1>1 DEF SessionInv, TabsInv
<1>3. WayInv'
    BY <1>1 DEF SessionInv, WayInv
<1> QED  BY <1>2, <1>3 DEF SessionInv

LEMMA DashRests ==
    ASSUME DashInv, UNCHANGED <<s1, s2, s3, s4, s5, s6, s7, s8, s9, s10, s11, s12>>
    PROVE  DashInv'
<1>1. DashTypes'
    BY DEF DashInv, DashTypes
<1> QED  BY <1>1, ListStays, RoomsStay DEF DashInv

LEMMA Assumptions ==
    /\ Report!ReportsAssumption
    /\ Dashboard!DashboardAssumption /\ Session!SessionAssumption
    /\ Page!PagesAssumption /\ View!ViewsAssumption /\ Feed!FeedAssumption
    /\ Query!QueryAssumption /\ Ranges!RangesAssumption /\ Play!PlaybackAssumption
    /\ Onboard!OnboardAssumption /\ Renewal!RenewalsAssumption
  BY ConsoleAssumption

LEMMA ConsoleBegins ==
    ASSUME Init
    PROVE  ConsoleInv
<1>1. which \in {"reports", "dashboard", "session", "pages", "views", "feeds", "queries", "ranges", "playback",
                 "onboarding", "renewals"}
    BY Zenon DEF Init
<1>2. which = "reports" => PointsInv
    <2>1. which = "reports" => Report!ReportsInit
        BY Zenon DEF Init
    <2> QED  BY <2>1, PointsBegin
<1>3. which = "dashboard" => DashInv
    <2>1. which = "dashboard" => Dashboard!DashInit
        BY Zenon DEF Init
    <2> QED  BY <2>1, Assumptions, DashBegins
<1>4. which = "session" => SessionInv
    <2>1. which = "session" => Session!SessionInit
        BY Zenon DEF Init
    <2> QED  BY <2>1, Assumptions, SessionBegins
<1>5. which = "pages" => PageInv
    <2>1. which = "pages" => Page!PageInit
        BY Zenon DEF Init
    <2> QED  BY <2>1, Assumptions, PageBegins
<1>6. which = "views" => View!ViewsTypeOK
    <2>1. which = "views" => View!ViewsInit
        BY Zenon DEF Init
    <2> QED  BY <2>1, Assumptions, ViewsBegin
<1>7. which = "feeds" => FeedInv
    <2>1. which = "feeds" => Feed!FeedInit
        BY Zenon DEF Init
    <2> QED  BY <2>1, Assumptions, FeedBegins
<1>8. which = "queries" => QueryInv
    <2>1. which = "queries" => Query!QueryInit
        BY Zenon DEF Init
    <2> QED  BY <2>1, Assumptions, QueryBegins
<1>9. which = "ranges" => RangeInv
    <2>1. which = "ranges" => Ranges!RangeInit
        BY Zenon DEF Init
    <2> QED  BY <2>1, Assumptions, RangeBegins
<1>10. which = "playback" => PlayInv
    <2>1. which = "playback" => Play!PlayInit
        BY Zenon DEF Init
    <2> QED  BY <2>1, Assumptions, PlayBegins
<1>11. which = "onboarding" => OnboardInv
    <2>1. which = "onboarding" => Onboard!OnboardInit
        BY Zenon DEF Init
    <2> QED  BY <2>1, Assumptions, OnboardBegins
<1>12. which = "renewals" => RenewalInv
    <2>1. which = "renewals" => Renewal!RenewalsInit
        BY Zenon DEF Init
    <2> QED  BY <2>1, Assumptions, RenewalBegins
<1> QED  BY Zenon, <1>1, <1>2, <1>3, <1>4, <1>5, <1>6, <1>7, <1>8, <1>9, <1>10, <1>11, <1>12 DEF ConsoleInv

(* A step is one of the model of the behaviour.                            *)
LEMMA ModelMoves ==
    ASSUME ConsoleInv, Next
    PROVE  ConsoleInv'
<1>1. which' = which
    BY Zenon DEF Next
<1>2. which = "reports" => PointsInv'
    <2>1. which = "reports" => Report!ReportsNext
        BY Zenon DEF Next
    <2> QED  BY <2>1, Assumptions, PointsMove DEF ConsoleInv
<1>3. which = "dashboard" => DashInv'
    <2>1. which = "dashboard" => Dashboard!DashNext
        BY Zenon DEF Next
    <2> QED  BY <2>1, Assumptions, DashMoves DEF ConsoleInv
<1>4. which = "session" => SessionInv'
    <2>1. which = "session" => Session!SessionNext
        BY Zenon DEF Next
    <2> QED  BY <2>1, Assumptions, SessionMoves DEF ConsoleInv
<1>5. which = "pages" => PageInv'
    <2>1. which = "pages" => Page!PageNext
        BY Zenon DEF Next
    <2> QED  BY <2>1, Assumptions, PageMoves DEF ConsoleInv
<1>6. which = "views" => View!ViewsTypeOK'
    <2>1. which = "views" => View!ViewsNext
        BY Zenon DEF Next
    <2> QED  BY <2>1, Assumptions, ViewsMove DEF ConsoleInv
<1>7. which = "feeds" => FeedInv'
    <2>1. which = "feeds" => Feed!FeedNext
        BY Zenon DEF Next
    <2> QED  BY <2>1, Assumptions, FeedMoves DEF ConsoleInv
<1>8. which = "queries" => QueryInv'
    <2>1. which = "queries" => Query!QueryNext
        BY Zenon DEF Next
    <2> QED  BY <2>1, Assumptions, QueryMoves DEF ConsoleInv
<1>9. which = "ranges" => RangeInv'
    <2>1. which = "ranges" => Ranges!RangeNext
        BY Zenon DEF Next
    <2> QED  BY <2>1, Assumptions, RangeMoves DEF ConsoleInv
<1>10. which = "playback" => PlayInv'
    <2>1. which = "playback" => Play!PlayNext
        BY Zenon DEF Next
    <2> QED  BY <2>1, Assumptions, PlayMoves DEF ConsoleInv
<1>11. which = "onboarding" => OnboardInv'
    <2>1. which = "onboarding" => Onboard!OnboardNext
        BY Zenon DEF Next
    <2> QED  BY <2>1, Assumptions, OnboardMoves DEF ConsoleInv
<1>12. which = "renewals" => RenewalInv'
    <2>1. which = "renewals" => Renewal!RenewalsNext
        BY Zenon DEF Next
    <2> QED  BY <2>1, Assumptions, RenewalMoves DEF ConsoleInv
<1> QED  BY Zenon, <1>1, <1>2, <1>3, <1>4, <1>5, <1>6, <1>7, <1>8, <1>9, <1>10, <1>11, <1>12 DEF ConsoleInv

LEMMA ModelRests ==
    ASSUME ConsoleInv, UNCHANGED vars
    PROVE  ConsoleInv'
<1>1. UNCHANGED <<which, s1, s2, s3, s4, s5, s6, s7, s8, s9, s10, s11, s12, s13, s14>>
    BY DEF vars, From3, From5, From7, From8, From9, From10, From11, From12
<1>2. PointsInv => PointsInv'
    BY <1>1, PointsRest
<1>3. DashInv => DashInv'
    BY <1>1, DashRests
<1>4. SessionInv => SessionInv'
    BY <1>1, SessionRests
<1>5. PageInv => PageInv'
    BY <1>1, PageRests
<1>6. View!ViewsTypeOK => View!ViewsTypeOK'
    BY <1>1, ViewsRest
<1>7. FeedInv => FeedInv'
    BY <1>1, FeedRests
<1>8. QueryInv => QueryInv'
    BY <1>1, QueryRests
<1>9. RangeInv => RangeInv'
    BY <1>1, RangeRests
<1>10. PlayInv => PlayInv'
    BY <1>1, PlayRests
<1>11. OnboardInv => OnboardInv'
    BY <1>1, OnboardRests
<1>12. RenewalInv => RenewalInv'
    BY <1>1, RenewalRests
<1>13. which' = which
    BY <1>1
<1>14. which' \in {"reports", "dashboard", "session", "pages", "views", "feeds", "queries", "ranges", "playback",
                    "onboarding", "renewals"}
    BY <1>13 DEF ConsoleInv
<1>15. /\ which' = "reports" => PointsInv'
       /\ which' = "dashboard" => DashInv'
       /\ which' = "session" => SessionInv'
       /\ which' = "pages" => PageInv'
    BY Zenon, <1>2, <1>3, <1>4, <1>5, <1>13 DEF ConsoleInv
<1>16. /\ which' = "views" => View!ViewsTypeOK'
       /\ which' = "feeds" => FeedInv'
       /\ which' = "queries" => QueryInv'
       /\ which' = "ranges" => RangeInv'
    BY Zenon, <1>6, <1>7, <1>8, <1>9, <1>13 DEF ConsoleInv
<1>17. /\ which' = "playback" => PlayInv'
       /\ which' = "onboarding" => OnboardInv'
       /\ which' = "renewals" => RenewalInv'
    BY Zenon, <1>10, <1>11, <1>12, <1>13 DEF ConsoleInv
<1> QED  BY Zenon, <1>14, <1>15, <1>16, <1>17 DEF ConsoleInv

(* Every behaviour of the run keeps the invariants of its model.           *)
THEOREM ConsoleInvariant == Spec => []ConsoleInv
<1> QED  BY ConsoleBegins, ModelMoves, ModelRests, PTL DEF Spec

(* Every model keeps to its types, for any values of its constants.        *)
THEOREM ConsoleTypes == Spec => []TypeOK
<1>1. ConsoleInv => TypeOK
    <2> SUFFICES ASSUME ConsoleInv
                 PROVE  TypeOK
        OBVIOUS
    <2>1. /\ which = "reports" => Report!PointsTypeOK
          /\ which = "views" => View!ViewsTypeOK
        BY DEF ConsoleInv, PointsInv
    <2>2. which = "dashboard" => Dashboard!DashTypeOK
        BY Assumptions, DashAsPromised DEF ConsoleInv
    <2>3. which = "session" => Session!SessionTypeOK
        BY SessionAsPromised DEF ConsoleInv
    <2>4. which = "pages" => Page!PageTypeOK
        BY Assumptions, PageAsPromised DEF ConsoleInv
    <2>5. which = "feeds" => Feed!FeedTypeOK
        BY Assumptions, FeedAsPromised DEF ConsoleInv
    <2>6. which = "queries" => Query!QueryTypeOK
        BY Assumptions, QueryAsPromised DEF ConsoleInv
    <2>7. which = "ranges" => Ranges!RangeTypeOK
        BY Assumptions, RangeAsPromised DEF ConsoleInv
    <2>8. which = "playback" => Play!PlayTypeOK
        BY Assumptions, PlayAsPromised DEF ConsoleInv
    <2>9. which = "onboarding" => Onboard!OnboardTypeOK
        BY Assumptions, OnboardAsPromised DEF ConsoleInv
    <2>10. which = "renewals" => Renewal!RenewalsTypeOK
        BY Assumptions, RenewalAsPromised DEF ConsoleInv
    <2>11. which \in {"reports", "dashboard", "session", "pages", "views", "feeds", "queries", "ranges", "playback",
                      "onboarding", "renewals"}
        BY DEF ConsoleInv
    <2>12. CASE which \in {"reports", "dashboard", "session", "pages", "views"}
        BY <2>1, <2>2, <2>3, <2>4, <2>12 DEF TypeOK
    <2>13. CASE which \in {"feeds", "queries", "ranges"}
        BY <2>5, <2>6, <2>7, <2>13 DEF TypeOK
    <2>14. CASE which \in {"playback", "onboarding", "renewals"}
        BY <2>8, <2>9, <2>10, <2>14 DEF TypeOK
    <2> QED  BY <2>11, <2>12, <2>13, <2>14
<1> QED  BY <1>1, ConsoleInvariant, PTL

(* AuthContext, axios, SocketContext: what a tab sends, the token it       *)
(* returns to after an impersonation and its socket belong to the user it  *)
(* shows, for any number of tabs, users and tokens, unless another tab or  *)
(* a late answer has touched the store that they share.                    *)
THEOREM SessionHeld == Spec => []SessionHolds
<1>1. ConsoleInv => SessionHolds
    BY SessionAsPromised DEF ConsoleInv, SessionHolds
<1> QED  BY <1>1, ConsoleInvariant, PTL

(* useVehicles, VehicleMap, trackingSocket: the list shows the latest of   *)
(* each vehicle once nothing is under way, and the socket is in the room of*)
(* the page and in no other, for any vehicles, versions and pages, but for *)
(* the causes that LiveDashboard names.                                    *)
THEOREM DashboardHeld == Spec => []DashboardHolds
<1>1. ConsoleInv => DashboardHolds
    BY Assumptions, DashAsPromised DEF ConsoleInv, DashboardHolds
<1> QED  BY <1>1, ConsoleInvariant, PTL

(* UsersAdminPage and its like, the report pages, the maps, the onboarding *)
(* and the renewals: what a form stores, a list shows and a panel tells is *)
(* what was meant, is there and is about that record, for any records,     *)
(* vehicles, ranges, rows, tiers and prices, unless answers, forms or other*)
(* users crossed as the models of the pages name.                          *)
THEOREM PagesHeld == Spec => []PagesHold
<1>1. ConsoleInv => PagesHold
    <2> SUFFICES ASSUME ConsoleInv
                 PROVE  PagesHold
        OBVIOUS
    <2>1. which = "pages" => Page!PageHolds
        BY Assumptions, PageAsPromised DEF ConsoleInv
    <2>2. which = "queries" => Query!QueryHolds
        BY Assumptions, QueryAsPromised DEF ConsoleInv
    <2>3. which = "ranges" => Ranges!RangesHold
        BY Assumptions, RangeAsPromised DEF ConsoleInv
    <2>4. which = "playback" => Play!PlaybackHolds
        BY Assumptions, PlayAsPromised DEF ConsoleInv
    <2>5. which = "onboarding" => Onboard!OnboardHolds
        BY Assumptions, OnboardAsPromised DEF ConsoleInv
    <2>6. which = "renewals" => Renewal!RenewalsHold
        BY Assumptions, RenewalAsPromised DEF ConsoleInv
    <2> QED  BY <2>1, <2>2, <2>3, <2>4, <2>5, <2>6 DEF PagesHold
<1> QED  BY <1>1, ConsoleInvariant, PTL

(* vehicleModel, groupModel, orgModel, gpsModel, auditController: lists,   *)
(* details and counts of one caller agree with each other, for any         *)
(* organisations, groups and vehicles, and turning the pages of a list     *)
(* shows every row of it, for any rows and any size of a page, but for     *)
(* those that slip to another page.                                        *)
THEOREM ViewsHeld == Spec => []ViewsHold
<1>1. ConsoleInv => ViewsHold
    <2> SUFFICES ASSUME ConsoleInv
                 PROVE  ViewsHold
        OBVIOUS
    <2>1. which = "views" => View!ViewsHold
        BY Assumptions, ViewsAsPromised DEF ConsoleInv
    <2>2. which = "feeds" => Feed!EveryRowIsSeen
        BY Assumptions, FeedAsPromised DEF ConsoleInv
    <2> QED  BY <2>1, <2>2 DEF ViewsHold
<1> QED  BY <1>1, ConsoleInvariant, PTL
=============================================================================
