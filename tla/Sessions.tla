------------------------------ MODULE Sessions ------------------------------
(***************************************************************************)
(* Logins, rotating refresh tokens and what an access token still allows    *)
(* after its owner lost his rights.  The row of a user is read once, by the *)
(* request that issues his tokens; afterwards only the signed claims are    *)
(* looked at.  Requests run side by side, any of their store calls may      *)
(* fail, and an answer may never arrive.                                    *)
(*                                                                         *)
(* A user is his e-mail address; passwords and signatures are taken to be   *)
(* right.  Nothing in the program writes app_users.status or changes a      *)
(* role: that is done in the database (ChangeUser).                         *)
(***************************************************************************)
EXTENDS Integers, FiniteSets

CONSTANTS User, FirstAdmin,   \* the first admin is inserted by hand
          Token,              \* refresh_tokens.jti
          NoToken,
          Request,            \* HTTP requests served at once
          AccessTTL, RefreshTTL, StateTTL,  \* 15 minutes, 30 days, 10 minutes
          Leeway,             \* jwt.WithLeeway
          Timeout,            \* middleware.Timeout: store calls fail afterwards
          Horizon             \* bound: how long a change of rights is remembered

ASSUME SessionAssumption ==
  /\ FirstAdmin \in User /\ NoToken \notin Token
  /\ AccessTTL \in Nat /\ RefreshTTL \in Nat /\ StateTTL \in Nat
  /\ Leeway \in Nat /\ Timeout \in Nat \ {0}
  /\ Horizon \in Nat /\ Horizon >= Timeout + AccessTTL + Leeway + Timeout + StateTTL + Leeway

\* All times are times left, or passed, as of now.
VARIABLES
  grant,      \* app_users: no row, disabled, or the role of an active user
  changed,    \* history: time since the grant of a user was changed
  buyers,     \* buyers, by the address of the login created with them
  refresh,    \* rows of refresh_tokens
  held,       \* refresh tokens that reached a client
  access,     \* life left of the latest access token clients hold, by user and role
  state,      \* life left of the latest OAuth state signed for a user
  profiles,   \* users whose OAuth flow has connected a profile
  req,        \* what each request is doing
  broken      \* history: sessions that met a failure or an inactive user

rowVars == <<grant, changed, buyers>>
clientVars == <<held, access, state>>
vars == <<rowVars, refresh, clientVars, profiles, req, broken>>

Role == {"admin", "buyer"}
NoRow == [user |-> FirstAdmin, session |-> NoToken, left |-> 0, revoked |-> FALSE]
Rows == [user : User, session : Token \cup {NoToken}, left : 0 .. RefreshTTL, revoked : BOOLEAN]

\* The time left of a token that is of no use any more.
Gone == -Leeway

\* A unit of time passes: for a time left, a life in the store, a time passed.
Aged(left) == IF left > Gone THEN left - 1 ELSE left
Shorter(life) == IF life > 0 THEN life - 1 ELSE life
Longer(time, limit) == IF time < limit THEN time + 1 ELSE time

Idle == [pc |-> "idle", user |-> FirstAdmin, role |-> "buyer", session |-> NoToken,
         token |-> NoToken, age |-> 0, left |-> Gone]
Requests ==
  [pc : {"idle", "user", "issue", "answer", "create", "connect"}, user : User,
   role : Role, session : Token \cup {NoToken}, token : Token \cup {NoToken},
   age : 0 .. Timeout, left : Gone .. AccessTTL]

Stored(t) == refresh[t].session # NoToken
Active(u) == grant[u] \in Role

\* Mutant of InTime: no middleware.Timeout.
NoTimeout(r) == TRUE

InTime(r) == req[r].age < Timeout

Init ==
  /\ grant = [u \in User |-> IF u = FirstAdmin THEN "admin" ELSE "none"]
  /\ changed = [u \in User |-> Horizon] /\ buyers = {}
  /\ refresh = [t \in Token |-> NoRow] /\ held = {}
  /\ access = [u \in User |-> [g \in Role |-> Gone]]
  /\ state = [u \in User |-> Gone] /\ profiles = {}
  /\ req = [r \in Request |-> Idle] /\ broken = {}

-----------------------------------------------------------------------------
(* Login and refresh. *)

\* AppUserByEmail, the status and the password.
Login(r, u) ==
  /\ req[r] = Idle /\ Active(u)
  /\ req' = [req EXCEPT ![r] = [Idle EXCEPT !.pc = "issue", !.user = u, !.role = grant[u]]]
  /\ UNCHANGED <<rowVars, refresh, clientVars, profiles, broken>>

\* Mutants of ConsumeRefreshToken: a token may be revoked again, or takes every
\* session of its user with it.
ConsumeAgain(t) ==
  /\ Stored(t) /\ refresh[t].left > 0
  /\ refresh' = [refresh EXCEPT ![t].revoked = TRUE]
ConsumeAll(t) ==
  /\ Stored(t) /\ ~refresh[t].revoked /\ refresh[t].left > 0
  /\ refresh' = [s \in Token |->
       IF Stored(s) /\ refresh[s].user = refresh[t].user
         THEN [refresh[s] EXCEPT !.revoked = TRUE] ELSE refresh[s]]

\* One UPDATE revokes the token if it is live.
ConsumeRefreshToken(t) ==
  /\ Stored(t) /\ ~refresh[t].revoked /\ refresh[t].left > 0
  /\ refresh' = [refresh EXCEPT ![t].revoked = TRUE]

\* ParseRefreshToken allows the leeway, the row does not.
Refresh(r, t) ==
  /\ req[r] = Idle /\ t \in held
  /\ refresh[t].left + Leeway > 0
  /\ ConsumeRefreshToken(t)
  /\ req' = [req EXCEPT ![r] = [Idle EXCEPT !.pc = "user", !.user = refresh[t].user,
                                 !.session = refresh[t].session]]
  /\ UNCHANGED <<rowVars, clientVars, profiles, broken>>

\* AppUserByID: an inactive user ends the session.
ReadUser(r) ==
  LET u == req[r].user IN
  /\ req[r].pc = "user" /\ InTime(r)
  /\ \/ /\ Active(u)
        /\ req' = [req EXCEPT ![r].pc = "issue", ![r].role = grant[u]]
        /\ UNCHANGED broken
     \/ /\ ~Active(u)
        /\ req' = [req EXCEPT ![r] = Idle]
        /\ broken' = broken \cup {req[r].session}
  /\ UNCHANGED <<rowVars, refresh, clientVars, profiles>>

\* GenerateTokenPair: the refresh token of user u in session s.
NewRow(u, s) == [user |-> u, session |-> s, left |-> RefreshTTL, revoked |-> FALSE]

\* CreateRefreshToken under a jti never used before; a login begins the session
\* that is named for its first token.
IssueTokens(r, t) ==
  LET s == IF req[r].session = NoToken THEN t ELSE req[r].session IN
  /\ req[r].pc = "issue" /\ InTime(r)
  /\ ~Stored(t)
  /\ refresh' = [refresh EXCEPT ![t] = NewRow(req[r].user, s)]
  /\ req' = [req EXCEPT ![r].pc = "answer", ![r].session = s, ![r].token = t,
                        ![r].left = AccessTTL]
  /\ UNCHANGED <<rowVars, clientVars, profiles, broken>>

\* Both tokens reach the client.
Answer(r) ==
  LET u == req[r].user
      g == req[r].role
  IN  /\ req[r].pc = "answer"
      /\ held' = held \cup {req[r].token}
      /\ access' = [access EXCEPT ![u][g] = IF @ < req[r].left THEN req[r].left ELSE @]
      /\ req' = [req EXCEPT ![r] = Idle]
      /\ UNCHANGED <<rowVars, refresh, state, profiles, broken>>

\* A store call fails or is cancelled by the timeout, the server stops, or the
\* answer is lost.
RequestFails(r) ==
  /\ req[r] # Idle
  /\ req' = [req EXCEPT ![r] = Idle]
  /\ broken' = broken \cup ({req[r].session} \ {NoToken})
  /\ UNCHANGED <<rowVars, refresh, clientVars, profiles>>

-----------------------------------------------------------------------------
(* What an access token allows. *)

\* Mutant of Admitted: claims are not validated.
AdmittedEver(u, g) == g \in Role /\ \E t \in held : refresh[t].user = u

\* Middleware and RequireRole(admin): the claims alone decide.
Admitted(u, g) == access[u][g] > Gone

\* An admin asks to create a user; hashing the password takes a while.
BeginCreate(r, u) ==
  /\ req[r] = Idle /\ Admitted(u, "admin")
  /\ req' = [req EXCEPT ![r] = [Idle EXCEPT !.pc = "create", !.user = u, !.role = "admin"]]
  /\ UNCHANGED <<rowVars, refresh, clientVars, profiles, broken>>

\* createUser.  The address is unique; a buyer login needs a buyer.
CreateAppUser(r, v, g) ==
  /\ req[r].pc = "create" /\ InTime(r)
  /\ grant[v] = "none" /\ g \in Role /\ (g = "buyer" => buyers # {})
  /\ grant' = [grant EXCEPT ![v] = g]
  /\ req' = [req EXCEPT ![r] = Idle]
  /\ UNCHANGED <<changed, buyers, refresh, clientVars, profiles, broken>>

\* createBuyer: buyer and login in one transaction.
CreateBuyerWithUser(r, v) ==
  /\ req[r].pc = "create" /\ InTime(r)
  /\ grant[v] = "none"
  /\ grant' = [grant EXCEPT ![v] = "buyer"] /\ buyers' = buyers \cup {v}
  /\ req' = [req EXCEPT ![r] = Idle]
  /\ UNCHANGED <<changed, refresh, clientVars, profiles, broken>>

\* oauthStart: the state is signed at once and goes to the browser.
OAuthStart(u) ==
  /\ Admitted(u, "admin")
  /\ state' = [state EXCEPT ![u] = StateTTL]
  /\ UNCHANGED <<rowVars, refresh, held, access, profiles, req, broken>>

\* oauthCallback: only the signature and the age of the state are checked.
OAuthCallback(r, u) ==
  /\ req[r] = Idle /\ state[u] > Gone
  /\ req' = [req EXCEPT ![r] = [Idle EXCEPT !.pc = "connect", !.user = u]]
  /\ UNCHANGED <<rowVars, refresh, clientVars, profiles, broken>>

UpsertFBProfile(r) ==
  /\ req[r].pc = "connect" /\ InTime(r)
  /\ profiles' = profiles \cup {req[r].user}
  /\ req' = [req EXCEPT ![r] = Idle]
  /\ UNCHANGED <<rowVars, refresh, clientVars, broken>>

-----------------------------------------------------------------------------
(* The environment. *)

\* The database administrator disables, enables or moves a user.
ChangeUser(u, g) ==
  /\ grant[u] # "none" /\ g \in {"disabled"} \cup Role /\ g # grant[u]
  /\ g = "buyer" => buyers # {}
  /\ grant' = [grant EXCEPT ![u] = g]
  /\ changed' = [changed EXCEPT ![u] = 0]
  /\ UNCHANGED <<buyers, refresh, clientVars, profiles, req, broken>>

Tick ==
  /\ changed' = [u \in User |-> Longer(changed[u], Horizon)]
  /\ refresh' = [t \in Token |-> [refresh[t] EXCEPT !.left = Shorter(@)]]
  /\ access' = [u \in User |-> [g \in Role |-> Aged(access[u][g])]]
  /\ state' = [u \in User |-> Aged(state[u])]
  /\ req' = [r \in Request |-> IF req[r] = Idle THEN Idle
                               ELSE [req[r] EXCEPT !.age = Longer(@, Timeout), !.left = Aged(@)]]
  /\ UNCHANGED <<grant, buyers, held, profiles, broken>>

RequestStep(r) ==
  \/ ReadUser(r) \/ Answer(r) \/ RequestFails(r)
  \/ UpsertFBProfile(r)
  \/ \E u \in User :
       \/ Login(r, u) \/ BeginCreate(r, u) \/ CreateBuyerWithUser(r, u)
       \/ OAuthCallback(r, u)
       \/ \E g \in Role : CreateAppUser(r, u, g)
  \/ \E t \in Token : Refresh(r, t) \/ IssueTokens(r, t)

Next ==
  \/ Tick
  \/ \E r \in Request : RequestStep(r)
  \/ \E u \in User : OAuthStart(u) \/ \E g \in {"disabled"} \cup Role : ChangeUser(u, g)

Spec == Init /\ [][Next]_vars

-----------------------------------------------------------------------------
TypeOK ==
  /\ grant \in [User -> Role \cup {"none", "disabled"}]
  /\ changed \in [User -> 0 .. Horizon] /\ buyers \subseteq User
  /\ refresh \in [Token -> Rows]
  /\ held \subseteq Token
  /\ access \in [User -> [Role -> Gone .. AccessTTL]] /\ state \in [User -> Gone .. StateTTL]
  /\ profiles \subseteq User
  /\ req \in [Request -> Requests]
  /\ \A r \in Request : /\ req[r].pc = "user" => req[r].session \in Token
                        /\ req[r].pc = "answer" => req[r].token \in Token
  /\ broken \subseteq Token

\* The sessions as chains of tokens.
Usable(s) == {t \in Token : Stored(t) /\ ~refresh[t].revoked /\ refresh[t].session = s}
Renewing == {s \in Token : \E r \in Request : req[r].pc \in {"user", "issue"} /\ req[r].session = s}
Chain == INSTANCE SessionChain WITH
  usable <- [s \in Token |-> Usable(s)],
  renewing <- Renewing,
  spent <- {t \in Token : refresh[t].revoked}

\* "Refresh tokens are single-use": whatever requests run at once and wherever
\* they fail, a session has one redeemable token at most, redeems it once, and
\* goes on with the token that came for it.
RefinesChain == Chain!Spec

\* A session that met no failure and no inactive user goes on for as long as its
\* tokens live: its client holds the token that can be redeemed, or a request is
\* about to bring one.
SessionGoesOn ==
  \A t \in held :
    LET s == refresh[t].session IN
    \/ s \in broken \/ s \in Renewing
    \/ \E n \in Usable(s) : n \in held \/ \E r \in Request : req[r].token = n

\* An access token outlives a right its owner has lost, but not by more than the
\* refresh that was under way, the life of the token and the leeway.
RightsFade ==
  \A u \in User, g \in Role :
    Admitted(u, g) /\ g # grant[u] => changed[u] < Timeout + AccessTTL + Leeway

\* What a former admin has set going comes to an end: users he may still create,
\* and profiles his OAuth flows may still connect.
FormerAdminStops ==
  \A r \in Request :
    LET u == req[r].user
        limit == Timeout + AccessTTL + Leeway + Timeout
    IN  InTime(r) /\ grant[u] # "admin" =>
          /\ req[r].pc = "create" => changed[u] < limit
          /\ req[r].pc = "connect" => changed[u] < limit + StateTTL + Leeway
=============================================================================
