--------------------------- MODULE SessionsProofs ---------------------------
(* Proofs about Sessions, for any users, tokens, requests and durations.    *)
EXTENDS Sessions, TLAPS

\* The sessions stay within their types, whatever requests run side by side.
LEMMA TypeInit == Init => TypeOK
BY SessionAssumption DEF Init, TypeOK, Idle, Requests, Role, Gone, Rows, NoRow

\* The helpers of Tick keep their ranges.
LEMMA AgedRange ==
  ASSUME NEW limit \in Nat, NEW left \in Gone .. limit PROVE Aged(left) \in Gone .. limit
BY SessionAssumption DEF Aged, Gone

LEMMA LongerRange ==
  ASSUME NEW limit \in Nat, NEW time \in 0 .. limit PROVE Longer(time, limit) \in 0 .. limit
BY DEF Longer

LEMMA ShorterRange ==
  ASSUME NEW life \in 0 .. RefreshTTL PROVE Shorter(life) \in 0 .. RefreshTTL
BY SessionAssumption DEF Shorter

\* What TypeOK says of one request, and of a step that sets one request.
ReqOK(q) == /\ q \in Requests
            /\ q.pc = "user" => q.session \in Token
            /\ q.pc = "answer" => q.token \in Token
ReqsOK == req \in [Request -> Requests] /\ \A r \in Request : ReqOK(req[r])

LEMMA IdleOK == ReqOK(Idle) /\ Idle.pc = "idle"
BY SessionAssumption DEF ReqOK, Idle, Requests, Role, Gone

LEMMA SetRequest ==
  ASSUME ReqsOK, NEW r \in Request, NEW q, ReqOK(q), req' = [req EXCEPT ![r] = q]
  PROVE  ReqsOK'
<1>1. \A p \in Request : req'[p] = IF p = r THEN q ELSE req[p]
  BY DEF ReqsOK
<1>2. req' \in [Request -> Requests]
  BY DEF ReqsOK, ReqOK
<1> QED BY <1>1, <1>2 DEF ReqsOK, ReqOK

LEMMA TypeReqs == ASSUME TypeOK PROVE ReqsOK
<1>1. req \in [Request -> Requests]
  BY DEF TypeOK
<1>2. \A r \in Request : /\ req[r].pc = "user" => req[r].session \in Token
                         /\ req[r].pc = "answer" => req[r].token \in Token
  BY DEF TypeOK
<1>3. \A r \in Request : req[r] \in Requests
  BY <1>1
<1>4. ASSUME NEW r \in Request PROVE ReqOK(req[r])
  BY <1>2, <1>3 DEF ReqOK
<1> QED BY <1>1, <1>4 DEF ReqsOK

\* The parts of TypeOK but the requests.
RowsOK ==
  /\ grant \in [User -> Role \cup {"none", "disabled"}]
  /\ changed \in [User -> 0 .. Horizon] /\ buyers \subseteq User
  /\ refresh \in [Token -> Rows]
  /\ held \subseteq Token
  /\ access \in [User -> [Role -> Gone .. AccessTTL]] /\ state \in [User -> Gone .. StateTTL]
  /\ profiles \subseteq User /\ broken \subseteq Token

LEMMA TypeParts == (TypeOK => RowsOK) /\ (RowsOK /\ ReqsOK => TypeOK)
<1>1. TypeOK => RowsOK
  BY DEF TypeOK, RowsOK
<1>2. RowsOK /\ ReqsOK => TypeOK
  BY DEF TypeOK, RowsOK, ReqsOK, ReqOK
<1> QED BY <1>1, <1>2

LEMMA TickType == ASSUME TypeOK, Tick PROVE TypeOK'
<1>1. changed' \in [User -> 0 .. Horizon]
  <2>1. changed \in [User -> 0 .. Horizon]
    BY DEF TypeOK
  <2>2. \A u \in User : Longer(changed[u], Horizon) \in 0 .. Horizon
    BY <2>1, LongerRange, SessionAssumption
  <2> QED BY <2>2 DEF Tick
<1>2. refresh' \in [Token -> Rows]
  <2> SUFFICES ASSUME NEW t \in Token
               PROVE  [refresh[t] EXCEPT !.left = Shorter(@)] \in Rows
    BY DEF Tick
  <2>1. refresh[t] \in Rows /\ Shorter(refresh[t].left) \in 0 .. RefreshTTL
    BY ShorterRange DEF Rows, TypeOK
  <2> QED BY <2>1 DEF Rows
<1>3. access' \in [User -> [Role -> Gone .. AccessTTL]]
  <2>1. access \in [User -> [Role -> Gone .. AccessTTL]]
    BY DEF TypeOK
  <2>2. \A u \in User : \A g \in Role : Aged(access[u][g]) \in Gone .. AccessTTL
    BY <2>1, AgedRange, SessionAssumption
  <2>3. \A u \in User : [g \in Role |-> Aged(access[u][g])] \in [Role -> Gone .. AccessTTL]
    BY <2>2
  <2>4. access' = [u \in User |-> [g \in Role |-> Aged(access[u][g])]]
    BY DEF Tick
  <2> QED BY <2>3, <2>4, Zenon
<1>4. state' \in [User -> Gone .. StateTTL]
  <2>1. state \in [User -> Gone .. StateTTL]
    BY DEF TypeOK
  <2> QED BY <2>1, AgedRange, SessionAssumption DEF Tick
<1>5. ASSUME NEW r \in Request PROVE ReqOK(req'[r])
  <2>1. ReqOK(req[r])
    BY TypeReqs DEF ReqsOK
  <2>2. CASE req[r] = Idle
    BY <2>2, IdleOK DEF Tick
  <2>3. CASE req[r] # Idle
    <3>1. req'[r] = [req[r] EXCEPT !.age = Longer(@, Timeout), !.left = Aged(@)]
      BY <2>3 DEF Tick
    <3>2. Longer(req[r].age, Timeout) \in 0 .. Timeout /\ Aged(req[r].left) \in Gone .. AccessTTL
      BY <2>1, LongerRange, AgedRange, SessionAssumption DEF Requests, ReqOK
    <3> QED BY <2>1, <3>1, <3>2 DEF Requests, ReqOK
  <2> QED BY <2>2, <2>3
<1>6. ReqsOK'
  BY <1>5 DEF ReqsOK, ReqOK, Tick
<1>7. RowsOK'
  BY <1>1, <1>2, <1>3, <1>4 DEF RowsOK, Tick, TypeOK
<1> QED BY <1>6, <1>7 DEF TypeOK, RowsOK, ReqsOK, ReqOK

LEMMA TypeStep == TypeOK /\ [Next]_vars => TypeOK'
<1> SUFFICES ASSUME TypeOK, [Next]_vars PROVE TypeOK'
  OBVIOUS
<1> RowsOK /\ ReqsOK
  BY TypeParts, TypeReqs
<1>t. RowsOK' /\ ReqsOK' => TypeOK'
  BY DEF TypeOK, RowsOK, ReqsOK, ReqOK
<1>0. CASE UNCHANGED vars
  BY <1>0 DEF vars, rowVars, clientVars, TypeOK
<1>1. CASE Tick
  BY <1>1, TickType
<1>2. ASSUME NEW r \in Request, RequestStep(r) PROVE TypeOK'
  <2>a. ReqOK(req[r]) /\ req[r].user \in User /\ req[r].role \in Role
        /\ req[r].session \in Token \cup {NoToken} /\ req[r].age \in 0 .. Timeout
        /\ req[r].left \in Gone .. AccessTTL /\ req[r].token \in Token \cup {NoToken}
    BY DEF ReqsOK, ReqOK, Requests
  <2>b. req' = [req EXCEPT ![r] = Idle] => ReqsOK'
    BY SetRequest, IdleOK
  <2>1. CASE ReadUser(r)
    <3> DEFINE q == [req[r] EXCEPT !.pc = "issue", !.role = grant[req[r].user]]
    <3>1. CASE Active(req[r].user) /\ req' = [req EXCEPT ![r].pc = "issue",
                                                ![r].role = grant[req[r].user]]
               /\ UNCHANGED broken
      <4>1. ReqOK(q)
        BY <2>a, <3>1 DEF ReqOK, Requests, Active
      <4>2. req' = [req EXCEPT ![r] = q]
        BY <3>1 DEF ReqsOK
      <4>3. ReqsOK'
        BY <4>1, <4>2, SetRequest
      <4> QED BY <1>t, <2>1, <3>1, <4>3 DEF ReadUser, RowsOK, rowVars, clientVars
    <3>2. CASE req' = [req EXCEPT ![r] = Idle] /\ broken' = broken \cup {req[r].session}
      <4>1. req[r].session \in Token
        BY <2>1, <2>a DEF ReadUser, ReqOK
      <4> QED BY <1>t, <2>1, <2>b, <3>2, <4>1 DEF ReadUser, RowsOK, rowVars, clientVars
    <3> QED BY <2>1, <3>1, <3>2 DEF ReadUser
  <2>2. ASSUME NEW t \in Token, IssueTokens(r, t) PROVE TypeOK'
    <3> DEFINE s == IF req[r].session = NoToken THEN t ELSE req[r].session
               row == NewRow(req[r].user, s)
               q == [req[r] EXCEPT !.pc = "answer", !.session = s, !.token = t, !.left = AccessTTL]
    <3>1. s \in Token
      BY <2>a
    <3>2. row \in Rows
      BY <2>a, <3>1, SessionAssumption DEF Rows, NewRow
    <3>3. ReqOK(q)
      <4> HIDE DEF s
      <4>1. AccessTTL \in Gone .. AccessTTL
        BY SessionAssumption DEF Gone
      <4> QED BY <2>a, <3>1, <4>1 DEF ReqOK, Requests
    <3>4. req' = [req EXCEPT ![r] = q] /\ refresh' = [refresh EXCEPT ![t] = row]
      BY <2>2 DEF IssueTokens, ReqsOK
    <3> HIDE DEF row, q
    <3>5. ReqsOK'
      BY <3>3, <3>4, SetRequest
    <3> QED BY <1>t, <2>2, <3>2, <3>4, <3>5 DEF IssueTokens, RowsOK, rowVars, clientVars
  <2>3. CASE Answer(r)
    <3>1. access' \in [User -> [Role -> Gone .. AccessTTL]]
      <4> DEFINE row == access[req[r].user]
                 more == IF row[req[r].role] < req[r].left THEN req[r].left ELSE row[req[r].role]
      <4>1. row \in [Role -> Gone .. AccessTTL] /\ more \in Gone .. AccessTTL
        BY <2>a DEF RowsOK
      <4>2. access' = [access EXCEPT ![req[r].user] = [row EXCEPT ![req[r].role] = more]]
        BY <2>3, <4>1, <2>a DEF Answer, RowsOK
      <4> HIDE DEF row, more
      <4> QED BY <2>a, <4>1, <4>2 DEF RowsOK
    <3>2. held' \subseteq Token
      BY <2>3, <2>a DEF Answer, ReqOK, RowsOK
    <3> QED BY <1>t, <2>3, <2>b, <3>1, <3>2 DEF Answer, RowsOK, rowVars
  <2>4. CASE RequestFails(r)
    BY <1>t, <2>4, <2>a, <2>b DEF RequestFails, RowsOK, rowVars, clientVars
  <2>5. CASE UpsertFBProfile(r)
    BY <1>t, <2>5, <2>a, <2>b DEF UpsertFBProfile, RowsOK, rowVars, clientVars
  <2>6. ASSUME NEW u \in User, Login(r, u) PROVE TypeOK'
    <3>1. ReqOK([Idle EXCEPT !.pc = "issue", !.user = u, !.role = grant[u]])
      BY <2>6, IdleOK DEF Login, Active, ReqOK, Requests, Idle
    <3>2. ReqsOK'
      BY <2>6, <3>1, SetRequest DEF Login
    <3> QED BY <1>t, <2>6, <3>2 DEF Login, RowsOK, rowVars, clientVars
  <2>7. ASSUME NEW u \in User, BeginCreate(r, u) PROVE TypeOK'
    <3>1. ReqOK([Idle EXCEPT !.pc = "create", !.user = u, !.role = "admin"])
      BY IdleOK DEF ReqOK, Requests, Idle, Role
    <3>2. ReqsOK'
      BY <2>7, <3>1, SetRequest DEF BeginCreate
    <3> QED BY <1>t, <2>7, <3>2 DEF BeginCreate, RowsOK, rowVars, clientVars
  <2>8. ASSUME NEW u \in User, CreateBuyerWithUser(r, u) PROVE TypeOK'
    BY <1>t, <2>8, <2>b DEF CreateBuyerWithUser, RowsOK, Role, clientVars
  <2>9. ASSUME NEW u \in User, OAuthCallback(r, u) PROVE TypeOK'
    <3>1. ReqOK([Idle EXCEPT !.pc = "connect", !.user = u])
      BY IdleOK DEF ReqOK, Requests, Idle
    <3>2. ReqsOK'
      BY <2>9, <3>1, SetRequest DEF OAuthCallback
    <3> QED BY <1>t, <2>9, <3>2 DEF OAuthCallback, RowsOK, rowVars, clientVars
  <2>10. ASSUME NEW u \in User, NEW g \in Role, CreateAppUser(r, u, g) PROVE TypeOK'
    BY <1>t, <2>10, <2>b DEF CreateAppUser, RowsOK, clientVars
  <2>11. ASSUME NEW t \in Token, Refresh(r, t) PROVE TypeOK'
    <3>1. refresh[t] \in Rows /\ refresh[t].session \in Token
      BY <2>11 DEF Refresh, ConsumeRefreshToken, Stored, RowsOK, Rows
    <3>2. refresh' \in [Token -> Rows]
      BY <2>11, <3>1 DEF Refresh, ConsumeRefreshToken, Rows, RowsOK
    <3>3. ReqOK([Idle EXCEPT !.pc = "user", !.user = refresh[t].user,
                             !.session = refresh[t].session])
      BY <3>1, IdleOK DEF ReqOK, Requests, Idle, Rows
    <3>4. ReqsOK'
      BY <2>11, <3>3, SetRequest DEF Refresh
    <3> QED BY <1>t, <2>11, <3>2, <3>4 DEF Refresh, RowsOK, rowVars, clientVars
  <2> QED BY <1>2, <2>1, <2>2, <2>3, <2>4, <2>5, <2>6, <2>7, <2>8, <2>9, <2>10, <2>11
          DEF RequestStep
<1>3. ASSUME NEW u \in User, OAuthStart(u) PROVE TypeOK'
  BY <1>3, SessionAssumption DEF OAuthStart, rowVars, TypeOK, Gone
<1>4. ASSUME NEW u \in User, NEW g \in {"disabled"} \cup Role, ChangeUser(u, g)
      PROVE  TypeOK'
  BY <1>4, SessionAssumption DEF ChangeUser, clientVars, TypeOK
<1> QED BY <1>0, <1>1, <1>2, <1>3, <1>4 DEF Next

THEOREM TypeCorrect == Spec => []TypeOK
<1>1. Init => TypeOK
  BY TypeInit
<1>2. TypeOK /\ [Next]_vars => TypeOK'
  BY TypeStep
<1> QED BY <1>1, <1>2, PTL DEF Spec

-----------------------------------------------------------------------------
(* How long a lost right is felt.  What a user no longer has is carried by a *)
(* request that read his row before, by a token or state signed from it, and *)
(* by what these have started; each carrier bounds the time that has passed. *)

ReqFades(q) ==
  LET lost == changed[q.user]
      now == grant[q.user]
  IN  /\ q.pc = "issue" /\ q.age < Timeout /\ q.role # now => lost <= q.age
      /\ q.pc = "answer" /\ q.left > Gone /\ q.role # now => lost + q.left < Timeout + AccessTTL
      /\ q.pc = "create" /\ q.age < Timeout /\ now # "admin" =>
           lost < Timeout + AccessTTL + Leeway + q.age
      /\ q.pc = "connect" /\ q.age < Timeout /\ now # "admin" =>
           lost < Timeout + AccessTTL + Leeway + StateTTL + Leeway + q.age

AccessFades(u) ==
  \A g \in Role : access[u][g] > Gone /\ g # grant[u] =>
                    changed[u] + access[u][g] < Timeout + AccessTTL

StateFades(u) ==
  state[u] > Gone /\ grant[u] # "admin" =>
    changed[u] + state[u] < Timeout + AccessTTL + Leeway + StateTTL

RequestsFade == \A r \in Request : ReqFades(req[r])
ClientsFade == \A u \in User : AccessFades(u) /\ StateFades(u)
Fading == RequestsFade /\ ClientsFade

LEMMA IdleFades == ReqFades(Idle) /\ ReqFades(Idle)'
BY DEF ReqFades, Idle

\* Setting one request leaves the others as they fade.
LEMMA SetFading ==
  ASSUME ReqsOK, RequestsFade, NEW r \in Request, NEW q, ReqFades(q),
         UNCHANGED <<grant, changed>>, req' = [req EXCEPT ![r] = q]
  PROVE  RequestsFade'
<1> SUFFICES ASSUME NEW p \in Request PROVE ReqFades(req[p])'
  BY DEF RequestsFade
<1>1. CASE p = r
  BY <1>1 DEF ReqFades, ReqsOK
<1>2. CASE p # r
  BY <1>2 DEF ReqFades, ReqsOK, RequestsFade
<1> QED BY <1>1, <1>2

\* What the types say of the times.
LEMMA Times ==
  ASSUME TypeOK
  PROVE  /\ \A u \in User : /\ changed[u] \in Int /\ changed[u] >= 0
                           /\ state[u] \in Int /\ state[u] >= Gone /\ state[u] <= StateTTL
                           /\ \A g \in Role : /\ access[u][g] \in Int /\ access[u][g] >= Gone
                                              /\ access[u][g] <= AccessTTL
         /\ \A r \in Request : /\ req[r].user \in User /\ req[r].role \in Role
                               /\ req[r].age \in Int /\ req[r].age >= 0 /\ req[r].age <= Timeout
                               /\ req[r].left \in Int /\ req[r].left >= Gone
                               /\ req[r].left <= AccessTTL
         /\ {Gone, Timeout, AccessTTL, StateTTL, Leeway, Horizon} \subseteq Int
         /\ Gone = -Leeway /\ Timeout > 0 /\ AccessTTL >= 0 /\ StateTTL >= 0 /\ Leeway >= 0
<1> USE SessionAssumption DEF Gone
<1>1. ASSUME NEW u \in User
      PROVE  /\ changed[u] \in Int /\ changed[u] >= 0
             /\ state[u] \in Int /\ state[u] >= Gone /\ state[u] <= StateTTL
  BY DEF TypeOK
<1>2. ASSUME NEW u \in User, NEW g \in Role
      PROVE  access[u][g] \in Int /\ access[u][g] >= Gone /\ access[u][g] <= AccessTTL
  BY DEF TypeOK
<1>3. ASSUME NEW r \in Request
      PROVE  /\ req[r].user \in User /\ req[r].role \in Role
             /\ req[r].age \in Int /\ req[r].age >= 0 /\ req[r].age <= Timeout
             /\ req[r].left \in Int /\ req[r].left >= Gone /\ req[r].left <= AccessTTL
  BY DEF TypeOK, Requests
<1> QED BY <1>1, <1>2, <1>3

LEMMA FadeInit == Init => Fading
BY SessionAssumption DEF Init, Fading, RequestsFade, ClientsFade, AccessFades, StateFades, ReqFades,
     Idle, Gone

LEMMA FadeTick == ASSUME TypeOK, Fading, Tick PROVE Fading'
<1> USE Times
<1>1. ASSUME NEW u \in User PROVE changed'[u] <= changed[u] + 1 /\ changed'[u] \in Int
  <2>1. changed'[u] = Longer(changed[u], Horizon)
    BY DEF Tick
  <2> QED BY <2>1 DEF Longer
<1>2. ASSUME NEW u \in User PROVE AccessFades(u)'
  <2> SUFFICES ASSUME NEW g \in Role, access'[u][g] > Gone, g # grant[u]
               PROVE  changed'[u] + access'[u][g] < Timeout + AccessTTL
    BY DEF AccessFades, Tick
  <2>1. access'[u][g] = Aged(access[u][g])
    BY DEF Tick
  <2>2. access[u][g] > Gone /\ access'[u][g] = access[u][g] - 1
    BY <2>1 DEF Aged
  <2>3. changed[u] + access[u][g] < Timeout + AccessTTL
    BY <2>2 DEF Fading, ClientsFade, AccessFades
  <2> QED BY <1>1, <2>2, <2>3
<1>3. ASSUME NEW u \in User PROVE StateFades(u)'
  <2> SUFFICES ASSUME state'[u] > Gone, grant[u] # "admin"
               PROVE  changed'[u] + state'[u] < Timeout + AccessTTL + Leeway + StateTTL
    BY DEF StateFades, Tick
  <2>1. state[u] > Gone /\ state'[u] = state[u] - 1
    BY DEF Tick, Aged
  <2>2. changed[u] + state[u] < Timeout + AccessTTL + Leeway + StateTTL
    BY <2>1 DEF Fading, ClientsFade, StateFades
  <2> QED BY <1>1, <2>1, <2>2
<1>4. ASSUME NEW r \in Request PROVE ReqFades(req[r])'
  <2>1. CASE req[r] = Idle
    BY <2>1 DEF Tick, ReqFades, Idle
  <2>2. CASE req[r] # Idle
    <3>1. req'[r] = [req[r] EXCEPT !.age = Longer(@, Timeout), !.left = Aged(@)]
      BY <2>2 DEF Tick
    <3>2. /\ req'[r].pc = req[r].pc /\ req'[r].user = req[r].user /\ req'[r].role = req[r].role
          /\ req'[r].age = Longer(req[r].age, Timeout) /\ req'[r].left = Aged(req[r].left)
      BY <3>1 DEF TypeOK, Requests
    <3>3. req'[r].age < Timeout => req[r].age < Timeout /\ req'[r].age = req[r].age + 1
      BY <3>2 DEF Longer
    <3>4. req'[r].left > Gone => req[r].left > Gone /\ req'[r].left = req[r].left - 1
      BY <3>2 DEF Aged
    <3>5. ReqFades(req[r])
      BY DEF Fading, RequestsFade
    <3>6. grant' = grant /\ req[r].user \in User
      BY DEF Tick
    <3> HIDE DEF Gone
    <3> QED BY <1>1, <3>2, <3>3, <3>4, <3>5, <3>6 DEF ReqFades
  <2> QED BY <2>1, <2>2
<1> QED BY <1>2, <1>3, <1>4 DEF Fading, RequestsFade, ClientsFade

LEMMA FadeRequest ==
  ASSUME TypeOK, Fading, NEW r \in Request, RequestStep(r) PROVE Fading'
<1> USE Times
<1>q. ReqsOK /\ RequestsFade /\ ClientsFade
  BY TypeReqs DEF Fading
<1>r. ReqFades(req[r]) /\ req[r].user \in User
  BY <1>q DEF RequestsFade
<1>a. UNCHANGED <<grant, changed, access>> => \A u \in User : AccessFades(u)'
  BY <1>q DEF ClientsFade, AccessFades
<1>s. UNCHANGED <<grant, changed, state>> => \A u \in User : StateFades(u)'
  BY <1>q DEF ClientsFade, StateFades
<1>c. UNCHANGED <<grant, changed, access, state>> => ClientsFade'
  BY <1>a, <1>s DEF ClientsFade
<1>i. UNCHANGED <<grant, changed>> /\ req' = [req EXCEPT ![r] = Idle] => RequestsFade'
  BY <1>q, IdleFades, SetFading
\* A login or a buyer for an address that had none: what carries more than the
\* new grant carried more than no grant.
<1>n. ASSUME NEW v \in User, NEW g \in Role, grant[v] = "none",
             grant' = [grant EXCEPT ![v] = g], UNCHANGED <<changed, access, state>>,
             req' = [req EXCEPT ![r] = Idle]
      PROVE  Fading'
  <2>1. \A u \in User : grant'[u] # grant[u] => grant[u] = "none"
    BY <1>n DEF TypeOK
  <2>2. ASSUME NEW u \in User PROVE AccessFades(u)' /\ StateFades(u)'
    BY <1>n, <1>q, <2>1 DEF ClientsFade, AccessFades, StateFades, Role
  <2>3. ASSUME NEW p \in Request PROVE ReqFades(req[p])'
    <3>1. CASE p = r
      BY <1>n, <3>1 DEF ReqFades, Idle, ReqsOK, TypeOK
    <3>2. CASE p # r
      <4>1. req'[p] = req[p] /\ ReqFades(req[p])
        BY <1>n, <1>q, <3>2 DEF ReqsOK, RequestsFade
      <4> QED BY <1>n, <2>1, <4>1 DEF ReqFades, Role
    <3> QED BY <3>1, <3>2
  <2> QED BY <2>2, <2>3 DEF Fading, RequestsFade, ClientsFade
<1>1. CASE ReadUser(r)
  <2> DEFINE q == [req[r] EXCEPT !.pc = "issue", !.role = grant[req[r].user]]
  <2>1. CASE req' = [req EXCEPT ![r].pc = "issue", ![r].role = grant[req[r].user]]
    <3>1. ReqFades(q)
      BY <1>q DEF ReqFades, ReqsOK, Requests
    <3>2. req' = [req EXCEPT ![r] = q]
      BY <2>1, <1>q DEF ReqsOK
    <3>3. RequestsFade'
      BY <1>1, <1>q, <3>1, <3>2, SetFading DEF ReadUser, rowVars
    <3> QED BY <1>1, <1>c, <3>3 DEF ReadUser, rowVars, clientVars, Fading
  <2>2. CASE req' = [req EXCEPT ![r] = Idle]
    BY <1>1, <1>c, <1>i, <2>2 DEF ReadUser, rowVars, clientVars, Fading
  <2> QED BY <1>1, <2>1, <2>2 DEF ReadUser
<1>2. ASSUME NEW t \in Token, IssueTokens(r, t) PROVE Fading'
  <2> DEFINE s == IF req[r].session = NoToken THEN t ELSE req[r].session
             q == [req[r] EXCEPT !.pc = "answer", !.session = s, !.token = t, !.left = AccessTTL]
  <2>1. req' = [req EXCEPT ![r] = q]
    BY <1>2, <1>q DEF IssueTokens, ReqsOK
  <2>2. /\ q.pc = "answer" /\ q.left = AccessTTL /\ q.user = req[r].user /\ q.role = req[r].role
    BY <1>q DEF ReqsOK, ReqOK, Requests
  <2>3. req[r].role # grant[req[r].user] => changed[req[r].user] < Timeout
    BY <1>2, <1>r DEF IssueTokens, InTime, ReqFades
  <2> HIDE DEF q
  <2>4. ReqFades(q)
    BY <1>r, <2>2, <2>3 DEF ReqFades
  <2>5. RequestsFade'
    BY <1>2, <1>q, <2>1, <2>4, SetFading DEF IssueTokens, rowVars
  <2> QED BY <1>2, <1>c, <2>5 DEF IssueTokens, rowVars, clientVars, Fading
<1>3. CASE Answer(r)
  <2> DEFINE v == req[r].user
             h == req[r].role
             more == IF access[v][h] < req[r].left THEN req[r].left ELSE access[v][h]
  <2>1. \A u \in User, g \in Role :
          access'[u][g] = IF u = v /\ g = h THEN more ELSE access[u][g]
    BY <1>3, <1>r DEF Answer, TypeOK
  <2>2. more > Gone /\ h # grant[v] => changed[v] + more < Timeout + AccessTTL
    BY <1>3, <1>q, <1>r DEF Answer, ReqFades, ClientsFade, AccessFades
  <2>3. ASSUME NEW u \in User PROVE AccessFades(u)'
    <3> SUFFICES ASSUME NEW g \in Role, access'[u][g] > Gone, g # grant[u]
                 PROVE  changed[u] + access'[u][g] < Timeout + AccessTTL
      BY <1>3 DEF Answer, rowVars, AccessFades
    <3> HIDE DEF more
    <3>1. CASE u = v /\ g = h
      BY <2>1, <2>2, <3>1
    <3>2. CASE ~(u = v /\ g = h)
      BY <1>q, <2>1, <3>2 DEF ClientsFade, AccessFades
    <3> QED BY <3>1, <3>2
  <2> QED BY <1>3, <1>i, <1>s, <2>3 DEF Answer, rowVars, Fading, ClientsFade
<1>4. CASE RequestFails(r) \/ UpsertFBProfile(r)
  BY <1>4, <1>c, <1>i DEF RequestFails, UpsertFBProfile, rowVars, clientVars, Fading
<1>5. ASSUME NEW u \in User, Login(r, u) PROVE Fading'
  <2>1. ReqFades([Idle EXCEPT !.pc = "issue", !.user = u, !.role = grant[u]])
    BY DEF ReqFades, Idle
  <2>2. RequestsFade'
    BY <1>5, <1>q, <2>1, SetFading DEF Login, rowVars
  <2> QED BY <1>5, <1>c, <2>2 DEF Login, rowVars, clientVars, Fading
<1>6. ASSUME NEW u \in User, BeginCreate(r, u) PROVE Fading'
  <2>1. grant[u] # "admin" => changed[u] < Timeout + AccessTTL + Leeway
    BY <1>6, <1>q DEF BeginCreate, Admitted, ClientsFade, AccessFades, Role
  <2>2. ReqFades([Idle EXCEPT !.pc = "create", !.user = u, !.role = "admin"])
    BY <2>1 DEF ReqFades, Idle
  <2>3. RequestsFade'
    BY <1>6, <1>q, <2>2, SetFading DEF BeginCreate, rowVars
  <2> QED BY <1>6, <1>c, <2>3 DEF BeginCreate, rowVars, clientVars, Fading
<1>7. ASSUME NEW u \in User, OAuthCallback(r, u) PROVE Fading'
  <2>1. grant[u] # "admin" => changed[u] < Timeout + AccessTTL + Leeway + StateTTL + Leeway
    BY <1>7, <1>q DEF OAuthCallback, ClientsFade, StateFades
  <2>2. ReqFades([Idle EXCEPT !.pc = "connect", !.user = u])
    BY <2>1 DEF ReqFades, Idle
  <2>3. RequestsFade'
    BY <1>7, <1>q, <2>2, SetFading DEF OAuthCallback, rowVars
  <2> QED BY <1>7, <1>c, <2>3 DEF OAuthCallback, rowVars, clientVars, Fading
<1>8. ASSUME NEW u \in User, CreateBuyerWithUser(r, u) PROVE Fading'
  BY <1>8, <1>n DEF CreateBuyerWithUser, clientVars, Role
<1>9. ASSUME NEW u \in User, NEW g \in Role, CreateAppUser(r, u, g) PROVE Fading'
  BY <1>9, <1>n DEF CreateAppUser, clientVars
<1>10. ASSUME NEW t \in Token, Refresh(r, t) PROVE Fading'
  <2>1. ReqFades([Idle EXCEPT !.pc = "user", !.user = refresh[t].user,
                              !.session = refresh[t].session])
    BY DEF ReqFades, Idle
  <2>2. RequestsFade'
    BY <1>10, <1>q, <2>1, SetFading DEF Refresh, rowVars
  <2> QED BY <1>10, <1>c, <2>2 DEF Refresh, rowVars, clientVars, Fading
<1> QED BY <1>1, <1>2, <1>3, <1>4, <1>5, <1>6, <1>7, <1>8, <1>9, <1>10 DEF RequestStep

LEMMA FadeStep == TypeOK /\ Fading /\ [Next]_vars => Fading'
<1> SUFFICES ASSUME TypeOK, Fading, [Next]_vars PROVE Fading'
  OBVIOUS
<1> USE Times
<1>0. CASE UNCHANGED vars
  BY <1>0 DEF vars, rowVars, clientVars, Fading, RequestsFade, ClientsFade, ReqFades, AccessFades,
         StateFades
<1>1. CASE Tick
  BY <1>1, FadeTick
<1>2. ASSUME NEW r \in Request, RequestStep(r) PROVE Fading'
  BY <1>2, FadeRequest
<1>3. ASSUME NEW u \in User, OAuthStart(u) PROVE Fading'
  <2>1. grant[u] # "admin" => changed[u] < Timeout + AccessTTL + Leeway
    BY <1>3 DEF OAuthStart, Admitted, Fading, ClientsFade, AccessFades, Role
  <2>2. ASSUME NEW v \in User PROVE StateFades(v)'
    <3>1. state'[v] = IF v = u THEN StateTTL ELSE state[v]
      BY <1>3 DEF OAuthStart, TypeOK
    <3> QED BY <1>3, <2>1, <3>1 DEF OAuthStart, rowVars, Fading, ClientsFade, StateFades
  <2> QED BY <1>3, <2>2 DEF OAuthStart, rowVars, Fading, RequestsFade, ClientsFade, ReqFades,
                            AccessFades
<1>4. ASSUME NEW u \in User, NEW g \in {"disabled"} \cup Role, ChangeUser(u, g) PROVE Fading'
  <2>1. /\ changed'[u] = 0
        /\ \A v \in User \ {u} : changed'[v] = changed[v] /\ grant'[v] = grant[v]
    BY <1>4 DEF ChangeUser, TypeOK
  <2>2. UNCHANGED <<access, state, req>>
    BY <1>4 DEF ChangeUser, clientVars
  <2>3. ASSUME NEW v \in User PROVE AccessFades(v)' /\ StateFades(v)'
    <3>1. CASE v = u
      BY <2>1, <2>2, <3>1 DEF AccessFades, StateFades
    <3>2. CASE v # u
      BY <2>1, <2>2, <3>2 DEF Fading, ClientsFade, AccessFades, StateFades
    <3> QED BY <3>1, <3>2
  <2>4. ASSUME NEW r \in Request PROVE ReqFades(req[r])'
    <3>1. CASE req[r].user = u
      BY <2>1, <2>2, <3>1 DEF ReqFades
    <3>2. CASE req[r].user # u
      BY <2>1, <2>2, <3>2 DEF Fading, RequestsFade, ReqFades
    <3> QED BY <3>1, <3>2
  <2> QED BY <2>3, <2>4 DEF Fading, RequestsFade, ClientsFade
<1> QED BY <1>0, <1>1, <1>2, <1>3, <1>4 DEF Next

LEMMA FadingAlways == Spec => [](TypeOK /\ Fading)
<1>1. Init => TypeOK /\ Fading
  BY TypeInit, FadeInit
<1>2. TypeOK /\ Fading /\ [Next]_vars => (TypeOK /\ Fading)'
  BY TypeStep, FadeStep
<1> QED BY <1>1, <1>2, PTL DEF Spec

\* An access token never outlives the right it was issued for by more than the
\* request that issued it, its own life and the leeway.
THEOREM RightsFadeAlways == Spec => []RightsFade
<1>1. TypeOK /\ Fading => RightsFade
  BY Times DEF Fading, ClientsFade, AccessFades, RightsFade, Admitted
<1> QED BY <1>1, FadingAlways, PTL

\* Whatever a former admin has begun ends within the life of what he still held.
THEOREM FormerAdminStopsAlways == Spec => []FormerAdminStops
<1>1. ASSUME TypeOK, Fading PROVE FormerAdminStops
  <2> SUFFICES ASSUME NEW r \in Request, InTime(r), grant[req[r].user] # "admin"
               PROVE  LET limit == Timeout + AccessTTL + Leeway + Timeout
                      IN  /\ req[r].pc = "create" => changed[req[r].user] < limit
                          /\ req[r].pc = "connect" =>
                               changed[req[r].user] < limit + StateTTL + Leeway
    BY DEF FormerAdminStops
  <2>1. ReqFades(req[r])
    BY <1>1 DEF Fading, RequestsFade
  <2> QED BY <1>1, <2>1, Times DEF ReqFades, InTime
<1> QED BY <1>1, FadingAlways, PTL


-----------------------------------------------------------------------------
(* One chain of tokens per session.  A session is at any time with one      *)
(* redeemable row or with one request that replaces it, never with two.     *)

Live(t) == Stored(t) /\ ~refresh[t].revoked
Renews(r) == req[r].pc \in {"user", "issue"} /\ req[r].session \in Token

OneChain ==
  /\ \A t \in Token : /\ Stored(t) => Stored(refresh[t].session)
                      /\ ~Stored(t) => ~refresh[t].revoked
  /\ \A t, n \in Token : Live(t) /\ Live(n) /\ refresh[t].session = refresh[n].session => t = n
  /\ \A r \in Request : Renews(r) => Stored(req[r].session)
  /\ \A r \in Request, t \in Token : Renews(r) /\ Live(t) => refresh[t].session # req[r].session
  /\ \A r, q \in Request : Renews(r) /\ Renews(q) /\ req[r].session = req[q].session => r = q

LEMMA ChainTypes ==
  ASSUME TypeOK
  PROVE  /\ \A t \in Token : /\ refresh[t].session \in Token \cup {NoToken}
                             /\ refresh[t].revoked \in BOOLEAN
                             /\ Stored(t) => refresh[t].session \in Token
         /\ \A r \in Request : /\ req[r].session \in Token \cup {NoToken}
                               /\ req[r].pc = "user" => req[r].session \in Token
                               /\ Renews(r) <=> /\ req[r].pc \in {"user", "issue"}
                                                /\ req[r].session # NoToken
         /\ NoToken \notin Token
<1>1. \A t \in Token : refresh[t] \in Rows
  BY DEF TypeOK
<1>2. \A r \in Request : ReqOK(req[r])
  BY TypeReqs DEF ReqsOK
<1>3. NoToken \notin Token
  BY SessionAssumption
<1>4. \A t \in Token : /\ refresh[t].session \in Token \cup {NoToken}
                       /\ refresh[t].revoked \in BOOLEAN
  BY <1>1 DEF Rows
<1>5. \A r \in Request : /\ req[r].session \in Token \cup {NoToken}
                         /\ req[r].pc = "user" => req[r].session \in Token
  BY <1>2 DEF ReqOK, Requests
<1> QED BY <1>3, <1>4, <1>5 DEF Stored, Renews

LEMMA ChainInit == Init => OneChain /\ Chain!Init
<1> SUFFICES ASSUME Init PROVE OneChain /\ Chain!Init
  OBVIOUS
<1>1. \A t \in Token : refresh[t] = NoRow
  BY DEF Init
<1>2. \A r \in Request : req[r] = Idle
  BY DEF Init
<1>3. \A t \in Token : ~Stored(t) /\ ~refresh[t].revoked
  BY <1>1 DEF Stored, NoRow
<1>4. \A r \in Request : ~Renews(r) /\ req[r].pc \notin {"user", "issue"}
  BY <1>2 DEF Renews, Idle
<1>5. OneChain
  BY <1>3, <1>4 DEF OneChain, Live
<1>6. \A s \in Token : Usable(s) = {}
  BY <1>3 DEF Usable
<1>7. Renewing = {}
  BY <1>4 DEF Renewing
<1> QED BY <1>3, <1>5, <1>6, <1>7 DEF Chain!Init

\* The steps that touch no chain: the rows keep what matters and the same
\* requests renew the same sessions.
SameRow(t) == /\ refresh'[t].session = refresh[t].session
              /\ refresh'[t].revoked = refresh[t].revoked
SameRenewal(r) == /\ Renews(r)' <=> Renews(r)
                  /\ Renews(r) => req'[r].session = req[r].session

LEMMA RenewingIs == ASSUME TypeOK
                    PROVE  Renewing = {s \in Token : \E r \in Request : Renews(r) /\ req[r].session = s}
BY DEF Renewing, Renews

LEMMA RenewingIsNext ==
  ASSUME TypeOK'
  PROVE  Renewing' = {s \in Token : \E r \in Request : Renews(r)' /\ req'[r].session = s}
BY DEF Renewing, Renews

LEMMA Quiet ==
  ASSUME TypeOK, TypeOK', OneChain,
         \A t \in Token : SameRow(t), \A r \in Request : SameRenewal(r)
  PROVE  OneChain' /\ UNCHANGED Chain!vars
<1>1. \A t \in Token : (Stored(t)' <=> Stored(t)) /\ (Live(t)' <=> Live(t))
  BY DEF SameRow, Stored, Live
<1>2. OneChain'
  <2>1. \A t \in Token : /\ Stored(t)' => Stored(refresh[t].session)'
                         /\ ~Stored(t)' => ~refresh'[t].revoked
    BY <1>1, ChainTypes DEF OneChain, SameRow
  <2>2. \A t, n \in Token : Live(t)' /\ Live(n)' /\ refresh'[t].session = refresh'[n].session => t = n
    BY <1>1 DEF OneChain, SameRow
  <2>3. \A r \in Request : Renews(r)' => Stored(req[r].session)'
    <3> SUFFICES ASSUME NEW r \in Request, Renews(r)' PROVE Stored(req[r].session)'
      OBVIOUS
    <3>1. Renews(r) /\ req'[r].session = req[r].session /\ req[r].session \in Token
      BY DEF SameRenewal, Renews
    <3>2. Stored(req[r].session)
      BY <3>1 DEF OneChain
    <3> QED BY <3>1, <3>2 DEF SameRow, Stored
  <2>4. \A r \in Request, t \in Token : Renews(r)' /\ Live(t)' => refresh'[t].session # req'[r].session
    BY <1>1 DEF OneChain, SameRow, SameRenewal
  <2>5. \A r, q \in Request : Renews(r)' /\ Renews(q)' /\ req'[r].session = req'[q].session => r = q
    BY DEF OneChain, SameRenewal
  <2> QED BY <2>1, <2>2, <2>3, <2>4, <2>5 DEF OneChain
<1>3. \A s \in Token : Usable(s)' = Usable(s)
  BY <1>1 DEF Usable, SameRow
<1>4. Renewing' = Renewing
  BY RenewingIs, RenewingIsNext DEF SameRenewal
<1>5. {t \in Token : refresh'[t].revoked} = {t \in Token : refresh[t].revoked}
  BY DEF SameRow
<1> QED BY <1>2, <1>3, <1>4, <1>5 DEF Chain!vars


\* A request gives up the session it was renewing.
LEMMA Ending ==
  ASSUME TypeOK, TypeOK', OneChain, NEW r \in Request, Renews(r), ~Renews(r)',
         \A t \in Token : SameRow(t), \A p \in Request \ {r} : SameRenewal(p)
  PROVE  OneChain' /\ Chain!Next
<1> DEFINE s == req[r].session
<1>0. s \in Token
  BY DEF Renews
<1>1. \A t \in Token : (Stored(t)' <=> Stored(t)) /\ (Live(t)' <=> Live(t))
  BY DEF SameRow, Stored, Live
<1>2. OneChain'
  <2>1. \A t \in Token : /\ Stored(t)' => Stored(refresh[t].session)'
                         /\ ~Stored(t)' => ~refresh'[t].revoked
    BY <1>1, ChainTypes DEF OneChain, SameRow
  <2>2. \A t, n \in Token : Live(t)' /\ Live(n)' /\ refresh'[t].session = refresh'[n].session => t = n
    BY <1>1 DEF OneChain, SameRow
  <2>3. \A p \in Request : Renews(p)' => Stored(req[p].session)'
    <3> SUFFICES ASSUME NEW p \in Request, Renews(p)' PROVE Stored(req[p].session)'
      OBVIOUS
    <3>1. Renews(p) /\ req'[p].session = req[p].session /\ req[p].session \in Token
      BY DEF SameRenewal, Renews
    <3>2. Stored(req[p].session)
      BY <3>1 DEF OneChain
    <3> QED BY <3>1, <3>2 DEF SameRow, Stored
  <2>4. \A p \in Request, t \in Token : Renews(p)' /\ Live(t)' => refresh'[t].session # req'[p].session
    BY <1>1 DEF OneChain, SameRow, SameRenewal
  <2>5. \A p, q \in Request : Renews(p)' /\ Renews(q)' /\ req'[p].session = req'[q].session => p = q
    BY DEF OneChain, SameRenewal
  <2> QED BY <2>1, <2>2, <2>3, <2>4, <2>5 DEF OneChain
<1>3. \A x \in Token : Usable(x)' = Usable(x)
  BY <1>1 DEF Usable, SameRow
<1>4. Renewing' = Renewing \ {s} /\ s \in Renewing
  BY <1>0, RenewingIs, RenewingIsNext DEF SameRenewal, OneChain
<1>5. {t \in Token : refresh'[t].revoked} = {t \in Token : refresh[t].revoked}
  BY DEF SameRow
<1>6. Chain!End(s)
  BY <1>3, <1>4, <1>5 DEF Chain!End
<1> QED BY <1>0, <1>2, <1>6 DEF Chain!Next

\* A refresh redeems the one row of its session.
LEMMA Redeeming ==
  ASSUME TypeOK, TypeOK', OneChain, NEW r \in Request, NEW t \in Token, Refresh(r, t)
  PROVE  OneChain' /\ Chain!Next
<1> DEFINE s == refresh[t].session
<1>1. Live(t) /\ s \in Token
  BY ChainTypes DEF Refresh, ConsumeRefreshToken, Live
<1>2. \A n \in Token : /\ refresh'[n].session = refresh[n].session
                       /\ (refresh'[n].revoked <=> refresh[n].revoked \/ n = t)
  BY DEF Refresh, ConsumeRefreshToken, TypeOK, Rows
<1>3. \A n \in Token : (Stored(n)' <=> Stored(n)) /\ (Live(n)' <=> Live(n) /\ n # t)
  BY <1>2, ChainTypes DEF Stored, Live
<1>4. /\ req'[r].pc = "user" /\ req'[r].session = s /\ ~Renews(r)
      /\ \A p \in Request \ {r} : req'[p] = req[p]
  BY DEF Refresh, TypeOK, Idle, Renews
<1>5. Renews(r)' /\ \A p \in Request \ {r} : Renews(p)' <=> Renews(p)
  BY <1>1, <1>4 DEF Renews
<1>6. OneChain'
  <2>1. \A n \in Token : /\ Stored(n)' => Stored(refresh[n].session)'
                         /\ ~Stored(n)' => ~refresh'[n].revoked
    <3> SUFFICES ASSUME NEW n \in Token
                 PROVE  /\ Stored(n)' => Stored(refresh[n].session)'
                        /\ ~Stored(n)' => ~refresh'[n].revoked
      OBVIOUS
    <3>1. CASE Stored(n)
      <4>1. refresh[n].session \in Token /\ Stored(refresh[n].session)
        BY <3>1, ChainTypes DEF OneChain
      <4> QED BY <1>2, <1>3, <3>1, <4>1 DEF Stored
    <3>2. CASE ~Stored(n)
      BY <1>1, <1>2, <1>3, <3>2 DEF OneChain, Live
    <3> QED BY <3>1, <3>2
  <2>2. \A m, n \in Token : Live(m)' /\ Live(n)' /\ refresh'[m].session = refresh'[n].session => m = n
    BY <1>2, <1>3 DEF OneChain
  <2>3. \A p \in Request : Renews(p)' => Stored(req[p].session)'
    <3> SUFFICES ASSUME NEW p \in Request, Renews(p)' PROVE Stored(req[p].session)'
      OBVIOUS
    <3>1. req'[p].session \in Token /\ Stored(req'[p].session)
      BY <1>1, <1>4, <1>5 DEF Renews, OneChain, Live
    <3> QED BY <1>2, <3>1 DEF Stored
  <2>4. \A p \in Request, n \in Token : Renews(p)' /\ Live(n)' => refresh'[n].session # req'[p].session
    <3> SUFFICES ASSUME NEW p \in Request, NEW n \in Token, Renews(p)', Live(n)'
                 PROVE  refresh[n].session # req'[p].session
      BY <1>2
    <3>1. Live(n) /\ n # t
      BY <1>3
    <3>2. CASE p = r
      BY <1>1, <1>4, <3>1, <3>2 DEF OneChain
    <3>3. CASE p # r
      BY <1>4, <1>5, <3>1, <3>3 DEF OneChain
    <3> QED BY <3>2, <3>3
  <2>5. \A p, q \in Request : Renews(p)' /\ Renews(q)' /\ req'[p].session = req'[q].session => p = q
    BY <1>1, <1>4, <1>5 DEF OneChain
  <2> QED BY <2>1, <2>2, <2>3, <2>4, <2>5 DEF OneChain
<1>7. \A x \in Token : Usable(x)' = IF x = s THEN {} ELSE Usable(x)
  BY <1>1, <1>2, <1>3 DEF Usable, Live, OneChain
<1>8. Usable(s) = {t}
  BY <1>1 DEF Usable, Live, OneChain
<1>9. Renewing' = Renewing \cup {s}
  BY <1>1, <1>4, <1>5, RenewingIs, RenewingIsNext
<1>10. {n \in Token : refresh'[n].revoked} = {n \in Token : refresh[n].revoked} \cup {t}
  BY <1>2
<1>11. Chain!Redeem(s, t)
  BY <1>1, <1>7, <1>8, <1>9, <1>10 DEF Chain!Redeem
<1> QED BY <1>1, <1>6, <1>11 DEF Chain!Next

\* The tokens of an answer begin a session or replace what was redeemed.
LEMMA Issuing ==
  ASSUME TypeOK, TypeOK', OneChain, NEW r \in Request, NEW t \in Token, IssueTokens(r, t)
  PROVE  OneChain' /\ Chain!Next
<1> DEFINE s == IF req[r].session = NoToken THEN t ELSE req[r].session
<1>1. s \in Token /\ ~Stored(t) /\ req[r].pc = "issue"
  BY ChainTypes DEF IssueTokens
<1>2. /\ refresh'[t].session = s /\ refresh'[t].revoked = FALSE
      /\ \A n \in Token \ {t} : refresh'[n] = refresh[n]
  BY DEF IssueTokens, TypeOK, NewRow
<1>3. /\ Stored(t)' /\ Live(t)' /\ ~Live(t)
      /\ \A n \in Token \ {t} : (Stored(n)' <=> Stored(n)) /\ (Live(n)' <=> Live(n))
  BY <1>1, <1>2, ChainTypes DEF Stored, Live
<1>4. /\ ~Renews(r)'
      /\ \A p \in Request \ {r} : req'[p] = req[p] /\ (Renews(p)' <=> Renews(p))
  BY DEF IssueTokens, TypeOK, Requests, Renews
<1>5. /\ Renews(r) => s = req[r].session
      /\ ~Renews(r) => s = t
  BY <1>1, ChainTypes
<1>6. refresh'[s].session # NoToken /\ \A n \in Token : Live(n) => refresh[n].session # s
  <2>1. CASE Renews(r)
    <3>1. Stored(s)
      BY <1>5, <2>1 DEF OneChain
    <3>2. s # t
      BY <1>1, <3>1
    <3>3. refresh'[s].session # NoToken
      BY <1>1, <1>3, <3>1, <3>2 DEF Stored
    <3> QED BY <1>5, <2>1, <3>3 DEF OneChain
  <2>2. CASE ~Renews(r)
    <3>1. s = t /\ refresh'[s].session # NoToken
      BY <1>3, <1>5, <2>2 DEF Stored
    <3> HIDE DEF s
    <3> QED BY <1>1, <3>1 DEF OneChain, Live
  <2> QED BY <2>1, <2>2
<1> HIDE DEF s
<1>7. OneChain'
  <2>1. \A n \in Token : /\ Stored(n)' => Stored(refresh[n].session)'
                         /\ ~Stored(n)' => ~refresh'[n].revoked
    <3> SUFFICES ASSUME NEW n \in Token
                 PROVE  /\ Stored(n)' => Stored(refresh[n].session)'
                        /\ ~Stored(n)' => ~refresh'[n].revoked
      OBVIOUS
    <3>1. CASE n = t
      BY <1>2, <1>3, <1>6, <3>1 DEF Stored
    <3>2. CASE n # t /\ Stored(n)
      <4>1. refresh[n].session \in Token /\ Stored(refresh[n].session)
        BY <3>2, ChainTypes DEF OneChain
      <4>2. refresh[n].session # t
        BY <1>1, <4>1
      <4> QED BY <1>2, <1>3, <3>2, <4>1, <4>2 DEF Stored
    <3>3. CASE n # t /\ ~Stored(n)
      BY <1>2, <1>3, <3>3 DEF OneChain
    <3> QED BY <3>1, <3>2, <3>3
  <2>2. \A m, n \in Token : Live(m)' /\ Live(n)' /\ refresh'[m].session = refresh'[n].session => m = n
    BY <1>2, <1>3, <1>6 DEF OneChain
  <2>3. \A p \in Request : Renews(p)' => Stored(req[p].session)'
    <3> SUFFICES ASSUME NEW p \in Request, Renews(p)' PROVE Stored(req[p].session)'
      OBVIOUS
    <3>1. p # r /\ Renews(p) /\ req'[p] = req[p] /\ req[p].session \in Token
          /\ Stored(req[p].session)
      BY <1>4 DEF Renews, OneChain
    <3>2. req[p].session # t
      BY <1>1, <3>1
    <3> QED BY <1>3, <3>1, <3>2 DEF Stored
  <2>4. \A p \in Request, n \in Token : Renews(p)' /\ Live(n)' => refresh'[n].session # req'[p].session
    <3> SUFFICES ASSUME NEW p \in Request, NEW n \in Token, Renews(p)', Live(n)'
                 PROVE  refresh'[n].session # req'[p].session
      OBVIOUS
    <3>1. p # r /\ Renews(p) /\ req'[p] = req[p]
      BY <1>4
    <3>2. CASE n # t
      BY <1>2, <1>3, <3>1, <3>2 DEF OneChain
    <3>3. CASE n = t /\ Renews(r)
      BY <1>2, <1>5, <3>1, <3>3 DEF OneChain
    <3>4. CASE n = t /\ ~Renews(r)
      BY <1>1, <1>2, <1>5, <3>1, <3>4 DEF OneChain
    <3> QED BY <3>2, <3>3, <3>4
  <2>5. \A p, q \in Request : Renews(p)' /\ Renews(q)' /\ req'[p].session = req'[q].session => p = q
    BY <1>4 DEF OneChain
  <2> QED BY <2>1, <2>2, <2>3, <2>4, <2>5 DEF OneChain
<1>8. \A x \in Token : Usable(x)' = IF x = s THEN {t} ELSE Usable(x)
  BY <1>1, <1>2, <1>3, <1>6 DEF Usable, Live
<1>9. {n \in Token : refresh'[n].revoked} = {n \in Token : refresh[n].revoked}
  BY <1>1, <1>2 DEF OneChain
<1>10. Chain!Fresh(t)
  BY <1>1 DEF Chain!Fresh, Usable, OneChain
<1>11. Usable(s) = {}
  BY <1>6 DEF Usable, Live
<1>12. CASE Renews(r)
  <2>1. Renewing' = Renewing \ {s} /\ s \in Renewing
    BY <1>1, <1>4, <1>5, <1>12, RenewingIs, RenewingIsNext DEF OneChain
  <2>2. Chain!Renew(s, t)
    BY <1>1, <1>8, <1>9, <1>10, <2>1 DEF Chain!Renew
  <2> QED BY <1>1, <1>7, <2>2 DEF Chain!Next
<1>13. CASE ~Renews(r)
  <2>1. Renewing' = Renewing
    BY <1>4, <1>13, RenewingIs, RenewingIsNext
  <2>2. Chain!Open(t)
    BY <1>1, <1>5, <1>8, <1>9, <1>10, <1>11, <1>13, <2>1 DEF Chain!Open
  <2> QED BY <1>7, <2>2 DEF Chain!Next
<1> QED BY <1>12, <1>13


\* A request that renews nothing before or after its step.
LEMMA OtherRequest ==
  ASSUME TypeOK, TypeOK', OneChain, NEW r \in Request, NEW q, ~Renews(r),
         q.pc \notin {"user", "issue"} \/ q.session = NoToken,
         req' = [req EXCEPT ![r] = q], UNCHANGED refresh
  PROVE  OneChain' /\ UNCHANGED Chain!vars
<1>1. \A t \in Token : SameRow(t)
  BY DEF SameRow
<1>2. req'[r] = q /\ \A p \in Request \ {r} : req'[p] = req[p]
  BY DEF TypeOK
<1>3. \A p \in Request : SameRenewal(p)
  BY <1>2, SessionAssumption DEF SameRenewal, Renews
<1> QED BY <1>1, <1>3, Quiet

LEMMA ChainStep ==
  ASSUME TypeOK, TypeOK', OneChain, [Next]_vars
  PROVE  OneChain' /\ [Chain!Next]_Chain!vars
<1>i. Idle.pc = "idle" /\ Idle.session = NoToken
  BY DEF Idle
<1>0. CASE UNCHANGED vars
  BY <1>0, Quiet DEF vars, SameRow, SameRenewal, Renews
<1>1. CASE Tick
  <2>1. \A t \in Token : SameRow(t)
    <3> SUFFICES ASSUME NEW t \in Token PROVE SameRow(t)
      OBVIOUS
    <3>1. refresh'[t] = [refresh[t] EXCEPT !.left = Shorter(@)]
      BY <1>1 DEF Tick
    <3> QED BY <3>1 DEF SameRow, TypeOK, Rows
  <2>2. \A r \in Request : SameRenewal(r)
    <3> SUFFICES ASSUME NEW r \in Request PROVE SameRenewal(r)
      OBVIOUS
    <3>1. req'[r] = IF req[r] = Idle THEN Idle
                    ELSE [req[r] EXCEPT !.age = Longer(@, Timeout), !.left = Aged(@)]
      BY <1>1 DEF Tick
    <3>2. req'[r].pc = req[r].pc /\ req'[r].session = req[r].session
      BY <3>1 DEF TypeOK, Requests
    <3> QED BY <3>2 DEF SameRenewal, Renews
  <2> QED BY <2>1, <2>2, Quiet
<1>2. ASSUME NEW r \in Request, RequestStep(r) PROVE OneChain' /\ [Chain!Next]_Chain!vars
  <2>1. CASE ReadUser(r)
    <3>1. Renews(r) /\ UNCHANGED refresh
      BY <2>1, ChainTypes DEF ReadUser, Renews
    <3>2. \A t \in Token : SameRow(t)
      BY <3>1 DEF SameRow
    <3>3. \A p \in Request \ {r} : SameRenewal(p)
      BY <2>1 DEF ReadUser, SameRenewal, Renews, TypeOK
    <3>4. CASE req' = [req EXCEPT ![r].pc = "issue", ![r].role = grant[req[r].user]]
      <4>1. req'[r].pc = "issue" /\ req'[r].session = req[r].session
        BY <3>4 DEF TypeOK, Requests
      <4>2. SameRenewal(r)
        BY <3>1, <4>1 DEF SameRenewal, Renews
      <4> QED BY <3>2, <3>3, <4>2, Quiet
    <3>5. CASE req' = [req EXCEPT ![r] = Idle]
      <4>1. ~Renews(r)'
        BY <3>5, <1>i DEF Renews, TypeOK
      <4> QED BY <3>1, <3>2, <3>3, <4>1, Ending
    <3> QED BY <2>1, <3>4, <3>5 DEF ReadUser
  <2>2. CASE RequestFails(r)
    <3>1. UNCHANGED refresh /\ req' = [req EXCEPT ![r] = Idle]
      BY <2>2 DEF RequestFails
    <3>2. CASE Renews(r)
      <4>1. ~Renews(r)' /\ \A p \in Request \ {r} : SameRenewal(p)
        BY <3>1, <1>i DEF Renews, SameRenewal, TypeOK
      <4>2. \A t \in Token : SameRow(t)
        BY <3>1 DEF SameRow
      <4> QED BY <3>2, <4>1, <4>2, Ending
    <3>3. CASE ~Renews(r)
      BY <1>i, <3>1, <3>3, OtherRequest
    <3> QED BY <3>2, <3>3
  <2>3. CASE Answer(r) \/ UpsertFBProfile(r)
    <3>1. UNCHANGED refresh /\ req' = [req EXCEPT ![r] = Idle] /\ ~Renews(r)
      BY <2>3 DEF Answer, UpsertFBProfile, Renews
    <3> QED BY <1>i, <3>1, OtherRequest
  <2>4. ASSUME NEW u \in User, CreateBuyerWithUser(r, u) \/ \E g \in Role : CreateAppUser(r, u, g)
        PROVE  OneChain' /\ [Chain!Next]_Chain!vars
    <3>1. UNCHANGED refresh /\ req' = [req EXCEPT ![r] = Idle] /\ ~Renews(r)
      BY <2>4 DEF CreateBuyerWithUser, CreateAppUser, Renews
    <3> QED BY <1>i, <3>1, OtherRequest
  <2>5. ASSUME NEW u \in User, Login(r, u) \/ BeginCreate(r, u) \/ OAuthCallback(r, u)
        PROVE  OneChain' /\ [Chain!Next]_Chain!vars
    <3>1. UNCHANGED refresh /\ ~Renews(r)
      BY <1>i, <2>5 DEF Login, BeginCreate, OAuthCallback, Renews
    <3>2. PICK q : q.session = NoToken /\ req' = [req EXCEPT ![r] = q]
      BY <2>5 DEF Login, BeginCreate, OAuthCallback, Idle
    <3> QED BY <3>1, <3>2, OtherRequest
  <2>6. ASSUME NEW t \in Token, Refresh(r, t) PROVE OneChain' /\ [Chain!Next]_Chain!vars
    BY <2>6, Redeeming
  <2>7. ASSUME NEW t \in Token, IssueTokens(r, t) PROVE OneChain' /\ [Chain!Next]_Chain!vars
    BY <2>7, Issuing
  <2> QED BY <1>2, <2>1, <2>2, <2>3, <2>4, <2>5, <2>6, <2>7 DEF RequestStep
<1>3. ASSUME NEW u \in User, OAuthStart(u) \/ \E g \in {"disabled"} \cup Role : ChangeUser(u, g)
      PROVE  OneChain' /\ [Chain!Next]_Chain!vars
  BY <1>3, Quiet DEF OAuthStart, ChangeUser, SameRow, SameRenewal, Renews
<1> QED BY <1>0, <1>1, <1>2, <1>3 DEF Next

LEMMA ChainAlways == Spec => [](TypeOK /\ OneChain)
<1>1. Init => TypeOK /\ OneChain
  BY TypeInit, ChainInit
<1>2. TypeOK /\ OneChain /\ [Next]_vars => (TypeOK /\ OneChain)'
  BY TypeStep, ChainStep
<1> QED BY <1>1, <1>2, PTL DEF Spec

\* Sessions are chains of single-use tokens: whatever requests run at once and
\* wherever they fail, a session has one redeemable token at most.
THEOREM SessionsAreChains == Spec => RefinesChain
<1>1. Init => Chain!Init
  BY ChainInit
<1>2. TypeOK /\ OneChain /\ [Next]_vars => [Chain!Next]_Chain!vars
  BY TypeStep, ChainStep
<1> QED BY <1>1, <1>2, ChainAlways, PTL DEF Spec, RefinesChain, Chain!Spec


-----------------------------------------------------------------------------
(* No session is lost without a failure: where its redeemable token is.     *)

Carried(n) == n \in held \/ \E r \in Request : req[r].token = n

GoesOn(s) ==
  \/ s \in broken
  \/ \E r \in Request : Renews(r) /\ req[r].session = s
  \/ \E n \in Token : Live(n) /\ refresh[n].session = s /\ Carried(n)

Answers(r) ==
  /\ req[r].pc = "answer" => /\ Stored(req[r].token)
                             /\ refresh[req[r].token].session = req[r].session
  /\ req[r].pc # "answer" => req[r].token = NoToken

Going ==
  /\ \A t \in held : Stored(t)
  /\ \A r \in Request : Answers(r)
  /\ \A t \in Token : Stored(t) => GoesOn(refresh[t].session)

LEMMA GoingInit == Init => Going
<1> SUFFICES ASSUME Init PROVE Going
  OBVIOUS
<1>1. \A t \in Token : ~Stored(t)
  BY DEF Init, Stored, NoRow
<1>2. \A r \in Request : Answers(r)
  BY DEF Init, Answers, Idle
<1> QED BY <1>1, <1>2 DEF Going, Init

LEMMA TokenTypes ==
  ASSUME TypeOK
  PROVE  /\ held \subseteq Token /\ NoToken \notin Token
         /\ \A r \in Request : req[r].pc = "answer" => req[r].token \in Token
<1>1. \A r \in Request : ReqOK(req[r])
  BY TypeReqs DEF ReqsOK
<1> QED BY <1>1, SessionAssumption DEF ReqOK, TypeOK

\* Rows and renewals as they were, and nothing that carried a token is lost
\* without the session being counted as broken.
LEMMA KeepsGoing ==
  ASSUME TypeOK, TypeOK', Going, \A t \in Token : SameRow(t), broken \subseteq broken',
         \A r \in Request : SameRenewal(r) \/ (Renews(r) /\ req[r].session \in broken'),
         \A n \in Token : Carried(n) => Carried(n)' \/ refresh[n].session \in broken',
         \A t \in held' : Stored(t), \A r \in Request : Answers(r)'
  PROVE  Going'
<1>1. \A t \in Token : (Stored(t)' <=> Stored(t)) /\ (Live(t)' <=> Live(t))
  BY DEF SameRow, Stored, Live
<1>2. \A t \in held' : Stored(t)'
  BY <1>1, TokenTypes DEF TypeOK
<1>3. ASSUME NEW t \in Token, Stored(t)' PROVE GoesOn(refresh[t].session)'
  <2> DEFINE s == refresh[t].session
  <2>0. refresh'[t].session = s /\ GoesOn(s)
    BY <1>1, <1>3 DEF SameRow, Going
  <2>1. CASE s \in broken
    BY <2>0, <2>1 DEF GoesOn
  <2>2. CASE \E r \in Request : Renews(r) /\ req[r].session = s
    BY <2>0, <2>2 DEF GoesOn, SameRenewal
  <2>3. CASE \E n \in Token : Live(n) /\ refresh[n].session = s /\ Carried(n)
    BY <1>1, <2>0, <2>3 DEF GoesOn, SameRow
  <2> QED BY <2>0, <2>1, <2>2, <2>3 DEF GoesOn
<1> QED BY <1>2, <1>3 DEF Going

LEMMA GoingStep ==
  ASSUME TypeOK, TypeOK', OneChain, Going, [Next]_vars
  PROVE  Going'
<1>i. Idle.pc = "idle" /\ Idle.session = NoToken /\ Idle.token = NoToken
  BY DEF Idle
<1>g. held \subseteq Token /\ (\A t \in held : Stored(t)) /\ \A r \in Request : Answers(r)
  BY TokenTypes DEF Going
\* A request that is not about tokens before or after its step.
<1>q. ASSUME NEW r \in Request, NEW q, req' = [req EXCEPT ![r] = q], req[r].pc # "answer",
             q.pc # "answer", q.token = NoToken, ~Renews(r), q.session = NoToken,
             UNCHANGED <<refresh, held, broken>>
      PROVE  Going'
  <2>1. req'[r] = q /\ \A p \in Request \ {r} : req'[p] = req[p]
    BY <1>q DEF TypeOK
  <2>2. \A p \in Request : SameRenewal(p)
    BY <1>q, <2>1, SessionAssumption DEF SameRenewal, Renews
  <2>3. \A p \in Request : Answers(p)'
    BY <1>g, <1>q, <2>1 DEF Answers, Stored
  <2>4. \A n \in Token : Carried(n) => Carried(n)'
    <3> SUFFICES ASSUME NEW n \in Token, NEW p \in Request, req[p].token = n
                 PROVE  req'[p].token = n
      BY <1>q DEF Carried
    <3>1. p # r
      BY <1>g, <1>q, SessionAssumption DEF Answers
    <3> QED BY <2>1, <3>1
  <2> QED BY <1>g, <1>q, <2>2, <2>3, <2>4, KeepsGoing DEF SameRow
<1>same. UNCHANGED <<refresh, held, req, broken>> => Going'
  BY DEF Going, Answers, GoesOn, Carried, Renews, Live, Stored
<1>0. CASE UNCHANGED vars
  <2>1. UNCHANGED <<refresh, held, req, broken>>
    BY <1>0 DEF vars, clientVars
  <2> QED BY <1>same, <2>1
<1>1. CASE Tick
  <2>1. ASSUME NEW t \in Token PROVE SameRow(t)
    <3>1. refresh'[t] = [refresh[t] EXCEPT !.left = Shorter(@)]
      BY <1>1 DEF Tick
    <3> QED BY <3>1 DEF SameRow, TypeOK, Rows
  <2>2. ASSUME NEW r \in Request
        PROVE  /\ req'[r].pc = req[r].pc /\ req'[r].session = req[r].session
               /\ req'[r].token = req[r].token
    <3>1. req'[r] = IF req[r] = Idle THEN Idle
                    ELSE [req[r] EXCEPT !.age = Longer(@, Timeout), !.left = Aged(@)]
      BY <1>1 DEF Tick
    <3> QED BY <3>1 DEF TypeOK, Requests
  <2>3. \A r \in Request : SameRenewal(r)
    BY <2>2 DEF SameRenewal, Renews
  <2>4. UNCHANGED <<held, broken>>
    BY <1>1 DEF Tick
  <2>5. \A r \in Request : Answers(r)'
    <3> SUFFICES ASSUME NEW r \in Request PROVE Answers(r)'
      OBVIOUS
    <3>1. CASE req[r].pc = "answer"
      <4>1. req[r].token \in Token /\ Stored(req[r].token)
            /\ refresh[req[r].token].session = req[r].session
        BY <1>g, <3>1, TokenTypes DEF Answers
      <4> QED BY <2>1, <2>2, <3>1, <4>1 DEF Answers, SameRow, Stored
    <3>2. CASE req[r].pc # "answer"
      BY <1>g, <2>2, <3>2 DEF Answers
    <3> QED BY <3>1, <3>2
  <2>6. \A n \in Token : Carried(n) => Carried(n)'
    BY <2>2, <2>4 DEF Carried
  <2> QED BY <1>g, <2>1, <2>3, <2>4, <2>5, <2>6, KeepsGoing
<1>2. ASSUME NEW r \in Request, RequestStep(r) PROVE Going'
  <2>a. \A p \in Request \ {r} : req'[p] = req[p]
    BY <1>2 DEF RequestStep, ReadUser, Answer, RequestFails, UpsertFBProfile, Login, BeginCreate,
          CreateBuyerWithUser, OAuthCallback, CreateAppUser, Refresh, IssueTokens, TypeOK
  <2>1. CASE ReadUser(r)
    <3>1. Renews(r) /\ UNCHANGED <<refresh, held>> /\ req[r].pc = "user" /\ req[r].token = NoToken
      BY <1>g, <2>1, ChainTypes DEF ReadUser, Renews, Answers, clientVars
    <3>2. req'[r].pc # "answer" /\ req'[r].token = NoToken /\ broken \subseteq broken'
          /\ (SameRenewal(r) \/ req[r].session \in broken')
      <4>1. CASE req' = [req EXCEPT ![r].pc = "issue", ![r].role = grant[req[r].user]]
                 /\ UNCHANGED broken
        BY <3>1, <4>1 DEF TypeOK, Requests, SameRenewal, Renews
      <4>2. CASE req' = [req EXCEPT ![r] = Idle] /\ broken' = broken \cup {req[r].session}
        BY <1>i, <4>2 DEF TypeOK
      <4> QED BY <2>1, <4>1, <4>2 DEF ReadUser
    <3>3. \A p \in Request : SameRenewal(p) \/ (Renews(p) /\ req[p].session \in broken')
      BY <2>a, <3>1, <3>2 DEF SameRenewal, Renews
    <3>4. \A p \in Request : Answers(p)'
      BY <1>g, <2>a, <3>1, <3>2 DEF Answers, Stored
    <3>5. \A n \in Token : Carried(n) => Carried(n)'
      BY <2>a, <3>1, SessionAssumption DEF Carried
    <3> QED BY <1>g, <3>1, <3>2, <3>3, <3>4, <3>5, KeepsGoing DEF SameRow
  <2>2. CASE Answer(r)
    <3>1. /\ req'[r] = Idle /\ req[r].pc = "answer" /\ held' = held \cup {req[r].token}
          /\ UNCHANGED <<refresh, broken>>
      BY <2>2 DEF Answer, TypeOK
    <3>2. \A p \in Request : SameRenewal(p)
      BY <1>i, <2>a, <3>1 DEF SameRenewal, Renews
    <3>3. \A p \in Request : Answers(p)'
      BY <1>g, <1>i, <2>a, <3>1 DEF Answers, Stored
    <3>4. \A n \in Token : Carried(n) => Carried(n)'
      BY <2>a, <3>1 DEF Carried
    <3>5. \A t \in held' : Stored(t)
      BY <1>g, <3>1 DEF Answers
    <3> QED BY <3>1, <3>2, <3>3, <3>4, <3>5, KeepsGoing DEF SameRow
  <2>3. CASE RequestFails(r)
    <3>1. /\ req'[r] = Idle /\ broken' = broken \cup ({req[r].session} \ {NoToken})
          /\ UNCHANGED <<refresh, held>>
      BY <2>3 DEF RequestFails, TypeOK, clientVars
    <3>2. \A p \in Request : SameRenewal(p) \/ (Renews(p) /\ req[p].session \in broken')
      BY <1>i, <2>a, <3>1, SessionAssumption DEF SameRenewal, Renews
    <3>3. \A p \in Request : Answers(p)'
      BY <1>g, <1>i, <2>a, <3>1 DEF Answers, Stored
    <3>4. \A n \in Token : Carried(n) => Carried(n)' \/ refresh[n].session \in broken'
      <4> SUFFICES ASSUME NEW n \in Token, req[r].token = n
                   PROVE  refresh[n].session \in broken'
        BY <2>a, <3>1 DEF Carried
      <4>1. req[r].pc = "answer"
        BY <1>g, SessionAssumption DEF Answers
      <4>2. Stored(n) /\ refresh[n].session = req[r].session
        BY <1>g, <4>1 DEF Answers
      <4> QED BY <3>1, <4>2 DEF Stored
    <3> QED BY <1>g, <3>1, <3>2, <3>3, <3>4, KeepsGoing DEF SameRow
  <2>4. CASE UpsertFBProfile(r)
    BY <1>i, <1>q, <2>4 DEF UpsertFBProfile, Renews, clientVars
  <2>5. ASSUME NEW u \in User, CreateBuyerWithUser(r, u) \/ \E g \in Role : CreateAppUser(r, u, g)
        PROVE  Going'
    <3>1. /\ req' = [req EXCEPT ![r] = Idle] /\ req[r].pc = "create"
          /\ UNCHANGED <<refresh, held, broken>>
      BY <2>5 DEF CreateBuyerWithUser, CreateAppUser, clientVars
    <3>2. ~Renews(r)
      BY <3>1 DEF Renews
    <3> QED BY <1>i, <1>q, <3>1, <3>2
  <2>6. ASSUME NEW u \in User, Login(r, u) \/ BeginCreate(r, u) \/ OAuthCallback(r, u) PROVE Going'
    <3>1. /\ req[r].pc # "answer" /\ ~Renews(r) /\ UNCHANGED <<refresh, held, broken>>
      BY <1>i, <2>6 DEF Login, BeginCreate, OAuthCallback, clientVars, Renews
    <3>2. ASSUME NEW pc \in {"issue", "create", "connect"}, NEW g,
                 req' = [req EXCEPT ![r] = [Idle EXCEPT !.pc = pc, !.user = u, !.role = g]]
          PROVE  Going'
      <4> DEFINE q == [Idle EXCEPT !.pc = pc, !.user = u, !.role = g]
      <4>1. q.pc = pc /\ q.session = NoToken /\ q.token = NoToken
        BY DEF Idle
      <4>2. req' = [req EXCEPT ![r] = q]
        BY <3>2
      <4> HIDE DEF q
      <4> QED BY <1>q, <3>1, <4>1, <4>2
    <3>3. [Idle EXCEPT !.pc = "connect", !.user = u]
            = [Idle EXCEPT !.pc = "connect", !.user = u, !.role = Idle.role]
      BY DEF Idle
    <3> QED BY <2>6, <3>2, <3>3 DEF Login, BeginCreate, OAuthCallback
  <2>7. ASSUME NEW t \in Token, Refresh(r, t) PROVE Going'
    <3> DEFINE s == refresh[t].session
    <3>1. /\ req[r] = Idle /\ req'[r].pc = "user" /\ req'[r].session = s /\ req'[r].token = NoToken
          /\ UNCHANGED <<held, broken>>
      BY <2>7 DEF Refresh, TypeOK, Idle, clientVars
    <3>2. \A n \in Token : /\ refresh'[n].session = refresh[n].session
                           /\ n # t => refresh'[n] = refresh[n]
      BY <2>7 DEF Refresh, ConsumeRefreshToken, TypeOK, Rows
    <3>3. \A n \in Token : (Stored(n)' <=> Stored(n)) /\ (Live(n) /\ n # t => Live(n)')
      BY <3>2 DEF Stored, Live
    <3>4. s \in Token
      BY <2>7, ChainTypes DEF Refresh, ConsumeRefreshToken
    <3>5. \A n \in Token : Carried(n) => Carried(n)'
      BY <1>i, <2>a, <3>1, SessionAssumption DEF Carried
    <3>6. ASSUME NEW n \in Token, Stored(n)' PROVE GoesOn(refresh[n].session)'
      <4>1. refresh'[n].session = refresh[n].session /\ GoesOn(refresh[n].session)
        BY <3>2, <3>3, <3>6 DEF Going
      <4>2. CASE refresh[n].session = s
        BY <3>1, <3>4, <4>1, <4>2 DEF GoesOn, Renews
      <4>3. CASE refresh[n].session # s
        <5>1. CASE refresh[n].session \in broken
          BY <3>1, <4>1, <5>1 DEF GoesOn
        <5>2. CASE \E p \in Request : Renews(p) /\ req[p].session = refresh[n].session
          <6>1. PICK p \in Request : Renews(p) /\ req[p].session = refresh[n].session
            BY <5>2
          <6>2. p # r
            BY <1>i, <3>1, <6>1 DEF Renews
          <6> QED BY <2>a, <4>1, <6>1, <6>2 DEF GoesOn, Renews
        <5>3. CASE \E m \in Token : Live(m) /\ refresh[m].session = refresh[n].session /\ Carried(m)
          BY <3>2, <3>3, <3>5, <4>1, <4>3, <5>3 DEF GoesOn
        <5> QED BY <4>1, <5>1, <5>2, <5>3 DEF GoesOn
      <4> QED BY <4>2, <4>3
    <3>7. \A p \in Request : Answers(p)'
      <4> SUFFICES ASSUME NEW p \in Request PROVE Answers(p)'
        OBVIOUS
      <4>1. CASE p = r
        BY <3>1, <4>1 DEF Answers
      <4>2. CASE p # r
        BY <1>g, <2>a, <3>2, <4>2, TokenTypes DEF Answers, Stored
      <4> QED BY <4>1, <4>2
    <3> QED BY <1>g, <3>1, <3>3, <3>6, <3>7 DEF Going
  <2>8. ASSUME NEW t \in Token, IssueTokens(r, t) PROVE Going'
    <3> DEFINE s == IF req[r].session = NoToken THEN t ELSE req[r].session
    <3>1. /\ req[r].pc = "issue" /\ ~Stored(t) /\ req'[r].pc = "answer" /\ req'[r].session = s
          /\ req'[r].token = t /\ UNCHANGED <<held, broken>>
      BY <2>8 DEF IssueTokens, TypeOK, Requests, clientVars
    <3>2. /\ refresh'[t].session = s /\ refresh'[t].revoked = FALSE
          /\ \A n \in Token \ {t} : refresh'[n] = refresh[n]
      BY <2>8 DEF IssueTokens, TypeOK, NewRow
    <3>3. s \in Token
      BY ChainTypes
    <3>4. /\ Live(t)' /\ Stored(t)' /\ Carried(t)'
          /\ \A n \in Token \ {t} : (Stored(n)' <=> Stored(n)) /\ (Live(n)' <=> Live(n))
      BY <3>1, <3>2, <3>3, TokenTypes DEF Stored, Live, Carried
    <3>5. \A n \in Token : Carried(n) => Carried(n)'
      BY <1>g, <2>a, <3>1, SessionAssumption DEF Carried, Answers
    <3>6. ASSUME NEW n \in Token, Stored(n)' PROVE GoesOn(refresh[n].session)'
      <4>1. CASE refresh'[n].session = s
        BY <3>2, <3>4, <4>1 DEF GoesOn
      <4>2. CASE refresh'[n].session # s
        <5>1. n # t /\ refresh'[n].session = refresh[n].session /\ GoesOn(refresh[n].session)
          BY <3>2, <3>4, <3>6, <4>2 DEF Going
        <5>2. CASE refresh[n].session \in broken
          BY <3>1, <5>1, <5>2 DEF GoesOn
        <5>3. CASE \E p \in Request : Renews(p) /\ req[p].session = refresh[n].session
          <6>1. PICK p \in Request : Renews(p) /\ req[p].session = refresh[n].session
            BY <5>3
          <6>2. p # r
            BY <4>2, <5>1, <6>1, ChainTypes
          <6> QED BY <2>a, <5>1, <6>1, <6>2 DEF GoesOn, Renews
        <5>4. CASE \E m \in Token : Live(m) /\ refresh[m].session = refresh[n].session /\ Carried(m)
          <6>1. PICK m \in Token : Live(m) /\ refresh[m].session = refresh[n].session /\ Carried(m)
            BY <5>4
          <6>2. m # t
            BY <3>1, <6>1 DEF Live
          <6> QED BY <3>2, <3>4, <3>5, <5>1, <6>1, <6>2 DEF GoesOn
        <5> QED BY <5>1, <5>2, <5>3, <5>4 DEF GoesOn
      <4> QED BY <4>1, <4>2
    <3>7. \A p \in Request : Answers(p)'
      <4> SUFFICES ASSUME NEW p \in Request PROVE Answers(p)'
        OBVIOUS
      <4>1. CASE p = r
        BY <3>1, <3>2, <3>4, <4>1 DEF Answers, Stored
      <4>2. CASE p # r /\ req[p].pc = "answer"
        <5>1. req'[p] = req[p] /\ req[p].token \in Token /\ Stored(req[p].token)
              /\ refresh[req[p].token].session = req[p].session
          BY <1>g, <2>a, <4>2, TokenTypes DEF Answers
        <5>2. req[p].token # t
          BY <3>1, <5>1
        <5> QED BY <3>2, <4>2, <5>1, <5>2 DEF Answers, Stored
      <4>3. CASE p # r /\ req[p].pc # "answer"
        BY <1>g, <2>a, <4>3 DEF Answers
      <4> QED BY <4>1, <4>2, <4>3
    <3>8. \A n \in held' : Stored(n)'
      BY <1>g, <3>1, <3>4
    <3> QED BY <3>6, <3>7, <3>8 DEF Going
  <2> QED BY <1>2, <2>1, <2>2, <2>3, <2>4, <2>5, <2>6, <2>7, <2>8 DEF RequestStep
<1>3. ASSUME NEW u \in User, OAuthStart(u) \/ \E g \in {"disabled"} \cup Role : ChangeUser(u, g)
      PROVE  Going'
  <2>1. UNCHANGED <<refresh, held, req, broken>>
    BY <1>3 DEF OAuthStart, ChangeUser, clientVars
  <2> QED BY <1>same, <2>1
<1> QED BY <1>0, <1>1, <1>2, <1>3 DEF Next

\* A session that met no failure and no inactive user always has its redeemable
\* token with its client or on the way.
THEOREM SessionsGoOn == Spec => []SessionGoesOn
<1>1. Init => TypeOK /\ OneChain /\ Going
  BY TypeInit, ChainInit, GoingInit
<1>2. TypeOK /\ OneChain /\ Going /\ [Next]_vars => (TypeOK /\ OneChain /\ Going)'
  BY TypeStep, ChainStep, GoingStep
<1>3. TypeOK /\ Going => SessionGoesOn
  <2> SUFFICES ASSUME TypeOK, Going, NEW t \in held,
                      refresh[t].session \notin broken, refresh[t].session \notin Renewing
               PROVE  \E n \in Usable(refresh[t].session) :
                        n \in held \/ \E r \in Request : req[r].token = n
    BY DEF SessionGoesOn
  <2>1. t \in Token /\ Stored(t) /\ GoesOn(refresh[t].session) /\ refresh[t].session \in Token
    BY TokenTypes, ChainTypes DEF Going
  <2>2. ~\E r \in Request : Renews(r) /\ req[r].session = refresh[t].session
    BY <2>1, RenewingIs
  <2> QED BY <2>1, <2>2 DEF GoesOn, Usable, Live, Carried
<1> QED BY <1>1, <1>2, <1>3, PTL DEF Spec
=============================================================================
