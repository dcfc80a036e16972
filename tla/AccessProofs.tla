----------------------------- MODULE AccessProofs -----------------------------
(***************************************************************************)
(* Theorems of the specification Access, for every set of users,           *)
(* companies, peers and requests, and every limit.                         *)
(***************************************************************************)
EXTENDS Access, FiniteSetTheorems, TLAPS

(* What the history learns from a state. *)

\* A session that is there and has not expired is in force, at its company.
LEMMA SessionInForce ==
    ASSUME NEW r \in Requests, Row(r) # None, ~Expired(Row(r), now)
    PROVE  <<"session">> \in InForce(r) /\ <<"at", Row(r).company>> \in InForce(r)
BY DEF InForce

\* An active subject is in force.
LEMMA UserInForce ==
    ASSUME NEW r \in Requests, Subject(r) \in Users, users[Subject(r)] = "active"
    PROVE  <<"user">> \in InForce(r)
BY DEF InForce

\* An entitlement of the subject is in force.
LEMMA EntitlementInForce ==
    ASSUME NEW r \in Requests, NEW c \in Companies, Entitled(Subject(r), c)
    PROVE  <<"entitled", c>> \in InForce(r)
BY DEF InForce, Entitled

\* A step adds the state it leads to, for the requests that are still under way.
LEMMA Accumulates ==
    ASSUME Observe, NEW r \in Requests, pc'[r] \in LoginSteps \cup CallSteps
    PROVE  seen[r] \subseteq seen'[r] /\ InForce(r)' \subseteq seen'[r]
BY DEF Observe, LoginSteps, CallSteps, Ended

\* So what is in force is always known.
LEMMA WatchedNext ==
    ASSUME Observe PROVE Watched'
BY Accumulates DEF Watched

--------------------------------------------------------------------------------
(* Requests that a step leaves alone. *)

\* What may become of the session s.
SessionMoves(s) ==
    \/ sessions'[s] = None \/ sessions'[s] = sessions[s]
    \/ /\ sessions[s] \in Session
       /\ sessions'[s] = [sessions[s] EXCEPT !.company = sessions'[s].company]

\* A move never gives a session to another user.
LEMMA OwnerKept ==
    ASSUME NEW s \in Requests, SessionMoves(s), sessions'[s] # None
    PROVE  sessions[s] # None /\ sessions'[s].user = sessions[s].user
BY AccessAssumption DEF SessionMoves, Session

\* A request that a step leaves alone knows what it knew.
LEMMA OthersKnow ==
    ASSUME AccessInv, Observe, NEW x \in Requests, SessionMoves(x),
           pc'[x] = pc[x], req'[x] = req[x], ctx'[x] = ctx[x],
           \A s \in Requests : pc[s] = "served" => pc'[s] = "served" /\ req'[s] = req[s]
    PROVE  LoginKnows(x)' /\ CallKnows(x)'
<1>1. pc[x] \in LoginSteps \cup CallSteps => seen[x] \subseteq seen'[x]
  BY Accumulates
<1>2. sessions[x] = None => sessions'[x] = None
  BY OwnerKept
<1>3. sessions'[x] # None => sessions[x] # None /\ sessions'[x].user = sessions[x].user
  BY OwnerKept
<1>4. LoginKnows(x)'
  BY <1>1, <1>2, <1>3 DEF AccessInv, LoginKnows, LoginSteps
<1>5. CallKnows(x)'
  BY <1>1 DEF AccessInv, CallKnows, CallSteps
<1> QED
  BY <1>4, <1>5

\* A step of the request r.
LEMMA OneRequest ==
    ASSUME AccessInv, Observe, NEW r \in Requests, pc[r] # "served",
           \A x \in Requests \ {r} :
              /\ pc'[x] = pc[x] /\ req'[x] = req[x] /\ ctx'[x] = ctx[x] /\ SessionMoves(x),
           TypeOK', LoginKnows(r)', CallKnows(r)'
    PROVE  AccessInv'
<1>1. \A s \in Requests : pc[s] = "served" => pc'[s] = "served" /\ req'[s] = req[s]
  OBVIOUS
<1> HIDE DEF SessionMoves
<1>2. ASSUME NEW x \in Requests \ {r} PROVE LoginKnows(x)' /\ CallKnows(x)'
  BY <1>1, OthersKnow
<1> QED
  BY <1>2, WatchedNext DEF AccessInv

\* The initial states satisfy the invariant.
LEMMA InitInv == Init => AccessInv
<1> SUFFICES ASSUME Init PROVE AccessInv
  OBVIOUS
<1>1. TypeOK
  BY AccessAssumption DEF Init, TypeOK, NoRequest, NoContext, Ended
<1>2. Watched
  BY DEF Init, Watched, LoginSteps, CallSteps
<1>3. ASSUME NEW r \in Requests PROVE LoginKnows(r) /\ CallKnows(r)
  BY DEF Init, LoginKnows, CallKnows, LoginSteps, CallSteps
<1> QED
  BY <1>1, <1>2, <1>3 DEF AccessInv

--------------------------------------------------------------------------------
(* The ways a statement ends. *)

\* The request ends; a login that was served leaves a session of its user.
LEMMA EndStep ==
    ASSUME AccessInv, Observe, NEW r \in Requests, NEW how \in Ended, EndAs(r, how),
           pc[r] # "served", UNCHANGED now,
           sessions' \in [Requests -> Session \cup {None}],
           \A x \in Requests \ {r} : SessionMoves(x),
           how = "served" /\ req[r].kind = "login" =>
              sessions'[r] = None \/ sessions'[r].user = req[r].user
    PROVE  AccessInv'
<1> DEFINE left == Left(r, how)
<1>1. /\ left \in [kind : AllKinds \cup {None}, user : Names \cup {None}, good : BOOLEAN,
                   token : Requests \cup {None}, company : Companies \cup {None}]
      /\ left.kind = "login" => how = "served" /\ req[r].kind = "login" /\ left.user = req[r].user
  <2>1. CASE how = "served" /\ req[r].kind = "login"
    BY <2>1 DEF Left, NoRequest, AccessInv, TypeOK, AllKinds
  <2>2. CASE ~(how = "served" /\ req[r].kind = "login")
    BY <2>2, AccessAssumption DEF Left, NoRequest, AccessInv, TypeOK, AllKinds
  <2> QED
    BY <2>1, <2>2
<1>2. /\ pc' = [pc EXCEPT ![r] = how] /\ req' = [req EXCEPT ![r] = left]
      /\ ctx' = [ctx EXCEPT ![r] = NoContext]
  BY DEF EndAs
<1>3. NoContext \in [user : Users \cup {None}, company : Companies \cup {None}]
  BY DEF NoContext
<1> HIDE DEF left
<1>4. TypeOK'
  BY <1>1, <1>2, <1>3 DEF AccessInv, TypeOK
<1>5. pc'[r] = how /\ req'[r] = left
  BY <1>2 DEF AccessInv, TypeOK
<1>6. LoginKnows(r)' /\ CallKnows(r)'
  BY <1>1, <1>5 DEF LoginKnows, CallKnows, LoginSteps, CallSteps, Ended
<1>7. \A x \in Requests \ {r} :
         pc'[x] = pc[x] /\ req'[x] = req[x] /\ ctx'[x] = ctx[x]
  BY <1>2 DEF AccessInv, TypeOK
<1> QED
  BY <1>4, <1>6, <1>7, OneRequest

\* The request goes on to its next statement.
LEMMA GoStep ==
    ASSUME AccessInv, Observe, NEW r \in Requests, pc[r] # "served",
           NEW where \in LoginSteps \cup CallSteps, Goto(r, where),
           NEW c \in [user : Users \cup {None}, company : Companies \cup {None}],
           ctx' = [ctx EXCEPT ![r] = c], UNCHANGED <<now, sessions>>,
           LoginKnows(r)', CallKnows(r)'
    PROVE  AccessInv'
<1>1. TypeOK'
  BY DEF AccessInv, TypeOK, Goto
<1>2. \A x \in Requests \ {r} :
         pc'[x] = pc[x] /\ req'[x] = req[x] /\ ctx'[x] = ctx[x] /\ SessionMoves(x)
  BY DEF AccessInv, TypeOK, Goto, SessionMoves
<1> QED
  BY <1>1, <1>2, OneRequest

\* The same, with nothing learnt.
LEMMA GoOnStep ==
    ASSUME AccessInv, Observe, NEW r \in Requests, pc[r] # "served",
           NEW where \in LoginSteps \cup CallSteps, Goto(r, where),
           UNCHANGED <<now, sessions, ctx>>, LoginKnows(r)', CallKnows(r)'
    PROVE  AccessInv'
<1>1. ctx' = [ctx EXCEPT ![r] = ctx[r]]
      /\ ctx[r] \in [user : Users \cup {None}, company : Companies \cup {None}]
  BY DEF AccessInv, TypeOK
<1> QED
  BY <1>1, GoStep

\* A refusal changes no session.
LEMMA RefuseStep ==
    ASSUME AccessInv, Observe, NEW r \in Requests, EndAs(r, "refused"),
           pc[r] # "served", UNCHANGED <<limiter, store>>
    PROVE  AccessInv'
<1>1. UNCHANGED <<now, sessions>>
  BY DEF limiter, store
<1>2. sessions' \in [Requests -> Session \cup {None}] /\ \A x \in Requests \ {r} : SessionMoves(x)
  BY <1>1 DEF AccessInv, TypeOK, SessionMoves
<1> QED
  BY <1>1, <1>2, EndStep DEF Ended

--------------------------------------------------------------------------------
(* A login. *)

\* It is admitted by the limiter, or refused.
LEMMA BeginLoginStep ==
    ASSUME AccessInv, Observe, NEW r \in Requests, NEW p \in Peers, NEW u \in Names,
           NEW good \in BOOLEAN, NEW c \in Companies \cup {None}, BeginLogin(r, p, u, good, c)
    PROVE  AccessInv'
<1> DEFINE request == [kind |-> "login", user |-> u, good |-> good,
                       token |-> None, company |-> c]
           Quests == [kind : AllKinds \cup {None}, user : Names \cup {None},
                      good : BOOLEAN, token : Requests \cup {None},
                      company : Companies \cup {None}]
<1>1. PICK where \in {"queue", "refused"}, q \in Quests :
         /\ pc' = [pc EXCEPT ![r] = where] /\ req' = [req EXCEPT ![r] = q]
         /\ where = "queue" => q.kind = "login" /\ q.token = None
  <2>1. request \in Quests /\ NoRequest \in Quests /\ request.kind = "login" /\ request.token = None
    BY DEF AllKinds, NoRequest
  <2>2. PICK room : /\ pc' = [pc EXCEPT ![r] = IF Admits(room, p, now) THEN "queue" ELSE "refused"]
                    /\ req' = [req EXCEPT ![r] = IF Admits(room, p, now) THEN request ELSE NoRequest]
    BY DEF BeginLogin
  <2> QED
    BY <2>1, <2>2
<1>2. pc[r] = "idle" /\ UNCHANGED <<now, sessions, ctx>>
  BY DEF BeginLogin, Arrives, store
<1>3. TypeOK'
  BY <1>1, <1>2 DEF AccessInv, TypeOK, LoginSteps, Ended
<1>4. pc'[r] \in {"queue", "refused"}
      /\ (pc'[r] = "queue" => req'[r].kind = "login" /\ req'[r].token = None)
  BY <1>1 DEF AccessInv, TypeOK
<1>5. sessions[r] = None /\ ctx[r] = NoContext
  BY <1>2 DEF AccessInv, LoginKnows
<1>6. LoginKnows(r)' /\ CallKnows(r)'
  BY <1>2, <1>4, <1>5 DEF LoginKnows, CallKnows, LoginSteps, CallSteps, NoContext
<1>7. \A x \in Requests \ {r} :
         pc'[x] = pc[x] /\ req'[x] = req[x] /\ ctx'[x] = ctx[x] /\ SessionMoves(x)
  BY <1>1, <1>2 DEF AccessInv, TypeOK, SessionMoves
<1> QED
  BY <1>2, <1>3, <1>6, <1>7, OneRequest

\* A free slot lets it on.
LEMMA AcquireSlotStep ==
    ASSUME AccessInv, Observe, NEW r \in Requests, AcquireSlot(r)
    PROVE  AccessInv'
<1>1. pc[r] = "queue" /\ Goto(r, "find") /\ UNCHANGED <<now, sessions, ctx>>
  BY DEF AcquireSlot, limiter, store
<1>2. pc'[r] = "find"
  BY <1>1 DEF Goto, AccessInv, TypeOK
<1>3. LoginKnows(r)' /\ CallKnows(r)'
  BY <1>1, <1>2 DEF AccessInv, LoginKnows, CallKnows, LoginSteps, CallSteps, Goto
<1> QED
  BY <1>1, <1>3, GoOnStep DEF LoginSteps

\* An active user is found, or none.
LEMMA FindUserStep ==
    ASSUME AccessInv, Observe, NEW r \in Requests, FindUser(r)
    PROVE  AccessInv'
<1> DEFINE known == req[r].user \in Users /\ users[req[r].user] = "active"
           c == IF known THEN [NoContext EXCEPT !["user"] = req[r].user] ELSE NoContext
<1>1. pc[r] = "find" /\ Goto(r, "verify") /\ UNCHANGED <<now, sessions>>
  BY DEF FindUser, limiter, store
<1>2. ctx[r] = NoContext /\ req[r].token = None /\ req[r].kind = "login" /\ sessions[r] = None
  BY <1>1 DEF AccessInv, LoginKnows, LoginSteps
<1>3. ctx' = [ctx EXCEPT ![r] = c]
  BY <1>2 DEF FindUser, Learn, AccessInv, TypeOK
<1>4. /\ c \in [user : Users \cup {None}, company : Companies \cup {None}]
      /\ c.user # None => known /\ c.user = req[r].user
  BY DEF NoContext
<1>5. known => <<"user">> \in seen[r]
  BY <1>1, <1>2, UserInForce DEF Subject, AccessInv, Watched, LoginSteps
<1>6. pc'[r] = "verify" /\ req'[r] = req[r] /\ ctx'[r] = c /\ sessions'[r] = None
  BY <1>1, <1>2, <1>3 DEF Goto, AccessInv, TypeOK
<1>7. seen[r] \subseteq seen'[r]
  BY <1>6, Accumulates DEF LoginSteps
<1> HIDE DEF c, known
<1>8. LoginKnows(r)' /\ CallKnows(r)'
  BY <1>2, <1>4, <1>5, <1>6, <1>7 DEF LoginKnows, CallKnows, LoginSteps, CallSteps
<1> QED
  BY <1>1, <1>3, <1>4, <1>8, GoStep DEF LoginSteps

\* The password is good, or the login is refused.
LEMMA VerifyStep ==
    ASSUME AccessInv, Observe, NEW r \in Requests, Verify(r)
    PROVE  AccessInv'
<1>1. CASE EndAs(r, "refused")
  BY <1>1, RefuseStep DEF Verify
<1>2. CASE ctx[r].user # None /\ req[r].good /\ Goto(r, "entitle") /\ UNCHANGED ctx
  <2>1. pc[r] = "verify" /\ UNCHANGED <<now, sessions>>
    BY DEF Verify, limiter, store
  <2>2. pc'[r] = "entitle" /\ req'[r] = req[r] /\ ctx'[r] = ctx[r] /\ sessions'[r] = sessions[r]
    BY <1>2, <2>1 DEF Goto, AccessInv, TypeOK
  <2>3. seen[r] \subseteq seen'[r]
    BY <2>2, Accumulates DEF LoginSteps
  <2>4. LoginKnows(r)' /\ CallKnows(r)'
    BY <1>2, <2>1, <2>2, <2>3 DEF AccessInv, LoginKnows, CallKnows, LoginSteps, CallSteps
  <2> QED
    BY <1>2, <2>1, <2>4, GoOnStep DEF LoginSteps
<1> QED
  BY <1>1, <1>2 DEF Verify

\* An entitled company is chosen, or the login is refused.
LEMMA ChooseCompanyStep ==
    ASSUME AccessInv, Observe, NEW r \in Requests, ChooseCompany(r)
    PROVE  AccessInv'
<1>1. CASE EndAs(r, "refused")
  BY <1>1, RefuseStep DEF ChooseCompany
<1>2. ASSUME NEW c \in Choice(ctx[r].user, req[r].company), Learn(r, "company", c), Goto(r, "insert")
      PROVE  AccessInv'
  <2> DEFINE new == [ctx[r] EXCEPT !["company"] = c]
  <2>1. pc[r] = "entitle" /\ UNCHANGED <<now, sessions>>
    BY DEF ChooseCompany, limiter, store
  <2>2. /\ ctx[r].user = req[r].user /\ req[r].token = None
        /\ ctx[r] \in [user : Users \cup {None}, company : Companies \cup {None}]
    BY <2>1 DEF AccessInv, TypeOK, LoginKnows, LoginSteps
  <2>3. c \in Companies /\ Entitled(ctx[r].user, c)
    BY <1>2 DEF Choice, EntitledTo
  <2>4. <<"entitled", c>> \in seen[r]
    BY <2>1, <2>2, <2>3, EntitlementInForce DEF Subject, AccessInv, Watched, LoginSteps
  <2>5. /\ new \in [user : Users \cup {None}, company : Companies \cup {None}]
        /\ new.user = ctx[r].user /\ new.company = c
    BY <2>2, <2>3
  <2>6. ctx' = [ctx EXCEPT ![r] = new]
    BY <1>2 DEF Learn, AccessInv, TypeOK
  <2> HIDE DEF new
  <2>7. pc'[r] = "insert" /\ req'[r] = req[r] /\ ctx'[r] = new /\ sessions'[r] = sessions[r]
    BY <1>2, <2>1, <2>6 DEF Goto, AccessInv, TypeOK
  <2>8. seen[r] \subseteq seen'[r]
    BY <2>7, Accumulates DEF LoginSteps
  <2>9. LoginKnows(r)' /\ CallKnows(r)'
    BY <2>1, <2>3, <2>4, <2>5, <2>7, <2>8
    DEF AccessInv, LoginKnows, CallKnows, LoginSteps, CallSteps
  <2> QED
    BY <1>2, <2>1, <2>5, <2>6, <2>9, GoStep DEF LoginSteps
<1> QED
  BY <1>1, <1>2 DEF ChooseCompany

\* The session is the caller's, and new.
LEMMA InsertSessionStep ==
    ASSUME AccessInv, Observe, NEW r \in Requests, InsertSession(r)
    PROVE  AccessInv'
<1>0. pc[r] = "insert" /\ UNCHANGED now
  BY DEF InsertSession, limiter
<1>1. CASE EndAs(r, "refused") /\ UNCHANGED sessions
  BY <1>0, <1>1, EndStep DEF AccessInv, TypeOK, SessionMoves, Ended
<1>2. CASE ~(EndAs(r, "refused") /\ UNCHANGED sessions)
  <2> DEFINE row == [user |-> ctx[r].user, company |-> ctx[r].company, expires |-> now + TTL]
  <2>1. /\ Goto(r, "refresh") /\ UNCHANGED ctx
        /\ sessions' = [sessions EXCEPT ![r] = row]
    BY <1>2 DEF InsertSession
  <2>2. /\ ctx[r].user \in Users /\ ctx[r].company \in Companies /\ now + TTL \in Nat
        /\ ctx[r].user = req[r].user
    <3>1. ctx[r].user \in Users \cup {None} /\ now \in Nat /\ TTL \in Nat
      BY AccessAssumption DEF AccessInv, TypeOK
    <3>2. /\ ctx[r].user # None /\ ctx[r].user = req[r].user
          /\ ctx[r].company \in Companies
      BY <1>0 DEF AccessInv, LoginKnows
    <3> QED
      BY <3>1, <3>2
  <2>3. row \in Session /\ row.user = req[r].user
    BY <2>2 DEF Session
  <2> HIDE DEF row
  <2>4. TypeOK'
    BY <1>0, <2>1, <2>3 DEF AccessInv, TypeOK, Goto, LoginSteps
  <2>5. pc'[r] = "refresh" /\ req'[r] = req[r] /\ ctx'[r] = ctx[r] /\ sessions'[r] = row
    BY <1>0, <2>1 DEF Goto, AccessInv, TypeOK
  <2>6. seen[r] \subseteq seen'[r]
    BY <2>5, Accumulates DEF LoginSteps
  <2>7. LoginKnows(r)' /\ CallKnows(r)'
    BY <1>0, <2>3, <2>5, <2>6 DEF AccessInv, LoginKnows, CallKnows, LoginSteps, CallSteps
  <2>8. \A x \in Requests \ {r} :
           pc'[x] = pc[x] /\ req'[x] = req[x] /\ ctx'[x] = ctx[x] /\ SessionMoves(x)
    BY <2>1 DEF Goto, AccessInv, TypeOK, SessionMoves
  <2> QED
    BY <1>0, <2>4, <2>7, <2>8, OneRequest
<1> QED
  BY <1>1, <1>2

\* The token is returned, unless the session is gone.
LEMMA RefreshSessionStep ==
    ASSUME AccessInv, Observe, NEW r \in Requests, RefreshSession(r)
    PROVE  AccessInv'
<1>1. pc[r] = "refresh" /\ UNCHANGED <<now, sessions>>
  BY DEF RefreshSession, limiter, store
<1>2. PICK how \in Ended : EndAs(r, how)
  BY DEF RefreshSession, Ended
<1>3. sessions[r] = None \/ sessions[r].user = req[r].user
  BY <1>1 DEF AccessInv, LoginKnows, LoginSteps
<1>4. sessions' \in [Requests -> Session \cup {None}] /\ \A x \in Requests \ {r} : SessionMoves(x)
  BY <1>1 DEF AccessInv, TypeOK, SessionMoves
<1> QED
  BY <1>1, <1>2, <1>3, <1>4, EndStep

--------------------------------------------------------------------------------
(* Any other request. *)

\* A request comes with the token of a login that was served.
LEMMA BeginCallStep ==
    ASSUME AccessInv, Observe, NEW r \in Requests, NEW s \in Requests,
           NEW kind \in {"work", "switch", "logout"}, NEW c \in Companies \cup {None},
           (kind = "switch") = (c # None), BeginCall(r, s, kind, c)
    PROVE  AccessInv'
<1> DEFINE q == [NoRequest EXCEPT !.kind = kind, !.token = s, !.company = c]
<1>1. /\ pc[r] = "idle" /\ pc[s] = "served" /\ req[s].kind = "login"
      /\ pc' = [pc EXCEPT ![r] = "session"] /\ req' = [req EXCEPT ![r] = q]
      /\ UNCHANGED <<now, sessions, ctx>>
  BY DEF BeginCall, Arrives, limiter, store
<1>2. /\ q \in [kind : AllKinds \cup {None}, user : Names \cup {None}, good : BOOLEAN,
                token : Requests \cup {None}, company : Companies \cup {None}]
      /\ q.kind = kind /\ q.token = s /\ q.company = c
  BY DEF NoRequest, AllKinds
<1> HIDE DEF q
<1>3. TypeOK'
  BY <1>1, <1>2 DEF AccessInv, TypeOK, CallSteps
<1>4. /\ pc'[r] = "session" /\ req'[r] = q /\ pc'[s] = "served" /\ req'[s] = req[s]
  BY <1>1 DEF AccessInv, TypeOK
<1>5. LoginKnows(r)' /\ CallKnows(r)'
  BY <1>1, <1>2, <1>4 DEF LoginKnows, CallKnows, LoginSteps, CallSteps
<1>6. \A x \in Requests \ {r} :
         pc'[x] = pc[x] /\ req'[x] = req[x] /\ ctx'[x] = ctx[x] /\ SessionMoves(x)
  BY <1>1 DEF AccessInv, TypeOK, SessionMoves
<1> QED
  BY <1>1, <1>3, <1>5, <1>6, OneRequest

\* What a call has in hand.
LEMMA CallHas ==
    ASSUME AccessInv, NEW r \in Requests, pc[r] \in CallSteps
    PROVE  /\ req[r].kind \in {"work", "switch", "logout"} /\ req[r].token \in Requests
           /\ pc[req[r].token] = "served" /\ req[req[r].token].kind = "login"
           /\ Row(r) = sessions[req[r].token] /\ Subject(r) = req[req[r].token].user
           /\ Row(r) # None => Row(r).user = Subject(r) /\ Row(r) \in Session
           /\ InForce(r) \subseteq seen[r]
<1>1. /\ req[r].kind \in {"work", "switch", "logout"} /\ req[r].token \in Requests
      /\ pc[req[r].token] = "served" /\ req[req[r].token].kind = "login"
  BY DEF AccessInv, CallKnows
<1>2. req[r].token # None
  BY <1>1, AccessAssumption DEF Requests
<1>3. Row(r) = sessions[req[r].token] /\ Subject(r) = req[req[r].token].user
  BY <1>2 DEF Row, Subject
<1>4. Row(r) # None => Row(r).user = Subject(r) /\ Row(r) \in Session
  <2>1. PICK s \in Requests : s = req[r].token /\ pc[s] = "served" /\ req[s].kind = "login"
    BY <1>1
  <2>2. sessions[s] \in Session \cup {None}
    BY DEF AccessInv, TypeOK
  <2>3. sessions[s] = None \/ sessions[s].user = req[s].user
    BY <2>1 DEF AccessInv, LoginKnows
  <2> QED
    BY <1>3, <2>1, <2>2, <2>3
<1>5. InForce(r) \subseteq seen[r]
  BY DEF AccessInv, Watched
<1> QED
  BY <1>1, <1>3, <1>4, <1>5

\* A step of a call to its next statement leaves its token served.
LEMMA CallGoes ==
    ASSUME AccessInv, Observe, NEW r \in Requests, pc[r] \in CallSteps,
           NEW where \in CallSteps, Goto(r, where)
    PROVE  /\ pc'[r] = where /\ req'[r] = req[r] /\ seen[r] \subseteq seen'[r]
           /\ LoginKnows(r)'
           /\ req'[r].kind \in {"work", "switch", "logout"} /\ req'[r].token \in Requests
           /\ pc'[req'[r].token] = "served" /\ req'[req'[r].token].kind = "login"
           /\ req'[r].kind = "switch" => req'[r].company \in Companies
           /\ req'[req'[r].token].user = req[req[r].token].user
<1>1. pc'[r] = where /\ req' = req
  BY DEF Goto, AccessInv, TypeOK
<1>2. PICK s \in Requests : s = req[r].token /\ pc[s] = "served" /\ req[s].kind = "login"
  BY CallHas
<1>3. s # r /\ pc'[s] = "served"
  BY <1>2 DEF CallSteps, Goto, AccessInv, TypeOK
<1>4. seen[r] \subseteq seen'[r]
  BY <1>1, Accumulates
<1>5. LoginKnows(r)'
  BY <1>1 DEF LoginKnows, LoginSteps, CallSteps
<1>6. req[r].kind = "switch" => req[r].company \in Companies
  BY DEF AccessInv, CallKnows
<1> QED
  BY <1>1, <1>2, <1>3, <1>4, <1>5, <1>6, CallHas

\* The session is there and has not expired, or the call is refused.
LEMMA ReadSessionStep ==
    ASSUME AccessInv, Observe, NEW r \in Requests, ReadSession(r)
    PROVE  AccessInv'
<1>0. pc[r] = "session" /\ pc[r] \in CallSteps
  BY DEF ReadSession, CallSteps
<1>1. CASE Row(r) = None \/ Expired(Row(r), now)
  BY <1>0, <1>1, RefuseStep DEF ReadSession
<1>2. CASE ~(Row(r) = None \/ Expired(Row(r), now))
  <2> DEFINE c == [user |-> Row(r).user, company |-> Row(r).company]
  <2>1. Goto(r, "user") /\ ctx' = [ctx EXCEPT ![r] = c] /\ UNCHANGED <<now, sessions>>
    BY <1>2 DEF ReadSession, limiter, store
  <2>2. /\ Row(r).user \in Users /\ Row(r).company \in Companies /\ Row(r).user = Subject(r)
        /\ <<"session">> \in seen[r] /\ <<"at", Row(r).company>> \in seen[r]
    BY <1>0, <1>2, CallHas, SessionInForce DEF Session
  <2>3. /\ c \in [user : Users \cup {None}, company : Companies \cup {None}]
        /\ c.user = Row(r).user /\ c.company = Row(r).company
    BY <2>2
  <2> HIDE DEF c
  <2>4. ctx'[r] = c
    BY <2>1 DEF AccessInv, TypeOK
  <2>5. LoginKnows(r)' /\ CallKnows(r)'
    <3>1. Subject(r) = req[req[r].token].user
      BY <1>0, CallHas
    <3>2. /\ pc'[r] = "user" /\ seen[r] \subseteq seen'[r] /\ LoginKnows(r)'
          /\ req'[r].kind \in {"work", "switch", "logout"} /\ req'[r].token \in Requests
          /\ pc'[req'[r].token] = "served" /\ req'[req'[r].token].kind = "login"
          /\ req'[r].kind = "switch" => req'[r].company \in Companies
          /\ req'[req'[r].token].user = req[req[r].token].user
      BY <1>0, <2>1, CallGoes DEF CallSteps
    <3> QED
      BY <2>2, <2>3, <2>4, <3>1, <3>2 DEF CallKnows, CallSteps
  <2> QED
    BY <1>0, <2>1, <2>3, <2>5, GoStep DEF CallSteps
<1> QED
  BY <1>1, <1>2

\* The user is active, or the call is refused.
LEMMA ReadUserStep ==
    ASSUME AccessInv, Observe, NEW r \in Requests, ReadUser(r)
    PROVE  AccessInv'
<1>0. pc[r] = "user" /\ pc[r] \in CallSteps
  BY DEF ReadUser, CallSteps
<1>1. CASE users[ctx[r].user] # "active"
  BY <1>0, <1>1, RefuseStep DEF ReadUser
<1>2. CASE users[ctx[r].user] = "active"
  <2>1. Goto(r, "codes") /\ UNCHANGED <<now, sessions, ctx>>
    BY <1>2 DEF ReadUser, limiter, store
  <2>2. Subject(r) \in Users /\ users[Subject(r)] = "active"
    <3>1. ctx[r].user \in Users /\ ctx[r].user = req[req[r].token].user
      BY <1>0 DEF AccessInv, CallKnows
    <3> QED
      BY <1>0, <1>2, <3>1, CallHas
  <2>3. <<"user">> \in seen[r]
    BY <1>0, <2>2, CallHas, UserInForce
  <2>4. LoginKnows(r)' /\ CallKnows(r)'
    <3>1. CallKnows(r)
      BY DEF AccessInv
    <3> QED
      BY <1>0, <2>1, <2>3, <3>1, CallGoes DEF CallKnows, CallSteps
  <2> QED
    BY <1>0, <2>1, <2>4, GoOnStep DEF CallSteps
<1> QED
  BY <1>1, <1>2

\* The codes of the session's company, for the routes that need one.
LEMMA ReadCodesStep ==
    ASSUME AccessInv, Observe, NEW r \in Requests, ReadCodes(r)
    PROVE  AccessInv'
<1>0. /\ pc[r] = "codes" /\ pc[r] \in CallSteps /\ UNCHANGED <<now, sessions>>
      /\ UNCHANGED <<limiter, store>>
  BY DEF ReadCodes, CallSteps, limiter, store
<1>a. CallKnows(r)
  BY DEF AccessInv
<1>1. CASE EndAs(r, "refused")
  BY <1>0, <1>1, RefuseStep
<1>2. CASE req[r].kind = "work" /\ Entitled(ctx[r].user, ctx[r].company) /\ Goto(r, "work")
           /\ UNCHANGED ctx
  <2>1. <<"entitled", ctx[r].company>> \in seen[r]
    <3>1. ctx[r].user = Subject(r) /\ ctx[r].company \in Companies
      BY <1>0, <1>a, CallHas DEF CallKnows
    <3> QED
      BY <1>0, <1>2, <3>1, CallHas, EntitlementInForce
  <2>2. CallKnows(r)' /\ LoginKnows(r)'
    BY <1>0, <1>2, <1>a, <2>1, CallGoes DEF CallKnows, CallSteps
  <2> QED
    BY <1>0, <1>2, <2>2, GoOnStep DEF CallSteps
<1>3. CASE req[r].kind # "work" /\ Goto(r, "row") /\ UNCHANGED ctx
  <2>1. CallKnows(r)' /\ LoginKnows(r)'
    BY <1>0, <1>3, <1>a, CallGoes DEF CallKnows, CallSteps
  <2> QED
    BY <1>0, <1>3, <2>1, GoOnStep DEF CallSteps
<1> QED
  BY <1>1, <1>2, <1>3 DEF ReadCodes

\* A request that is no login ends, and changes no session.
LEMMA CallEnds ==
    ASSUME AccessInv, Observe, NEW r \in Requests, pc[r] \in CallSteps,
           NEW how \in Ended, EndAs(r, how), UNCHANGED <<now, sessions>>
    PROVE  AccessInv'
<1>1. req[r].kind # "login" /\ pc[r] # "served"
  BY CallHas DEF CallSteps
<1>2. sessions' \in [Requests -> Session \cup {None}] /\ \A x \in Requests \ {r} : SessionMoves(x)
  BY DEF AccessInv, TypeOK, SessionMoves
<1> QED
  BY <1>1, <1>2, EndStep

\* The work is done.
LEMMA WorkStep ==
    ASSUME AccessInv, Observe, NEW r \in Requests, Work(r)
    PROVE  AccessInv'
BY CallEnds DEF Work, CallSteps, Ended, limiter, store

\* The row is read again.
LEMMA ReadRowStep ==
    ASSUME AccessInv, Observe, NEW r \in Requests, ReadRow(r)
    PROVE  AccessInv'
<1>0. pc[r] = "row" /\ pc[r] \in CallSteps /\ UNCHANGED <<now, sessions, limiter, store>>
  BY DEF ReadRow, CallSteps, limiter, store
<1>1. CASE Row(r) = None
  BY <1>0, <1>1, CallEnds DEF ReadRow, Ended
<1>2. CASE Row(r) # None
  <2> DEFINE where == IF req[r].kind = "switch" THEN "entitled" ELSE "delete"
             c == [ctx[r] EXCEPT !["company"] = Row(r).company]
  <2>1. Goto(r, where) /\ ctx' = [ctx EXCEPT ![r] = c]
    BY <1>2 DEF ReadRow, Learn, AccessInv, TypeOK
  <2>2. Row(r).company \in Companies
    BY <1>0, <1>2, CallHas DEF Session
  <2>3. /\ c \in [user : Users \cup {None}, company : Companies \cup {None}]
        /\ c.user = ctx[r].user /\ c.company = Row(r).company
    <3>1. ctx[r] \in [user : Users \cup {None}, company : Companies \cup {None}]
      BY DEF AccessInv, TypeOK
    <3> QED
      BY <2>2, <3>1
  <2> HIDE DEF c
  <2>4. ctx'[r] = c
    BY <2>1 DEF AccessInv, TypeOK
  <2>5. CallKnows(r)
    BY DEF AccessInv
  <2>6. CallKnows(r)' /\ LoginKnows(r)'
    <3>1. /\ pc'[r] = where /\ req'[r] = req[r] /\ seen[r] \subseteq seen'[r]
          /\ LoginKnows(r)'
          /\ req'[r].kind \in {"work", "switch", "logout"} /\ req'[r].token \in Requests
          /\ pc'[req'[r].token] = "served" /\ req'[req'[r].token].kind = "login"
          /\ req'[r].kind = "switch" => req'[r].company \in Companies
          /\ req'[req'[r].token].user = req[req[r].token].user
      <4>1. where \in CallSteps
        BY DEF CallSteps
      <4> QED
        BY <1>0, <2>1, <4>1, CallGoes
    <3>2. /\ ctx[r].user \in Users /\ ctx[r].user = req[req[r].token].user
          /\ <<"session">> \in seen[r] /\ <<"user">> \in seen[r] /\ req[r].kind # "work"
      BY <1>0, <2>5 DEF CallKnows, CallSteps
    <3>3. ctx'[r].user \in Users /\ ctx'[r].user = req'[req'[r].token].user
          /\ ctx'[r].company \in Companies
      BY <2>2, <2>3, <2>4, <3>1, <3>2
    <3>4. CASE req[r].kind = "switch"
      BY <3>1, <3>2, <3>3, <3>4 DEF CallKnows, CallSteps
    <3>5. CASE req[r].kind # "switch"
      BY <3>1, <3>2, <3>3, <3>5 DEF CallKnows, CallSteps
    <3> QED
      BY <3>1, <3>4, <3>5
  <2> QED
    BY <1>0, <2>1, <2>3, <2>6, GoStep DEF CallSteps
<1> QED
  BY <1>1, <1>2

\* A switch needs an entitlement to the company asked for.
LEMMA CheckEntitledStep ==
    ASSUME AccessInv, Observe, NEW r \in Requests, CheckEntitled(r)
    PROVE  AccessInv'
<1>0. pc[r] = "entitled" /\ pc[r] \in CallSteps /\ UNCHANGED <<now, sessions, limiter, store>>
  BY DEF CheckEntitled, CallSteps, limiter, store
<1>1. CASE ~Entitled(ctx[r].user, req[r].company)
  BY <1>0, <1>1, CallEnds DEF CheckEntitled, Ended
<1>2. CASE Entitled(ctx[r].user, req[r].company)
  <2>1. Goto(r, "update") /\ UNCHANGED ctx
    BY <1>2 DEF CheckEntitled
  <2>2. CallKnows(r)
    BY DEF AccessInv
  <2>3. <<"entitled", req[r].company>> \in seen[r]
    <3>1. ctx[r].user = Subject(r) /\ req[r].company \in Companies
      BY <1>0, <2>2, CallHas DEF CallKnows
    <3> QED
      BY <1>0, <1>2, <3>1, CallHas, EntitlementInForce
  <2>4. CallKnows(r)' /\ LoginKnows(r)'
    BY <1>0, <2>1, <2>2, <2>3, CallGoes DEF CallKnows, CallSteps
  <2> QED
    BY <1>0, <2>1, <2>4, GoOnStep DEF CallSteps
<1> QED
  BY <1>1, <1>2

\* The session moves to the company asked for, if it is still there.
LEMMA MovedMoves ==
    ASSUME AccessInv, NEW s \in Requests, NEW c \in Companies, sessions' = Moved(s, c)
    PROVE  /\ sessions' \in [Requests -> Session \cup {None}]
           /\ \A x \in Requests : SessionMoves(x)
<1>1. sessions \in [Requests -> Session \cup {None}]
  BY DEF AccessInv, TypeOK
<1>2. sessions'[s] \in Session \cup {None} /\ SessionMoves(s)
  <2>1. sessions'[s] = IF sessions[s] = None THEN None ELSE [sessions[s] EXCEPT !.company = c]
    BY <1>1 DEF Moved
  <2> QED
    BY <1>1, <2>1 DEF SessionMoves, Session
<1>3. \A x \in Requests \ {s} : sessions'[x] = sessions[x]
  BY <1>1 DEF Moved
<1>4. sessions' = [x \in Requests |-> sessions'[x]]
  BY <1>1 DEF Moved
<1> QED
  BY <1>1, <1>2, <1>3, <1>4 DEF SessionMoves

\* switch-company writes the row.
LEMMA UpdateSessionStep ==
    ASSUME AccessInv, Observe, NEW r \in Requests, UpdateSession(r)
    PROVE  AccessInv'
<1>0. /\ pc[r] = "update" /\ pc[r] \in CallSteps /\ UNCHANGED now
      /\ \E how \in Ended : EndAs(r, how)
  BY DEF UpdateSession, CallSteps, limiter, Ended
<1>1. CASE UNCHANGED sessions
  BY <1>0, <1>1, CallEnds
<1>2. CASE sessions' = Moved(req[r].token, req[r].company)
  <2>1. req[r].kind = "switch" /\ req[r].token \in Requests /\ req[r].company \in Companies
    BY <1>0, CallHas DEF AccessInv, CallKnows
  <2> QED
    BY <1>0, <1>2, <2>1, MovedMoves, EndStep DEF CallSteps
<1> QED
  BY <1>1, <1>2 DEF UpdateSession

\* logout deletes it.
LEMMA DeleteSessionStep ==
    ASSUME AccessInv, Observe, NEW r \in Requests, DeleteSession(r)
    PROVE  AccessInv'
<1>1. /\ pc[r] = "delete" /\ pc[r] \in CallSteps /\ UNCHANGED now /\ EndAs(r, "served")
      /\ sessions' = [sessions EXCEPT ![req[r].token] = None]
  BY DEF DeleteSession, CallSteps, limiter
<1>2. sessions' \in [Requests -> Session \cup {None}] /\ \A x \in Requests : SessionMoves(x)
  BY <1>1 DEF AccessInv, TypeOK, SessionMoves
<1> QED
  BY <1>1, <1>2, CallHas, EndStep DEF CallSteps, Ended

--------------------------------------------------------------------------------
(* Steps of no request. *)

\* What leaves the requests alone, and at most takes sessions away.
LEMMA OutsideStep ==
    ASSUME AccessInv, Observe, UNCHANGED <<pc, req, ctx>>, now' \in Nat,
           sessions' \in [Requests -> Session \cup {None}],
           \A x \in Requests : SessionMoves(x)
    PROVE  AccessInv'
<1>1. TypeOK'
  BY DEF AccessInv, TypeOK
<1> HIDE DEF SessionMoves
<1>2. ASSUME NEW x \in Requests PROVE LoginKnows(x)' /\ CallKnows(x)'
  BY OthersKnow
<1> QED
  BY <1>1, <1>2, WatchedNext DEF AccessInv

\* Users, entitlements and sessions change in the database.
LEMMA OperatorStep ==
    ASSUME AccessInv, Observe, Operator
    PROVE  AccessInv'
<1>1. UNCHANGED <<pc, req, ctx>> /\ now' \in Nat
  BY DEF Operator, DisableUser, EnableUser, DeleteUser, Revoke, Grant, limiter, AccessInv, TypeOK
<1>2. \/ UNCHANGED sessions
      \/ \E u \in Users : sessions' = [s \in Requests |->
            IF sessions[s] # None /\ sessions[s].user = u THEN None ELSE sessions[s]]
  BY DEF Operator, DisableUser, EnableUser, DeleteUser, Revoke, Grant
<1>3. sessions' \in [Requests -> Session \cup {None}] /\ \A x \in Requests : SessionMoves(x)
  BY <1>2 DEF AccessInv, TypeOK, SessionMoves
<1> QED
  BY <1>1, <1>3, OutsideStep

\* Time passes.
LEMMA TickStep ==
    ASSUME AccessInv, Observe, Tick
    PROVE  AccessInv'
<1>1. UNCHANGED <<pc, req, ctx, sessions>> /\ now' \in Nat
  BY DEF Tick, store, AccessInv, TypeOK
<1>2. sessions' \in [Requests -> Session \cup {None}] /\ \A x \in Requests : SessionMoves(x)
  BY <1>1 DEF AccessInv, TypeOK, SessionMoves
<1> QED
  BY <1>1, <1>2, OutsideStep

\* A restart ends the requests under way.
LEMMA RestartStep ==
    ASSUME AccessInv, Observe, Restart
    PROVE  AccessInv'
<1>1. UNCHANGED <<now, sessions>>
  BY DEF Restart, store
<1>2. NoRequest \in [kind : AllKinds \cup {None}, user : Names \cup {None}, good : BOOLEAN,
                     token : Requests \cup {None}, company : Companies \cup {None}]
      /\ NoContext \in [user : Users \cup {None}, company : Companies \cup {None}]
  BY DEF NoRequest, NoContext
<1>3. TypeOK'
  BY <1>1, <1>2 DEF Restart, AccessInv, TypeOK, Ended
<1>4. ASSUME NEW x \in Requests PROVE LoginKnows(x)' /\ CallKnows(x)'
  <2>1. /\ ctx'[x] = NoContext /\ sessions'[x] = sessions[x]
        /\ IF pc[x] \in Ended \cup {"idle"} THEN pc'[x] = pc[x] /\ req'[x] = req[x]
           ELSE pc'[x] = "refused"
    BY <1>1 DEF Restart
  <2>2. LoginKnows(x)
    BY DEF AccessInv
  <2> QED
    BY <2>1, <2>2 DEF LoginKnows, CallKnows, LoginSteps, CallSteps, Ended
<1> QED
  BY <1>3, <1>4, WatchedNext DEF AccessInv

--------------------------------------------------------------------------------
(* The theorems. *)

\* Every step keeps the invariant.
LEMMA NextInv == AccessInv /\ [Next]_vars => AccessInv'
<1> SUFFICES ASSUME AccessInv, [Next]_vars PROVE AccessInv'
  OBVIOUS
<1>1. CASE UNCHANGED vars
  <2>1. UNCHANGED <<now, users, grants, sessions, pc, req, ctx, seen>>
    BY <1>1 DEF vars, limiter, store
  <2>2. ASSUME NEW r \in Requests PROVE InForce(r)' = InForce(r)
    BY <2>1 DEF InForce, Row, Subject, Expired
  <2>3. Watched'
    BY <2>1, <2>2 DEF AccessInv, Watched
  <2>4. TypeOK'
    BY <2>1 DEF AccessInv, TypeOK
  <2>5. ASSUME NEW r \in Requests PROVE LoginKnows(r)' /\ CallKnows(r)'
    BY <2>1 DEF AccessInv, LoginKnows, CallKnows
  <2> QED
    BY <2>3, <2>4, <2>5 DEF AccessInv
<1>2. CASE Next
  <2>0. Observe
    BY <1>2 DEF Next
  <2>1. ASSUME NEW r \in Requests, Begin(r) PROVE AccessInv'
    <3>1. \A kind \in Kinds \ {"login"} : kind \in {"work", "switch", "logout"}
      BY AccessAssumption DEF AllKinds
    <3> QED
      BY <2>0, <2>1, <3>1, BeginLoginStep, BeginCallStep DEF Begin
  <2>2. ASSUME NEW r \in Requests, Login(r) PROVE AccessInv'
    BY <2>0, <2>2, AcquireSlotStep, FindUserStep, VerifyStep, ChooseCompanyStep,
       InsertSessionStep, RefreshSessionStep DEF Login
  <2>3. ASSUME NEW r \in Requests, Call(r) PROVE AccessInv'
    BY <2>0, <2>3, ReadSessionStep, ReadUserStep, ReadCodesStep, WorkStep, ReadRowStep,
       CheckEntitledStep, UpdateSessionStep, DeleteSessionStep DEF Call
  <2> QED
    BY <1>2, <2>0, <2>1, <2>2, <2>3, OperatorStep, TickStep, RestartStep DEF Next
<1> QED
  BY <1>1, <1>2

\* AccessInv is an invariant: what a request has read was in force since it came.
THEOREM AccessInductive == Spec => []AccessInv
<1> QED
  BY InitInv, NextInv, PTL DEF Spec

\* The steps that serve a request.
LEMMA ServingSteps ==
    ASSUME AccessInv, Next, NEW r \in Requests, pc[r] # "served", pc'[r] = "served"
    PROVE  RefreshSession(r) \/ Work(r) \/ UpdateSession(r) \/ DeleteSession(r)
<1>1. ASSUME NEW x \in Requests, x # r, Begin(x) \/ Login(x) \/ Call(x)
      PROVE  FALSE
  <2>1. ASSUME NEW where, Goto(x, where) \/ EndAs(x, where) PROVE pc'[r] = pc[r]
    BY <1>1, <2>1 DEF AccessInv, TypeOK, Goto, EndAs
  <2>2. Begin(x) => pc'[r] = pc[r]
    BY <1>1 DEF AccessInv, TypeOK, Begin, BeginLogin, BeginCall
  <2>3. Login(x) => pc'[r] = pc[r]
    BY <2>1 DEF Login, AcquireSlot, FindUser, Verify, ChooseCompany, InsertSession, RefreshSession
  <2>4. Call(x) => pc'[r] = pc[r]
    BY <2>1 DEF Call, ReadSession, ReadUser, ReadCodes, Work, ReadRow, CheckEntitled,
       UpdateSession, DeleteSession
  <2> QED
    BY <1>1, <2>2, <2>3, <2>4
<1>2. ASSUME Operator \/ Tick \/ Restart PROVE FALSE
  <2>1. Operator \/ Tick => UNCHANGED pc
    BY DEF Operator, DisableUser, EnableUser, DeleteUser, Revoke, Grant, Tick
  <2>2. Restart => pc'[r] = pc[r] \/ pc'[r] = "refused"
    BY DEF Restart
  <2> QED
    BY <1>2, <2>1, <2>2
<1>3. ~Begin(r)
  BY DEF Begin, BeginLogin, BeginCall, AccessInv, TypeOK
<1>4. Login(r) => RefreshSession(r)
  BY DEF Login, AcquireSlot, FindUser, Verify, ChooseCompany, InsertSession, Goto, EndAs,
     AccessInv, TypeOK
<1>5. Call(r) => Work(r) \/ UpdateSession(r) \/ DeleteSession(r)
  BY DEF Call, ReadSession, ReadUser, ReadCodes, ReadRow, CheckEntitled, Goto, EndAs,
     AccessInv, TypeOK
<1> QED
  BY <1>1, <1>2, <1>3, <1>4, <1>5 DEF Next

\* No request is served on a fact that was not in force at some moment since it
\* arrived, however its statements interleave with everybody else's.
THEOREM ServedOnFacts == Spec => ServedFreshly
<1> DEFINE Serves ==
      \A r \in Requests : pc'[r] = "served" /\ pc[r] # "served" =>
          Needed(r) \subseteq seen[r] /\ (req[r].kind = "login" => req[r].good)
<1>1. AccessInv /\ [Next]_vars => [Serves]_vars
  <2> SUFFICES ASSUME AccessInv, Next, NEW r \in Requests, pc'[r] = "served", pc[r] # "served"
               PROVE  Needed(r) \subseteq seen[r] /\ (req[r].kind = "login" => req[r].good)
    OBVIOUS
  <2>0. LoginKnows(r) /\ CallKnows(r)
    BY DEF AccessInv
  <2>1. CASE RefreshSession(r)
    <3>1. /\ req[r].kind = "login" /\ req[r].good
          /\ <<"user">> \in seen[r] /\ <<"entitled", ctx[r].company>> \in seen[r]
      BY <2>0, <2>1 DEF RefreshSession, LoginKnows, LoginSteps
    <3> QED
      BY <3>1 DEF Needed
  <2>2. CASE Work(r)
    <3>1. /\ req[r].kind = "work" /\ <<"session">> \in seen[r] /\ <<"user">> \in seen[r]
          /\ <<"at", ctx[r].company>> \in seen[r] /\ <<"entitled", ctx[r].company>> \in seen[r]
      BY <2>0, <2>2 DEF Work, CallKnows, CallSteps
    <3> QED
      BY <3>1 DEF Needed
  <2>3. CASE UpdateSession(r)
    <3>1. /\ req[r].kind = "switch" /\ <<"session">> \in seen[r] /\ <<"user">> \in seen[r]
          /\ <<"entitled", req[r].company>> \in seen[r]
      BY <2>0, <2>3 DEF UpdateSession, CallKnows, CallSteps
    <3> QED
      BY <3>1 DEF Needed
  <2>4. CASE DeleteSession(r)
    <3>1. req[r].kind = "logout" /\ <<"session">> \in seen[r] /\ <<"user">> \in seen[r]
      BY <2>0, <2>4 DEF DeleteSession, CallKnows, CallSteps
    <3> QED
      BY <3>1 DEF Needed
  <2> QED
    BY <2>1, <2>2, <2>3, <2>4, ServingSteps
<1> QED
  BY <1>1, AccessInductive, PTL DEF Spec, ServedFreshly

\* A session that ended never comes back, and none changes hands.
THEOREM NoSessionReturns == Spec => SessionsOnlyMoveOrGo
<1> DEFINE Moves ==
      \A s \in Requests : sessions'[s] # sessions[s] =>
          IF sessions[s] = None
          THEN pc[s] = "insert" /\ sessions'[s].user = req[s].user
          ELSE sessions'[s] = None
               \/ sessions'[s] = [sessions[s] EXCEPT !.company = sessions'[s].company]
<1>1. AccessInv /\ [Next]_vars => Moves
  <2> SUFFICES ASSUME AccessInv, [Next]_vars, NEW s \in Requests, sessions'[s] # sessions[s]
               PROVE  IF sessions[s] = None
                      THEN pc[s] = "insert" /\ sessions'[s].user = req[s].user
                      ELSE sessions'[s] = None
                        \/ sessions'[s] = [sessions[s] EXCEPT !.company = sessions'[s].company]
    OBVIOUS
  <2>1. SessionMoves(s) => sessions[s] # None /\ (sessions'[s] = None
            \/ sessions'[s] = [sessions[s] EXCEPT !.company = sessions'[s].company])
    BY AccessAssumption DEF SessionMoves, AccessInv, TypeOK
  <2>2. CASE Operator
    <3>1. \E u \in Users : sessions' = [x \in Requests |->
            IF sessions[x] # None /\ sessions[x].user = u THEN None ELSE sessions[x]]
      BY <2>2 DEF Operator, DisableUser, EnableUser, DeleteUser, Revoke, Grant
    <3> QED
      BY <2>1, <3>1 DEF SessionMoves
  <2>3. ASSUME NEW r \in Requests, InsertSession(r)
        PROVE  IF sessions[s] = None
               THEN pc[s] = "insert" /\ sessions'[s].user = req[s].user
               ELSE sessions'[s] = None
    <3>1. /\ pc[r] = "insert"
          /\ sessions' = [sessions EXCEPT ![r] =
                [user |-> ctx[r].user, company |-> ctx[r].company, expires |-> now + TTL]]
      BY <2>3 DEF InsertSession
    <3>2. s = r /\ sessions'[s].user = ctx[r].user
      BY <3>1 DEF AccessInv, TypeOK
    <3>3. sessions[r] = None /\ ctx[r].user = req[r].user
      BY <3>1 DEF AccessInv, LoginKnows, LoginSteps
    <3> QED
      BY <3>1, <3>2, <3>3
  <2>4. ASSUME NEW r \in Requests, UpdateSession(r)
        PROVE  SessionMoves(s)
    <3>1. pc[r] = "update" /\ sessions' = Moved(req[r].token, req[r].company)
      BY <2>4 DEF UpdateSession
    <3>2. req[r].kind = "switch" /\ req[r].token \in Requests /\ req[r].company \in Companies
      BY <3>1, CallHas DEF CallSteps, AccessInv, CallKnows
    <3> QED
      BY <3>1, <3>2, MovedMoves
  <2>5. ASSUME NEW r \in Requests, DeleteSession(r)
        PROVE  SessionMoves(s)
    BY <2>5 DEF DeleteSession, SessionMoves, AccessInv, TypeOK
  <2>6. ASSUME NEW r \in Requests, Begin(r)
        PROVE  UNCHANGED sessions
    BY <2>6 DEF Begin, BeginLogin, BeginCall, store
  <2>7. ASSUME NEW r \in Requests, Login(r)
        PROVE  InsertSession(r) \/ UNCHANGED sessions
    <3>1. CASE AcquireSlot(r) \/ FindUser(r) \/ Verify(r)
      BY <3>1 DEF AcquireSlot, FindUser, Verify, store
    <3>2. CASE ChooseCompany(r) \/ RefreshSession(r)
      BY <3>2 DEF ChooseCompany, RefreshSession, store
    <3> QED
      BY <2>7, <3>1, <3>2 DEF Login
  <2>8. ASSUME NEW r \in Requests, Call(r)
        PROVE  UpdateSession(r) \/ DeleteSession(r) \/ UNCHANGED sessions
    <3>1. CASE ReadSession(r) \/ ReadUser(r) \/ ReadCodes(r)
      BY <3>1 DEF ReadSession, ReadUser, ReadCodes, store
    <3>2. CASE Work(r) \/ ReadRow(r) \/ CheckEntitled(r)
      BY <3>2 DEF Work, ReadRow, CheckEntitled, store
    <3> QED
      BY <2>8, <3>1, <3>2 DEF Call
  <2>9. Tick \/ Restart \/ UNCHANGED vars => UNCHANGED sessions
    BY DEF Tick, Restart, store, vars
  <2>10. \/ Operator
         \/ \E r \in Requests : InsertSession(r) \/ UpdateSession(r) \/ DeleteSession(r)
    BY <2>6, <2>7, <2>8, <2>9 DEF Next
  <2> QED
    BY <2>1, <2>2, <2>3, <2>4, <2>5, <2>10
<1>2. Spec => [][Moves]_vars
  BY <1>1, AccessInductive, PTL DEF Spec
<1> QED
  BY <1>2, PTL DEF SessionsOnlyMoveOrGo

--------------------------------------------------------------------------------
(* The rate limiter. *)

\* Attempts that are in the window still are when less of it is asked for.
LEMMA LiveTwice ==
    ASSUME NEW time, NEW attempts
    PROVE  Live(time, Live(time, attempts)) = Live(time, attempts)
BY DEF Live

\* The peers with an attempt that counts.
Tracked(tab, time) == {x \in DOMAIN tab : Live(time, tab[x]) # {}}

\* Making room keeps the attempts of the peers that stay, as far as they count, and
\* a peer that goes has none or went because as many as can be tracked have some.
LEMMA RoomKeeps ==
    ASSUME NEW tab, NEW p, NEW time, NEW room \in RoomFor(tab, p, time)
    PROVE  /\ DOMAIN room \subseteq DOMAIN tab
           /\ \A q \in DOMAIN room :
                 room[q] \subseteq tab[q] /\ Live(time, room[q]) = Live(time, tab[q])
           /\ \A q \in DOMAIN tab \ DOMAIN room :
                 \/ Live(time, tab[q]) = {}
                 \/ Cardinality(Tracked(tab, time)) >= MaxTracked
<1> DEFINE pruned == Prune(tab, time)
<1>1. DOMAIN pruned = Tracked(tab, time) /\ \A q \in Tracked(tab, time) : pruned[q] = Live(time, tab[q])
  BY DEF Prune, Tracked
<1>2. \A q \in DOMAIN pruned :
         pruned[q] \subseteq tab[q] /\ Live(time, pruned[q]) = Live(time, tab[q])
  <2>1. \A q \in Tracked(tab, time) : Live(time, tab[q]) \subseteq tab[q]
    BY DEF Live
  <2> QED
    BY <1>1, <2>1, LiveTwice
<1>3. Full(pruned) => Cardinality(Tracked(tab, time)) >= MaxTracked
  BY <1>1 DEF Full
<1> HIDE DEF pruned
<1>4. \/ room = tab
      \/ room = pruned
      \/ Full(pruned) /\ \E x \in DOMAIN pruned : room = Without(pruned, x)
      \/ Full(tab) /\ ~Full(tab)
  <2>1. Oldest(pruned) \subseteq DOMAIN pruned
    BY DEF Oldest
  <2>2. CASE p \in DOMAIN tab
    BY <2>2 DEF RoomFor
  <2>3. CASE p \notin DOMAIN tab /\ Full(tab)
    BY <2>1, <2>3 DEF RoomFor, pruned
  <2>4. CASE p \notin DOMAIN tab /\ ~Full(tab)
    BY <2>4 DEF RoomFor
  <2> QED
    BY <2>2, <2>3, <2>4
<1>5. CASE room = tab
  BY <1>5
<1>6. CASE room = pruned
  BY <1>1, <1>2, <1>6 DEF Tracked
<1>7. ASSUME Full(pruned), NEW x \in DOMAIN pruned, room = Without(pruned, x)
      PROVE  /\ DOMAIN room \subseteq DOMAIN tab
             /\ \A q \in DOMAIN room :
                   room[q] \subseteq tab[q] /\ Live(time, room[q]) = Live(time, tab[q])
             /\ Cardinality(Tracked(tab, time)) >= MaxTracked
  <2>1. DOMAIN room = DOMAIN pruned \ {x} /\ \A q \in DOMAIN room : room[q] = pruned[q]
    BY <1>7 DEF Without
  <2>2. DOMAIN pruned \subseteq DOMAIN tab
    BY <1>1 DEF Tracked
  <2> QED
    BY <1>2, <1>3, <1>7, <2>1, <2>2
<1> QED
  BY <1>4, <1>5, <1>6, <1>7 DEF Tracked

\* Of a finite set of attempts a finite set counts.
LEMMA LatelyFinite ==
    ASSUME Counts, NEW p \in Peers
    PROVE  IsFiniteSet(Lately(p)) /\ Cardinality(Lately(p)) \in Nat
<1>1. Lately(p) \subseteq recent[p] /\ IsFiniteSet(recent[p])
  BY DEF Counts, Lately
<1> QED
  BY <1>1, FS_Subset, FS_CardinalityType

\* A login that the limiter sees is counted if it is admitted, and only then.
LEMMA AllowStep ==
    ASSUME LimiterInv, NEW r \in Requests, NEW p \in Peers, NEW u, NEW good, NEW c,
           BeginLogin(r, p, u, good, c)
    PROVE  LimiterInv'
<1> USE DEF LimiterInv
<1>1. PICK room \in RoomFor(table, p, now) :
         /\ table' = AfterAllow(room, p, <<r, now>>)
         /\ recent' = [q \in Peers |->
              (IF Crowded /\ q \notin DOMAIN room THEN {} ELSE Lately(q))
              \cup IF q = p /\ Admits(room, p, now) THEN {<<r, now>>} ELSE {}]
  BY DEF BeginLogin
<1>2. now' = now /\ now \in Nat
  BY DEF BeginLogin, Counts
<1>3. /\ DOMAIN room \subseteq DOMAIN table
      /\ \A q \in DOMAIN room :
            room[q] \subseteq table[q] /\ Live(now, room[q]) = Live(now, table[q])
      /\ \A q \in DOMAIN table \ DOMAIN room :
            Live(now, table[q]) = {}
            \/ Cardinality(Tracked(table, now)) >= MaxTracked
  BY RoomKeeps
<1>4. DOMAIN room \subseteq Peers
  BY <1>3 DEF Counts
<1> DEFINE Kept(q) == IF Crowded /\ q \notin DOMAIN room THEN {} ELSE Lately(q)
           New == IF Admits(room, p, now) THEN {<<r, now>>} ELSE {}
<1>5. Tracked(table, now) = {x \in Peers : Lately(x) # {}}
  <2>1. ASSUME NEW x \in Peers
        PROVE  Lately(x) # {} <=> x \in DOMAIN table /\ Live(now, table[x]) # {}
    BY DEF Counts, Attempts, Live
  <2> QED
    BY <2>1 DEF Counts, Tracked
<1>6. ASSUME NEW q \in Peers PROVE Kept(q) = Live(now, Attempts(room, q))
  <2>1. CASE q \in DOMAIN room
    BY <1>3, <2>1 DEF Counts, Attempts
  <2>2. CASE q \notin DOMAIN room
    <3>1. Live(now, Attempts(room, q)) = {}
      BY <2>2 DEF Attempts, Live
    <3>2. Crowded \/ Lately(q) = {}
      <4>1. CASE q \in DOMAIN table
        BY <1>3, <1>5, <2>2, <4>1 DEF Counts, Attempts, Crowded
      <4>2. CASE q \notin DOMAIN table
        BY <4>2 DEF Counts, Attempts, Live
      <4> QED
        BY <4>1, <4>2
    <3> QED
      BY <2>2, <3>1, <3>2
  <2> QED
    BY <2>1, <2>2
<1>7. /\ recent' = [q \in Peers |-> Kept(q) \cup IF q = p THEN New ELSE {}]
      /\ New \subseteq {<<r, now>>} /\ Live(now, New) = New
  <2>1. now - Time(<<r, now>>) < Window
    BY <1>2, RateLimiterAssumption DEF Time
  <2> QED
    BY <1>1, <2>1 DEF Live
<1>8. ASSUME NEW q \in Peers
      PROVE  /\ Kept(q) \subseteq Lately(q) /\ Kept(q) \subseteq recent[q]
             /\ IsFiniteSet(Kept(q)) /\ Live(now, Kept(q)) = Kept(q)
  <2>1. Kept(q) \subseteq Lately(q) /\ Lately(q) \subseteq recent[q]
    BY DEF Lately
  <2>2. IsFiniteSet(Kept(q))
    BY <2>1, LatelyFinite, FS_Subset
  <2> QED
    BY <1>6, <2>1, <2>2, LiveTwice
<1>9. ASSUME NEW q \in Peers
      PROVE  Attempts(table', q) =
                IF q = p THEN Kept(p) \cup New ELSE Attempts(room, q)
  <2>1. /\ DOMAIN table' = DOMAIN room \cup {p}
        /\ table'[p] = Live(now, Attempts(room, p)) \cup New
        /\ \A x \in DOMAIN room \ {p} : table'[x] = room[x]
    BY <1>1 DEF AfterAllow, Time
  <2> QED
    BY <1>6, <2>1 DEF Attempts
<1> HIDE DEF Kept, New
<1>10. ASSUME NEW q \in Peers
      PROVE  /\ Lately(q)' = recent'[q] /\ IsFiniteSet(recent'[q])
             /\ recent'[q] \subseteq Requests \X Nat
             /\ recent'[q] = Live(now, Attempts(table', q))
  <2>1. recent'[q] = Kept(q) \cup IF q = p THEN New ELSE {}
    BY <1>7
  <2>2. Live(now, recent'[q]) = recent'[q]
    BY <1>7, <1>8, <2>1 DEF Live
  <2>3. IsFiniteSet(recent'[q])
    <3>1. IsFiniteSet(New)
      BY <1>7, FS_Singleton, FS_Subset
    <3> QED
      BY <1>8, <2>1, <3>1, FS_Union
  <2>4. recent'[q] \subseteq Requests \X Nat
    BY <1>2, <1>7, <1>8, <2>1 DEF Counts
  <2>5. Lately(q)' = recent'[q]
    BY <1>2, <2>2 DEF Lately, Live, Time
  <2>6. recent'[q] = Live(now, Attempts(table', q))
    <3>1. CASE q = p
      BY <1>9, <2>1, <2>2, <3>1
    <3>2. CASE q # p
      BY <1>6, <1>9, <2>1, <3>2
    <3> QED
      BY <3>1, <3>2
  <2> QED
    BY <2>3, <2>4, <2>5, <2>6
<1>11. Counts'
  <2>1. DOMAIN table' \subseteq Peers
    BY <1>1, <1>4 DEF AfterAllow
  <2>3. ASSUME NEW q \in DOMAIN table' PROVE table'[q] \subseteq Requests \X Nat
    <3>1. q \in Peers /\ table'[q] = Attempts(table', q)
      BY <2>1, <2>3 DEF Attempts
    <3>2. CASE q = p
      BY <1>7, <1>9, <1>10, <3>1, <3>2
    <3>3. CASE q # p
      <4>1. q \in DOMAIN room /\ table'[q] = room[q]
        BY <1>1, <2>3, <3>3 DEF AfterAllow
      <4> QED
        BY <1>3, <4>1 DEF Counts
    <3> QED
      BY <3>2, <3>3
  <2>2. recent' \in [Peers -> SUBSET (Requests \X Nat)]
    BY <1>7, <1>10
  <2> QED
    BY <1>2, <1>10, <2>1, <2>2, <2>3 DEF Counts
<1>12. ASSUME NEW q \in Peers PROVE Cardinality(Lately(q)') <= Limit
  <2>1. recent'[q] = Kept(q) \cup IF q = p THEN New ELSE {}
    BY <1>7
  <2>2. Cardinality(Kept(q)) <= Limit /\ Cardinality(Kept(q)) \in Nat
    <3>1. Cardinality(Kept(q)) <= Cardinality(Lately(q)) /\ Cardinality(Lately(q)) <= Limit
      BY <1>8, LatelyFinite, FS_Subset DEF LimitHolds
    <3>2. Cardinality(Kept(q)) \in Nat /\ Cardinality(Lately(q)) \in Nat
      BY <1>8, LatelyFinite, FS_CardinalityType
    <3> QED
      BY <3>1, <3>2, RateLimiterAssumption
  <2>3. CASE q # p \/ New = {}
    BY <1>10, <2>1, <2>2, <2>3
  <2>4. CASE q = p /\ New # {}
    <3>1. Cardinality(Kept(p)) < Limit /\ New = {<<r, now>>}
      BY <1>6, <2>4 DEF Admits, New
    <3>2. Cardinality(Kept(p) \cup {<<r, now>>}) <= Cardinality(Kept(p)) + 1
      <4>1. Cardinality(Kept(p) \cup {<<r, now>>}) =
               IF <<r, now>> \in Kept(p) THEN Cardinality(Kept(p)) ELSE Cardinality(Kept(p)) + 1
        BY <1>8, FS_AddElement
      <4>2. Cardinality(Kept(p)) \in Nat
        BY <2>2, <2>4
      <4> QED
        BY <4>1, <4>2
    <3>3. Cardinality(Kept(p) \cup {<<r, now>>}) \in Nat
      BY <1>8, FS_AddElement, FS_CardinalityType
    <3>4. Lately(q)' = Kept(p) \cup {<<r, now>>}
      BY <1>10, <2>1, <2>4, <3>1
    <3>5. Cardinality(Kept(p)) \in Nat /\ Limit \in Nat
      BY <2>2, <2>4, RateLimiterAssumption
    <3> QED
      BY <3>1, <3>2, <3>3, <3>4, <3>5
  <2> QED
    BY <2>3, <2>4
<1> QED
  BY <1>11, <1>12 DEF LimitHolds

\* As time passes, attempts leave the window, in the table and out of it.
LEMMA WindowMoves ==
    ASSUME LimiterInv, Tick
    PROVE  LimiterInv'
<1> USE DEF LimiterInv
<1>1. now' = now + 1 /\ UNCHANGED <<table, recent>> /\ now \in Nat
  BY DEF Tick, Counts
<1>2. ASSUME NEW p \in Peers
      PROVE  Lately(p)' = Live(now', Attempts(table', p)) /\ Lately(p)' \subseteq Lately(p)
  <2>1. /\ recent[p] \subseteq Requests \X Nat /\ Attempts(table, p) \subseteq Requests \X Nat
        /\ Lately(p) = Live(now, Attempts(table, p))
    BY DEF Counts, Attempts
  <2>2. ASSUME NEW a \in Requests \X Nat, now' - a[2] < Window
        PROVE  now - a[2] < Window
    <3>1. a[2] \in Nat
      OBVIOUS
    <3> QED
      BY <1>1, <2>2, <3>1, RateLimiterAssumption
  <2>3. Lately(p)' = {a \in recent[p] : now' - a[2] < Window}
    BY <1>1 DEF Lately
  <2>4. Live(now', Attempts(table', p)) = {a \in Attempts(table, p) : now' - a[2] < Window}
    BY <1>1 DEF Live, Time
  <2>5. ASSUME NEW a \in Requests \X Nat, now - a[2] < Window
        PROVE  a \in recent[p] <=> a \in Attempts(table, p)
    BY <2>1, <2>5 DEF Lately, Live, Time
  <2>6. ASSUME NEW a \in Lately(p)'
        PROVE  a \in Live(now', Attempts(table', p)) /\ a \in Lately(p)
    <3>1. a \in recent[p] /\ now' - a[2] < Window
      BY <2>3, <2>6
    <3>2. now - a[2] < Window
      BY <2>1, <2>2, <3>1
    <3> QED
      BY <2>1, <2>4, <2>5, <3>1, <3>2 DEF Lately
  <2>7. ASSUME NEW a \in Live(now', Attempts(table', p)) PROVE a \in Lately(p)'
    <3>1. a \in Attempts(table, p) /\ now' - a[2] < Window
      BY <2>4, <2>7
    <3> QED
      BY <2>1, <2>2, <2>3, <2>5, <3>1
  <2> QED
    BY <2>6, <2>7
<1>3. Counts'
  BY <1>1, <1>2 DEF Counts
<1>4. ASSUME NEW p \in Peers PROVE Cardinality(Lately(p)') <= Limit
  <2>1. Cardinality(Lately(p)') <= Cardinality(Lately(p)) /\ IsFiniteSet(Lately(p)')
    BY <1>2, LatelyFinite, FS_Subset
  <2>2. Cardinality(Lately(p)') \in Nat /\ Cardinality(Lately(p)) \in Nat
    BY <2>1, LatelyFinite, FS_CardinalityType
  <2>3. Cardinality(Lately(p)) <= Limit
    BY DEF LimitHolds
  <2> QED
    BY <2>1, <2>2, <2>3, RateLimiterAssumption
<1> QED
  BY <1>3, <1>4 DEF LimitHolds

\* A restart forgets everything.
LEMMA ForgetStep ==
    ASSUME LimiterInv, Restart
    PROVE  LimiterInv'
<1>1. /\ now' = now /\ table' = EmptyTable /\ recent' = [p \in Peers |-> {}]
  BY DEF Restart
<1>2. Counts' /\ \A p \in Peers : Lately(p)' = {}
  BY <1>1, FS_EmptySet DEF LimiterInv, Counts, EmptyTable, Lately, Attempts, Live
<1>3. LimitHolds'
  BY <1>2, FS_EmptySet, RateLimiterAssumption DEF LimitHolds
<1> QED
  BY <1>2, <1>3 DEF LimiterInv

\* No peer is admitted more often than the limit in any window.
THEOREM LimitKept == Spec => []LimitHolds
<1>1. Init => LimiterInv
  <2> SUFFICES ASSUME Init PROVE LimiterInv
    OBVIOUS
  <2>1. Counts /\ \A p \in Peers : Lately(p) = {}
    BY FS_EmptySet DEF Init, Counts, EmptyTable, Lately, Attempts, Live
  <2>2. LimitHolds
    BY <2>1, FS_EmptySet, RateLimiterAssumption DEF LimitHolds
  <2> QED
    BY <2>1, <2>2 DEF LimiterInv
<1>2. LimiterInv /\ [Next]_vars => LimiterInv'
  <2> SUFFICES ASSUME LimiterInv, [Next]_vars PROVE LimiterInv'
    OBVIOUS
  <2>1. CASE UNCHANGED limiter
    BY <2>1 DEF limiter, LimiterInv, Counts, LimitHolds, Lately
  <2>2. ASSUME NEW r \in Requests, Begin(r) PROVE LimiterInv'
    <3>1. ASSUME NEW s \in Requests, NEW kind, NEW c, BeginCall(r, s, kind, c)
          PROVE  UNCHANGED limiter
      BY <3>1 DEF BeginCall
    <3> QED
      BY <2>1, <2>2, <3>1, AllowStep DEF Begin
  <2>3. ASSUME NEW r \in Requests, Login(r) \/ Call(r) PROVE UNCHANGED limiter
    BY <2>3 DEF Login, Call, AcquireSlot, FindUser, Verify, ChooseCompany, InsertSession,
                RefreshSession, ReadSession, ReadUser, ReadCodes, Work, ReadRow, CheckEntitled,
                UpdateSession, DeleteSession
  <2>4. Operator \/ UNCHANGED vars => UNCHANGED limiter
    BY DEF Operator, DisableUser, EnableUser, DeleteUser, Revoke, Grant, vars
  <2> QED
    BY <2>1, <2>2, <2>3, <2>4, WindowMoves, ForgetStep DEF Next
<1>3. LimiterInv => LimitHolds
  BY DEF LimiterInv
<1> QED
  BY <1>1, <1>2, <1>3, PTL DEF Spec
================================================================================
