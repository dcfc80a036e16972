--------------------------------- MODULE Access ---------------------------------
(***************************************************************************)
(* Logging in and serving requests (app/platform/permissions and the       *)
(* authentication middleware of app/main.py). A request takes one step per *)
(* SQL statement; each statement of resolve_actor has a snapshot of its    *)
(* own. Meanwhile the clock runs, an operator disables and deletes users   *)
(* and changes entitlements in the database, and the process restarts,     *)
(* which loses the rate limiter and the requests but not the tables.       *)
(*                                                                         *)
(* A session is named by the login that created it.                        *)
(***************************************************************************)
EXTENDS RateLimiter

CONSTANTS
    MaxRequests,    \* bounds the HTTP requests, numbered as they arrive
    Kinds,      \* what they do: a subset of AllKinds
    Users, Companies, Peers,
    Names,      \* the emails typed at logins, those of users and others
    Slots,      \* MAX_CONCURRENT_LOGIN_VERIFICATIONS
    TTL,        \* session_ttl_hours
    MaxTime,    \* bounds the clock
    MaxChanges, \* bounds what the operator does
    FirstGrants,
    None

AllKinds == {"login", "work", "switch", "logout"}

\* A row of the sessions table.
Session == [user : Users, company : Companies, expires : Nat]

ASSUME AccessAssumption ==
    /\ Kinds \subseteq AllKinds
    /\ {MaxRequests, MaxChanges} \subseteq Nat
    /\ Slots \in Nat \ {0} /\ TTL \in Nat \ {0} /\ MaxTime \in Nat
    /\ FirstGrants \subseteq Users \X Companies
    /\ Users \subseteq Names
    /\ None \notin Names \cup Companies \cup (1..MaxRequests) \cup Session \cup AllKinds

Requests == 1..MaxRequests

VARIABLES
    now,        \* the clock
    table,      \* the rate limiter of this process
    recent,     \* history: the logins of each peer admitted since it was last evicted
    users,      \* users -> "active", "disabled" or "deleted"
    grants,     \* user_company_roles
    changes,    \* counts what the operator did
    sessions,   \* the sessions table: login -> row, or None
    pc,         \* the statement each request runs next
    req,        \* its request
    ctx,        \* what it has read
    seen        \* history: what was in force at some moment since it arrived

store == <<users, grants, changes, sessions>>
limiter == <<now, table, recent>>
vars == <<limiter, store, pc, req, ctx, seen>>

\* Refused is every other end: an error status, or no answer from a process that died.
Ended == {"served", "refused"}

NoRequest == [kind |-> None, user |-> None, good |-> FALSE,
              token |-> None, company |-> None]
NoContext == [user |-> None, company |-> None]

Init ==
    /\ now = 0 /\ table = EmptyTable /\ recent = [p \in Peers |-> {}]
    /\ users = [u \in Users |-> "active"]
    /\ grants = FirstGrants /\ changes = 0
    /\ sessions = [r \in Requests |-> None]
    /\ pc = [r \in Requests |-> "idle"]
    /\ req = [r \in Requests |-> NoRequest]
    /\ ctx = [r \in Requests |-> NoContext]
    /\ seen = [r \in Requests |-> {}]

Expired(row, time) == row.expires <= time

\* The user a request acts for: the one that logs in, or the one who logged in.
Subject(r) == IF req[r].token = None THEN req[r].user ELSE req[req[r].token].user

Row(r) == IF req[r].token = None THEN None ELSE sessions[req[r].token]

\* What a request may rely on in this state.
InForce(r) ==
    (IF Row(r) # None /\ ~Expired(Row(r), now) THEN {<<"session">>, <<"at", Row(r).company>>} ELSE {})
    \cup (IF Subject(r) \in Users /\ users[Subject(r)] = "active" THEN {<<"user">>} ELSE {})
    \cup {<<"entitled", c>> : c \in {d \in Companies : <<Subject(r), d>> \in grants}}

\* The history of every request under way, as part of each step.
Observe ==
    seen' = [r \in Requests |->
               IF pc'[r] \in Ended \cup {"idle"} THEN {} ELSE seen[r] \cup InForce(r)']

\* Mutant: the permissions are those of the first login.
EntitledCached(u, c) == <<u, c>> \in FirstGrants

Entitled(u, c) == <<u, c>> \in grants

Arrives(r) == pc[r] = "idle" /\ \A q \in 1..(r - 1) : pc[q] # "idle"

Goto(r, where) == pc' = [pc EXCEPT ![r] = where] /\ UNCHANGED req

\* What is left of a request that ended: the client of a login that was served
\* has its token.
Left(r, how) ==
    IF how = "served" /\ req[r].kind = "login"
    THEN [NoRequest EXCEPT !.kind = "login", !.user = req[r].user] ELSE NoRequest

EndAs(r, how) ==
    /\ pc' = [pc EXCEPT ![r] = how]
    /\ req' = [req EXCEPT ![r] = Left(r, how)]
    /\ ctx' = [ctx EXCEPT ![r] = NoContext]

Learn(r, field, value) == ctx' = [ctx EXCEPT ![r] = [@ EXCEPT ![field] = value]]

--------------------------------------------------------------------------------
(* POST /auth/login *)

\* Mutant: a login that was served keeps its slot.
VerifyingLeaked == {r \in Requests : pc[r] \notin {"idle", "queue", "refused"} /\ req[r].kind = "login"}

\* The logins that hold the semaphore: it is held over the whole of service.login.
Verifying == {r \in Requests : pc[r] \in {"find", "verify", "entitle", "insert", "refresh"}}

SlotFree == Cardinality(Verifying) < Slots

\* The logins of a peer that the limiter must still count. It may forget those of
\* a peer only when MaxTracked peers have such logins.
Lately(p) == {q \in recent[p] : now - q[2] < Window}

Crowded == Cardinality({p \in Peers : Lately(p) # {}}) >= MaxTracked

\* The rate limiter sees a login once its body has been parsed.
BeginLogin(r, p, u, good, c) ==
    /\ Arrives(r)
    /\ \E room \in RoomFor(table, p, now) :
         LET request == [kind |-> "login", user |-> u, good |-> good,
                         token |-> None, company |-> c] IN
         /\ table' = AfterAllow(room, p, <<r, now>>)
         /\ pc' = [pc EXCEPT ![r] = IF Admits(room, p, now) THEN "queue" ELSE "refused"]
         /\ req' = [req EXCEPT ![r] = IF Admits(room, p, now) THEN request ELSE NoRequest]
         /\ recent' = [q \in Peers |->
              (IF Crowded /\ q \notin DOMAIN room THEN {} ELSE Lately(q))
              \cup IF q = p /\ Admits(room, p, now) THEN {<<r, now>>} ELSE {}]
    /\ UNCHANGED <<now, store, ctx>>

AcquireSlot(r) ==
    /\ pc[r] = "queue" /\ SlotFree
    /\ Goto(r, "find")
    /\ UNCHANGED <<limiter, store, ctx>>

\* An unknown, a disabled and an active user all lead to one verification.
FindUser(r) ==
    /\ pc[r] = "find"
    /\ IF req[r].user \in Users /\ users[req[r].user] = "active"
       THEN Learn(r, "user", req[r].user) ELSE UNCHANGED ctx
    /\ Goto(r, "verify")
    /\ UNCHANGED <<limiter, store>>

Verify(r) ==
    /\ pc[r] = "verify"
    /\ IF ctx[r].user # None /\ req[r].good
       THEN Goto(r, "entitle") /\ UNCHANGED ctx ELSE EndAs(r, "refused")
    /\ UNCHANGED <<limiter, store>>

EntitledTo(u) == {c \in Companies : Entitled(u, c)}

\* The company asked for, or the only one there is.
Choice(u, asked) ==
    IF asked # None THEN EntitledTo(u) \cap {asked}
    ELSE IF Cardinality(EntitledTo(u)) = 1 THEN EntitledTo(u) ELSE {}

ChooseCompany(r) ==
    /\ pc[r] = "entitle"
    /\ LET choice == Choice(ctx[r].user, req[r].company) IN
       \/ \E c \in choice : Learn(r, "company", c) /\ Goto(r, "insert")
       \/ choice = {} /\ EndAs(r, "refused")
    /\ UNCHANGED <<limiter, store>>

\* The insert fails on its foreign key when the user was deleted meanwhile.
InsertSession(r) ==
    /\ pc[r] = "insert"
    /\ IF users[ctx[r].user] = "deleted"
       THEN EndAs(r, "refused") /\ UNCHANGED sessions
       ELSE /\ Goto(r, "refresh")
            /\ sessions' = [sessions EXCEPT ![r] =
                 [user |-> ctx[r].user, company |-> ctx[r].company, expires |-> now + TTL]]
            /\ UNCHANGED ctx
    /\ UNCHANGED <<limiter, users, grants, changes>>

\* The row is read back after the commit; the client gets the token only then.
RefreshSession(r) ==
    /\ pc[r] = "refresh"
    /\ EndAs(r, IF sessions[r] = None THEN "refused" ELSE "served")
    /\ UNCHANGED <<limiter, store>>

--------------------------------------------------------------------------------
(* Every other route: authentication_middleware, then the endpoint *)

\* A call with the token that login s returned; switch asks for company c.
BeginCall(r, s, kind, c) ==
    /\ Arrives(r) /\ pc[s] = "served" /\ req[s].kind = "login"
    /\ req' = [req EXCEPT ![r] = [NoRequest EXCEPT !.kind = kind, !.token = s,
                                                   !.company = c]]
    /\ pc' = [pc EXCEPT ![r] = "session"]
    /\ UNCHANGED <<limiter, store, ctx>>

\* resolve_actor reads the session, its user and the codes in three statements.
ReadSession(r) ==
    /\ pc[r] = "session"
    /\ IF Row(r) = None \/ Expired(Row(r), now)
       THEN EndAs(r, "refused")
       ELSE /\ Goto(r, "user")
            /\ ctx' = [ctx EXCEPT ![r] = [user |-> Row(r).user, company |-> Row(r).company]]
    /\ UNCHANGED <<limiter, store>>

ReadUser(r) ==
    /\ pc[r] = "user"
    /\ IF users[ctx[r].user] = "active" THEN Goto(r, "codes") /\ UNCHANGED ctx
       ELSE EndAs(r, "refused")
    /\ UNCHANGED <<limiter, store>>

\* The codes of the company the session was read with. RequiresPermission needs
\* one, Authenticated does not.
ReadCodes(r) ==
    /\ pc[r] = "codes"
    /\ \/ req[r].kind = "work" /\ Entitled(ctx[r].user, ctx[r].company) /\ Goto(r, "work") /\ UNCHANGED ctx
       \/ req[r].kind = "work" /\ ~Entitled(ctx[r].user, ctx[r].company) /\ EndAs(r, "refused")
       \/ req[r].kind # "work" /\ Goto(r, "row") /\ UNCHANGED ctx
    /\ UNCHANGED <<limiter, store>>

Work(r) ==
    /\ pc[r] = "work"
    /\ EndAs(r, "served")
    /\ UNCHANGED <<limiter, store>>

\* switch_company and logout read the row again, in the request's own session.
\* The row is the caller's: it is found by the session that was resolved.
ReadRow(r) ==
    /\ pc[r] = "row"
    /\ IF Row(r) = None THEN EndAs(r, "refused")
       ELSE /\ Goto(r, IF req[r].kind = "switch" THEN "entitled" ELSE "delete")
            /\ Learn(r, "company", Row(r).company)
    /\ UNCHANGED <<limiter, store>>

CheckEntitled(r) ==
    /\ pc[r] = "entitled"
    /\ IF Entitled(ctx[r].user, req[r].company)
       THEN Goto(r, "update") /\ UNCHANGED ctx ELSE EndAs(r, "refused")
    /\ UNCHANGED <<limiter, store>>

\* Mutant: the row is written back whether or not it is still there.
MovedUpserted(s, c) ==
    [sessions EXCEPT ![s] = IF @ = None THEN [user |-> req[s].user, company |-> c, expires |-> now + TTL]
                            ELSE [@ EXCEPT !.company = c]]

Moved(s, c) == [sessions EXCEPT ![s] = IF @ = None THEN None ELSE [@ EXCEPT !.company = c]]

\* Nothing is written when the company is the one that was read; an UPDATE that
\* finds no row fails the request.
UpdateSession(r) ==
    /\ pc[r] = "update"
    /\ IF ctx[r].company = req[r].company THEN EndAs(r, "served") /\ UNCHANGED sessions
       ELSE /\ sessions' = Moved(req[r].token, req[r].company)
            /\ EndAs(r, IF sessions'[req[r].token] = None THEN "refused" ELSE "served")
    /\ UNCHANGED <<limiter, users, grants, changes>>

\* A DELETE that finds no row is only a warning.
DeleteSession(r) ==
    /\ pc[r] = "delete"
    /\ sessions' = [sessions EXCEPT ![req[r].token] = None]
    /\ EndAs(r, "served")
    /\ UNCHANGED <<limiter, users, grants, changes>>

--------------------------------------------------------------------------------
(* The operator, the clock and the process *)

Changed == changes < MaxChanges /\ changes' = changes + 1

DisableUser(u) ==
    /\ Changed
    /\ users[u] = "active"
    /\ users' = [users EXCEPT ![u] = "disabled"]
    /\ UNCHANGED <<limiter, grants, sessions, pc, req, ctx>>

EnableUser(u) ==
    /\ Changed
    /\ users[u] = "disabled"
    /\ users' = [users EXCEPT ![u] = "active"]
    /\ UNCHANGED <<limiter, grants, sessions, pc, req, ctx>>

\* Entitlements and sessions go with the user.
DeleteUser(u) ==
    /\ Changed
    /\ users[u] # "deleted"
    /\ users' = [users EXCEPT ![u] = "deleted"]
    /\ grants' = {g \in grants : g[1] # u}
    /\ sessions' = [s \in Requests |->
         IF sessions[s] # None /\ sessions[s].user = u THEN None ELSE sessions[s]]
    /\ UNCHANGED <<limiter, pc, req, ctx>>

Revoke(g) ==
    /\ Changed
    /\ g \in grants
    /\ grants' = grants \ {g}
    /\ UNCHANGED <<limiter, users, sessions, pc, req, ctx>>

Grant(u, c) ==
    /\ Changed
    /\ users[u] # "deleted" /\ <<u, c>> \notin grants
    /\ grants' = grants \cup {<<u, c>>}
    /\ UNCHANGED <<limiter, users, sessions, pc, req, ctx>>

Tick ==
    /\ now < MaxTime
    /\ now' = now + 1
    /\ UNCHANGED <<table, recent, store, pc, req, ctx>>

\* create_app makes the limiter and the semaphore anew.
Restart ==
    /\ table' = EmptyTable /\ recent' = [p \in Peers |-> {}]
    /\ pc' = [r \in Requests |-> IF pc[r] \in Ended \cup {"idle"} THEN pc[r] ELSE "refused"]
    /\ req' = [r \in Requests |-> IF pc[r] \in Ended \cup {"idle"} THEN req[r] ELSE NoRequest]
    /\ ctx' = [r \in Requests |-> NoContext]
    /\ UNCHANGED <<now, store>>

--------------------------------------------------------------------------------
Login(r) ==
    \/ AcquireSlot(r) \/ FindUser(r) \/ Verify(r) \/ ChooseCompany(r)
    \/ InsertSession(r) \/ RefreshSession(r)

Call(r) ==
    \/ ReadSession(r) \/ ReadUser(r) \/ ReadCodes(r) \/ Work(r)
    \/ ReadRow(r) \/ CheckEntitled(r) \/ UpdateSession(r) \/ DeleteSession(r)

Begin(r) ==
    \/ /\ "login" \in Kinds
       /\ \E p \in Peers, u \in Names, good \in BOOLEAN, c \in Companies \cup {None} :
            (u \notin Users => ~good) /\ (~good => c = None) /\ BeginLogin(r, p, u, good, c)
    \/ \E s \in Requests, kind \in Kinds \ {"login"}, c \in Companies \cup {None} :
            (kind = "switch") = (c # None) /\ BeginCall(r, s, kind, c)

Operator ==
    \/ \E u \in Users : DisableUser(u) \/ EnableUser(u) \/ DeleteUser(u)
    \/ \E g \in grants : Revoke(g)
    \/ \E u \in Users, c \in Companies : Grant(u, c)

Next ==
    /\ \/ \E r \in Requests : Begin(r) \/ Login(r) \/ Call(r)
       \/ Operator \/ Tick \/ Restart
    /\ Observe

\* The event loop runs some request as long as one can run; nobody else has to act.
Fairness == WF_vars(\E r \in Requests : (Login(r) \/ Call(r)) /\ Observe)

Spec == Init /\ [][Next]_vars /\ Fairness

--------------------------------------------------------------------------------
\* What a request of each kind must have relied on to be served.
Needed(r) ==
    CASE req[r].kind = "login"  -> {<<"user">>, <<"entitled", ctx[r].company>>}
      [] req[r].kind = "work"   -> {<<"session">>, <<"user">>, <<"at", ctx[r].company>>, <<"entitled", ctx[r].company>>}
      [] req[r].kind = "switch" -> {<<"session">>, <<"user">>, <<"entitled", req[r].company>>}
      [] OTHER                  -> {<<"session">>, <<"user">>}

\* "Per-request revalidation, never cached": although resolve_actor and the
\* endpoints read the session, the user and the entitlement in statements with a
\* snapshot each, a request is served only on facts each of which was in force
\* at some moment after the request arrived, and a login only with the password.
ServedFreshly ==
    [][\A r \in Requests : pc'[r] = "served" /\ pc[r] # "served" =>
          Needed(r) \subseteq seen[r] /\ (req[r].kind = "login" => req[r].good)]_vars

\* A session that ended, by a logout or with its user, never comes back, however
\* switch-company, logout and login interleave, and no request prolongs one or
\* gives it to another user: it can only move to another company or go.
SessionsOnlyMoveOrGo ==
    [][\A s \in Requests : sessions'[s] # sessions[s] =>
          IF sessions[s] = None
          THEN pc[s] = "insert" /\ sessions'[s].user = req[s].user
          ELSE sessions'[s] = None \/ sessions'[s] = [sessions[s] EXCEPT !.company = sessions'[s].company]]_vars

\* Within any window a peer is admitted at most Limit times, through pruning,
\* evictions of other peers and refused attempts, unless MaxTracked other peers
\* pushed it out of the table or the process restarted.
LimitHolds == \A p \in Peers : Cardinality(Lately(p)) <= Limit

\* Every request is answered: a slot of the semaphore comes back however the
\* login that held it ended, and none waits for another's lock.
EveryRequestEnds == []<>(\A r \in Requests : pc[r] \in Ended \cup {"idle"})

--------------------------------------------------------------------------------
(* The inductive invariant behind the theorems of AccessProofs. *)

LoginSteps == {"queue", "find", "verify", "entitle", "insert", "refresh"}
CallSteps == {"session", "user", "codes", "work", "row", "entitled", "update", "delete"}

\* Every variable that the theorems are about has its type.
TypeOK ==
    /\ now \in Nat
    /\ sessions \in [Requests -> Session \cup {None}]
    /\ pc \in [Requests -> {"idle"} \cup LoginSteps \cup CallSteps \cup Ended]
    /\ req \in [Requests -> [kind : AllKinds \cup {None}, user : Names \cup {None},
                             good : BOOLEAN, token : Requests \cup {None},
                             company : Companies \cup {None}]]
    /\ ctx \in [Requests -> [user : Users \cup {None}, company : Companies \cup {None}]]

\* The history knows what is in force for every request under way.
Watched == \A r \in Requests : pc[r] \in LoginSteps \cup CallSteps => InForce(r) \subseteq seen[r]

\* What a login knows at each statement, and whose session it makes.
LoginKnows(r) ==
    /\ pc[r] \in LoginSteps => req[r].kind = "login" /\ req[r].token = None
    /\ pc[r] \in (LoginSteps \ {"refresh"}) \cup {"idle"} => sessions[r] = None
    /\ pc[r] \in {"idle", "queue", "find"} => ctx[r] = NoContext
    /\ pc[r] \in {"verify", "entitle", "insert", "refresh"} /\ ctx[r].user # None =>
          ctx[r].user = req[r].user /\ <<"user">> \in seen[r]
    /\ pc[r] \in {"entitle", "insert", "refresh"} => ctx[r].user # None /\ req[r].good
    /\ pc[r] \in {"insert", "refresh"} =>
          ctx[r].company \in Companies /\ <<"entitled", ctx[r].company>> \in seen[r]
    /\ pc[r] \in {"refresh", "served"} /\ req[r].kind = "login" =>
          sessions[r] = None \/ sessions[r].user = req[r].user

\* What any other request knows at each statement, and whose token it has.
CallKnows(r) ==
    /\ pc[r] \in CallSteps =>
          /\ req[r].kind \in {"work", "switch", "logout"}
          /\ req[r].token \in Requests
          /\ pc[req[r].token] = "served" /\ req[req[r].token].kind = "login"
          /\ req[r].kind = "switch" => req[r].company \in Companies
    /\ pc[r] \in CallSteps \ {"session"} =>
          /\ ctx[r].user \in Users /\ ctx[r].user = req[req[r].token].user
          /\ ctx[r].company \in Companies
          /\ <<"session">> \in seen[r]
          /\ req[r].kind = "work" => <<"at", ctx[r].company>> \in seen[r]
    /\ pc[r] \in CallSteps \ {"session", "user"} => <<"user">> \in seen[r]
    /\ pc[r] = "work" => req[r].kind = "work" /\ <<"entitled", ctx[r].company>> \in seen[r]
    /\ pc[r] = "row" => req[r].kind # "work"
    /\ pc[r] \in {"entitled", "update"} => req[r].kind = "switch"
    /\ pc[r] = "delete" => req[r].kind = "logout"
    /\ pc[r] = "update" => <<"entitled", req[r].company>> \in seen[r]

\* The limiter has of every peer the attempts it must still count, and no others.
Counts ==
    /\ now \in Nat /\ DOMAIN table \subseteq Peers
    /\ \A p \in DOMAIN table : table[p] \subseteq Requests \X Nat
    /\ recent \in [Peers -> SUBSET (Requests \X Nat)]
    /\ \A p \in Peers : IsFiniteSet(recent[p]) /\ Lately(p) = Live(now, Attempts(table, p))

LimiterInv == Counts /\ LimitHolds

AccessInv == TypeOK /\ Watched /\ \A r \in Requests : LoginKnows(r) /\ CallKnows(r)
================================================================================
