-------------------------- MODULE LocalAdminProofs --------------------------
(* Invariance proofs for LocalAdmin: the forced rotation and the end of the *)
(* sessions of a changed password, for every number of requests in flight,  *)
(* of environments and of restarts.                                         *)
EXTENDS LocalAdmin, TLAPS

-----------------------------------------------------------------------------
(* The inductive invariant, part by part.                                   *)

Pcs == {"idle", "load", "init", "check", "reload", "reinit", "update", "persist", "revoke",
        "dashboard"}

Session == [state : State, revoked : BOOLEAN]

Request == [pc : Pcs, op : Ops \cup {None}, cookie : Nat \cup {None}, state : State \cup {None}]

\* TypeOK, with the domains of the requests and of the list of sessions.
Typed ==
    /\ env \in Envs
    /\ store \in State \cup {None}
    /\ hashes \in 0..MaxHashes
    /\ sessions \in Seq(Session) /\ Len(sessions) <= MaxSessions
    /\ req \in [Requests -> Request]
    /\ restarts \in 0..MaxRestarts
    /\ rotated \subseteq Envs
    /\ replaced \subseteq State
    /\ undone \in BOOLEAN

\* A request carries the token of a session that was issued, and a request past
\* the load has a state of the running environment.
InOrder(q) ==
    /\ q.cookie # None => q.cookie \in 1..Len(sessions)
    /\ q.pc \in {"check", "reload", "reinit", "update", "persist", "dashboard", "revoke"}
          => q.state # None
    /\ q.pc # "idle" => (q.cookie = None <=> q.op = "login")
    /\ q.pc \in {"reload", "reinit", "update", "persist", "revoke"}
          => q.op \in {"rotate", "change", "logout"}
    /\ q.state # None => q.state.base = env
HandlersInOrder == \A r \in Requests : InOrder(req[r])

\* A state asks for the rotation unless its environment does not or the
\* rotation is done.
Cleared(state) == state.rotate \/ state.base \notin MustRotate \/ state.base \in rotated

\* Only the rotation that is about to be written may be ahead of the history.
RotationDue ==
    /\ store # None => Cleared(store)
    /\ \A r \in Requests : req[r].state # None =>
          \/ Cleared(req[r].state)
          \/ req[r].pc = "persist" /\ req[r].op = "rotate"
    /\ \A r \in Requests : At(r, "dashboard") => ~req[r].state.rotate

\* The hash a request is about to write is in no state in force or replaced and
\* in no other request about to write.
HashesFresh ==
    /\ store # None => store.hash <= hashes
    /\ \A s \in replaced : s.hash <= hashes
    /\ \A r \in Requests : At(r, "persist") =>
          /\ req[r].state.hash \in 1..hashes
          /\ store # None => store.hash # req[r].state.hash
          /\ \A s \in replaced : s.hash # req[r].state.hash
          /\ \A q \in Requests : q # r /\ At(q, "persist")
                => req[q].state.hash # req[r].state.hash

\* A replaced state is not in force, and nothing has been replaced while the
\* store still belongs to another environment.
ReplacedIsOver ==
    /\ store # None /\ ~undone => store \notin replaced
    /\ replaced # {} => ~StaleStore

Inv == Typed /\ HandlersInOrder /\ RotationDue /\ HashesFresh /\ ReplacedIsOver

-----------------------------------------------------------------------------
(* States and requests.                                                     *)

\* The state of the environment, field by field.
LEMMA EnvStateFields ==
    ASSUME env \in Envs
    PROVE  /\ EnvState \in State /\ EnvState.base = env /\ EnvState.hash = 0
           /\ EnvState.rotate = (env \in MustRotate) /\ EnvState # None
<1>1. EnvState \in State
  BY LocalAdminAssumption DEF EnvState, State
<1>2. EnvState.base = env /\ EnvState.hash = 0 /\ EnvState.rotate = (env \in MustRotate)
  BY DEF EnvState
<1> QED
  BY <1>1, <1>2, LocalAdminAssumption

\* The state a rotation or a change writes, field by field.
LEMMA NewStateFields ==
    ASSUME NEW s \in State, hashes \in 0..MaxHashes, hashes < MaxHashes
    PROVE  /\ NewState(s) \in State /\ NewState(s).base = s.base
           /\ NewState(s).hash = hashes + 1 /\ ~NewState(s).rotate /\ NewState(s) # None
<1>1. hashes + 1 \in 0..MaxHashes
  BY LocalAdminAssumption
<1>2. NewState(s) \in State
  BY <1>1 DEF NewState, State
<1>3. /\ NewState(s).base = s.base /\ NewState(s).hash = hashes + 1 /\ ~NewState(s).rotate
  BY DEF NewState, State
<1> QED
  BY <1>2, <1>3, LocalAdminAssumption

\* The empty request, field by field.
LEMMA NoRequestFields ==
    /\ NoRequest \in Request /\ NoRequest.pc = "idle" /\ NoRequest.op = None
    /\ NoRequest.cookie = None /\ NoRequest.state = None
  BY DEF NoRequest, Request, Pcs

\* The requests other than r are left alone.
OnlyRequest(r) ==
    /\ req' \in [Requests -> Request]
    /\ \A q \in Requests : q # r => req'[q] = req[q]

\* Request r keeps its operation and its cookie.
SameCookie(r) == req'[r].op = req[r].op /\ req'[r].cookie = req[r].cookie

Moved(r, label) == /\ OnlyRequest(r) /\ SameCookie(r) /\ req'[r].pc = label
                   /\ req'[r].state = req[r].state
Refused(r) == OnlyRequest(r) /\ req'[r] = NoRequest
Took(r, s, label) == OnlyRequest(r) /\ SameCookie(r) /\ req'[r].pc = label /\ req'[r].state = s

\* What Goto, Refuse and the assignments of a state do to the requests.
LEMMA RequestMoves ==
    ASSUME Typed, NEW r \in Requests
    PROVE  /\ \A label \in Pcs : Goto(r, label) => Moved(r, label)
           /\ Refuse(r) => Refused(r)
           /\ \A label \in Pcs, s \in State :
                 req' = [req EXCEPT ![r].state = s, ![r].pc = label] => Took(r, s, label)
<1>1. req \in [Requests -> Request] /\ req[r] \in Request
  BY DEF Typed
<1>2. ASSUME NEW label \in Pcs, Goto(r, label) PROVE Moved(r, label)
  <2> DEFINE q == [req[r] EXCEPT !.pc = label]
  <2>1. /\ q \in Request /\ q.pc = label /\ q.op = req[r].op /\ q.cookie = req[r].cookie
        /\ q.state = req[r].state
    BY <1>1 DEF Request
  <2>2. req' = [req EXCEPT ![r] = q]
    BY <1>2 DEF Goto
  <2> HIDE DEF q
  <2> QED
    BY <1>1, <2>1, <2>2 DEF Moved, OnlyRequest, SameCookie
<1>3. ASSUME Refuse(r) PROVE Refused(r)
  BY <1>1, <1>3, NoRequestFields DEF Refuse, Refused, OnlyRequest
<1>4. ASSUME NEW label \in Pcs, NEW s \in State,
             req' = [req EXCEPT ![r].state = s, ![r].pc = label]
      PROVE  Took(r, s, label)
  <2> DEFINE q == [req[r] EXCEPT !.state = s, !.pc = label]
  <2>1. q \in Request /\ q.pc = label /\ q.op = req[r].op /\ q.cookie = req[r].cookie /\ q.state = s
    BY <1>1 DEF Request
  <2>2. req' = [req EXCEPT ![r] = q]
    BY <1>1, <1>4
  <2> HIDE DEF q
  <2> QED
    BY <1>1, <2>1, <2>2 DEF Took, OnlyRequest, SameCookie
<1> QED
  BY <1>2, <1>3, <1>4

\* A request as it is sent.
LEMMA SendCaptures ==
    ASSUME Typed, NEW r \in Requests, NEW op \in Ops, NEW c, Send(r, op, c)
    PROVE  /\ OnlyRequest(r) /\ req'[r].pc = "load" /\ req'[r].op = op
           /\ req'[r].cookie = c /\ req'[r].state = None
           /\ c # None => c \in 1..Len(sessions)
           /\ (c = None) <=> (op = "login")
<1>1. /\ req \in [Requests -> Request] /\ DOMAIN sessions = 1..Len(sessions)
      /\ Len(sessions) \in Nat
  BY DEF Typed
<1>2. c \in 1..Len(sessions) \cup {None} /\ ((c = None) <=> (op = "login"))
  BY <1>1 DEF Send, Sessions
<1> DEFINE q == [NoRequest EXCEPT !.pc = "load", !.op = op, !.cookie = c]
<1>3. c \in Nat \cup {None}
  BY <1>1, <1>2
<1>4. q.pc = "load" /\ q.op = op /\ q.cookie = c /\ q.state = None
  BY DEF NoRequest
<1>5. q \in Request
  BY <1>3 DEF NoRequest, Request, Pcs
<1>6. req' = [req EXCEPT ![r] = q]
  BY DEF Send
<1> HIDE DEF q
<1>7. OnlyRequest(r) /\ req'[r] = q
  BY <1>1, <1>5, <1>6 DEF OnlyRequest
<1> QED
  BY <1>2, <1>4, <1>7

-----------------------------------------------------------------------------
(* The steps that leave the account alone.                                  *)

\* A request that is in order and not about to write.
Fits(q) ==
    /\ InOrder(q) /\ q.pc # "persist"
    /\ q.state # None => Cleared(q.state)
    /\ q.pc = "dashboard" => ~q.state.rotate

\* Every request fits but the ones about to write.
LEMMA RequestsFit == ASSUME Inv, NEW r \in Requests, ~At(r, "persist") PROVE Fits(req[r])
  BY DEF Inv, HandlersInOrder, RotationDue, Fits, At

\* A request that fits may replace another one.
LEMMA QuietStep ==
    ASSUME Inv, NEW r \in Requests, OnlyRequest(r), Fits(req'[r]),
           UNCHANGED <<env, store, hashes, rotated, replaced, undone>>,
           Len(sessions') \in Nat, Len(sessions') >= Len(sessions)
    PROVE  HandlersInOrder' /\ RotationDue' /\ HashesFresh' /\ ReplacedIsOver'
<1>0. Len(sessions) \in Nat
  BY DEF Inv, Typed
<1>1. HandlersInOrder'
  <2>1. \A q : InOrder(q) => /\ q.cookie # None => q.cookie \in 1..Len(sessions')
                             /\ q.state # None => q.state.base = env'
    BY <1>0 DEF InOrder
  <2>2. \A x \in Requests : InOrder(req'[x])
    BY DEF Inv, HandlersInOrder, OnlyRequest, Fits
  <2> QED
    BY <2>1, <2>2 DEF HandlersInOrder, InOrder
<1>2. RotationDue'
  BY DEF Inv, RotationDue, OnlyRequest, Fits, Cleared, At
<1>3. HashesFresh'
  BY DEF Inv, HashesFresh, OnlyRequest, Fits, At
<1>4. ReplacedIsOver'
  BY DEF Inv, ReplacedIsOver, StaleStore
<1> QED
  BY <1>1, <1>2, <1>3, <1>4

\* The handlers of login, dashboard and logout, the checks of rotation and
\* change, the read of the account, and every refusal.
QuietAction(r) ==
    \/ \E op \in Ops, c \in Sessions \cup {None} : Send(r, op, c)
    \/ Load(r)
    \/ \E ok \in BOOLEAN : Login(r, ok) \/ ChangeCheck(r, ok) \/ Logout(r, ok)
    \/ Dashboard(r) \/ DashboardDone(r) \/ RevokeSession(r) \/ RedisFails(r)

\* The list of sessions grows, and a token that is revoked keeps its place.
LEMMA SessionsGrow ==
    ASSUME Inv, NEW r \in Requests, QuietAction(r)
    PROVE  /\ sessions' \in Seq(Session) /\ Len(sessions') <= MaxSessions
           /\ Len(sessions') \in Nat /\ Len(sessions') >= Len(sessions)
<1>0. /\ sessions \in Seq(Session) /\ Len(sessions) <= MaxSessions /\ Len(sessions) \in Nat
      /\ MaxSessions \in Nat /\ req[r] \in Request
  BY LocalAdminAssumption DEF Inv, Typed
<1> DEFINE New(s) == [state |-> s, revoked |-> FALSE]
<1>1. \A s \in State : New(s) \in Session
  BY DEF Session
<1>2. At(r, "check") \/ At(r, "revoke") => req[r].state \in State
  BY <1>0 DEF Inv, HandlersInOrder, InOrder, At, Request
<1> HIDE DEF New
<1>3. CASE sessions' = sessions
  BY <1>0, <1>3
<1>4. ASSUME NEW ok \in BOOLEAN, Login(r, ok), sessions' # sessions
      PROVE  /\ sessions' \in Seq(Session) /\ Len(sessions') <= MaxSessions
             /\ Len(sessions') \in Nat /\ Len(sessions') >= Len(sessions)
  <2>1. sessions' = Append(sessions, New(req[r].state)) /\ Len(sessions) < MaxSessions
        /\ At(r, "check")
    BY <1>4 DEF Login, Issue, New
  <2> QED
    BY <1>0, <1>1, <1>2, <2>1
<1>5. ASSUME RevokeSession(r)
      PROVE  /\ sessions' \in Seq(Session) /\ Len(sessions') <= MaxSessions
             /\ Len(sessions') \in Nat /\ Len(sessions') >= Len(sessions)
  <2> DEFINE j == req[r].cookie
             x == [sessions[j] EXCEPT !.revoked = TRUE]
             others == [sessions EXCEPT ![j] = x]
  <2>1. j \in 1..Len(sessions) /\ At(r, "revoke")
    BY <1>5 DEF Inv, HandlersInOrder, InOrder, At, RevokeSession
  <2>2. x \in Session
    <3>1. sessions[j] \in Session
      BY <1>0, <2>1
    <3> QED
      BY <3>1 DEF Session
  <2>3. /\ \/ sessions' = others
           \/ sessions' = Append(others, New(req[r].state)) /\ Len(sessions) < MaxSessions
    BY <1>5 DEF RevokeSession, New
  <2> HIDE DEF x
  <2>4. others \in Seq(Session) /\ Len(others) = Len(sessions)
    BY <1>0, <2>1, <2>2
  <2> HIDE DEF others
  <2> QED
    BY <1>0, <1>1, <1>2, <2>1, <2>3, <2>4
<1>6. sessions' = sessions \/ (\E ok \in BOOLEAN : Login(r, ok)) \/ RevokeSession(r)
  BY DEF QuietAction, Send, Load, ChangeCheck, Logout, Dashboard, DashboardDone, RedisFails
<1> QED
  BY <1>3, <1>4, <1>5, <1>6

\* What each of them leaves is a request that fits.
LEMMA QuietFits ==
    ASSUME Inv, NEW r \in Requests, QuietAction(r)
    PROVE  /\ OnlyRequest(r) /\ Fits(req'[r])
           /\ UNCHANGED <<env, store, hashes, restarts, rotated, replaced, undone>>
<1>0. Typed /\ req[r] \in Request
  BY DEF Inv, Typed
<1>1. ASSUME Refused(r) PROVE OnlyRequest(r) /\ Fits(req'[r])
  BY <1>1, NoRequestFields DEF Refused, Fits, InOrder
<1>2. CASE \E op \in Ops, c \in Sessions \cup {None} : Send(r, op, c)
  <2>1. PICK op \in Ops, c \in Sessions \cup {None} : Send(r, op, c)
    BY <1>2
  <2>2. /\ OnlyRequest(r) /\ req'[r].pc = "load" /\ req'[r].op = op
        /\ req'[r].cookie = c /\ req'[r].state = None
        /\ c # None => c \in 1..Len(sessions)
        /\ (c = None) <=> (op = "login")
    BY <1>0, <2>1, SendCaptures
  <2> QED
    BY <2>1, <2>2 DEF Send, Fits, InOrder
<1>3. CASE Load(r)
  <2>1. Fits(req[r])
    BY <1>3, RequestsFit DEF Load, At
  <2>2. CASE StaleStore
    <3>1. Moved(r, IF At(r, "load") THEN "init" ELSE "reinit")
      BY <1>0, <1>3, <2>2, RequestMoves DEF Load, Pcs
    <3> QED
      BY <1>3, <2>1, <3>1 DEF Load, At, Moved, SameCookie, Fits, InOrder
  <2>3. CASE ~StaleStore
    <3>1. store \in State /\ store # None /\ store.base = env /\ Cleared(store)
      BY <1>0, <2>3 DEF StaleStore, Typed, Inv, RotationDue
    <3>2. Took(r, store, IF At(r, "load") THEN "check" ELSE "update")
      BY <1>0, <1>3, <2>3, <3>1, RequestMoves DEF Load, Pcs
    <3> QED
      BY <1>3, <2>1, <3>1, <3>2 DEF Load, At, Took, SameCookie, Fits, InOrder
  <2> QED
    BY <2>2, <2>3
<1>4. ASSUME NEW ok \in BOOLEAN, Login(r, ok)
      PROVE  OnlyRequest(r) /\ Fits(req'[r])
  BY <1>0, <1>1, <1>4, RequestMoves DEF Login
<1>5. CASE \E ok \in BOOLEAN : ChangeCheck(r, ok)
  <2>1. PICK ok \in BOOLEAN : ChangeCheck(r, ok)
    BY <1>5
  <2>2. Fits(req[r])
    BY <2>1, RequestsFit DEF ChangeCheck, At
  <2>3. Refused(r) \/ Moved(r, "reload")
    BY <1>0, <2>1, RequestMoves DEF ChangeCheck, Pcs
  <2> QED
    BY <1>1, <2>1, <2>2, <2>3 DEF ChangeCheck, At, Moved, SameCookie, Fits, InOrder
<1>6. CASE \E ok \in BOOLEAN : Logout(r, ok)
  <2>1. PICK ok \in BOOLEAN : Logout(r, ok)
    BY <1>6
  <2>2. Fits(req[r])
    BY <2>1, RequestsFit DEF Logout, At
  <2>3. Refused(r) \/ Moved(r, "revoke")
    BY <1>0, <2>1, RequestMoves DEF Logout, Pcs
  <2> QED
    BY <1>1, <2>1, <2>2, <2>3 DEF Logout, At, Moved, SameCookie, Fits, InOrder
<1>7. CASE Dashboard(r)
  <2>2. Fits(req[r])
    BY <1>7, RequestsFit DEF Dashboard, At
  <2>3. Refused(r) \/ (Moved(r, "dashboard") /\ ~req[r].state.rotate)
    BY <1>0, <1>7, RequestMoves DEF Dashboard, Pcs
  <2> QED
    BY <1>1, <1>7, <2>2, <2>3 DEF Dashboard, At, Moved, SameCookie, Fits, InOrder
<1>8. CASE DashboardDone(r) \/ RevokeSession(r) \/ RedisFails(r)
  BY <1>0, <1>1, <1>8, RequestMoves DEF DashboardDone, RevokeSession, RedisFails
<1>9. ASSUME NEW ok \in BOOLEAN, Login(r, ok)
      PROVE  UNCHANGED <<env, store, hashes, restarts, rotated, replaced, undone>>
  BY <1>9 DEF Login
<1> QED
  BY <1>2, <1>3, <1>4, <1>5, <1>6, <1>7, <1>8, <1>9 DEF QuietAction

-----------------------------------------------------------------------------
(* The steps that write the account.                                        *)

\* The first write of an environment's state.  When it finds the store outdated
\* nothing has been replaced yet; when it comes too late it is on record.
LEMMA LoadInitStep == ASSUME Inv, NEW r \in Requests, LoadInit(r) PROVE Inv'
<1>0. /\ Typed /\ env \in Envs /\ hashes \in Nat
      /\ EnvState \in State /\ EnvState.base = env /\ EnvState.hash = 0
      /\ EnvState.rotate = (env \in MustRotate) /\ EnvState # None
  BY EnvStateFields DEF Inv, Typed
<1>1. /\ store' = EnvState /\ UNCHANGED <<env, hashes, sessions, restarts, rotated, replaced>>
      /\ undone' = (undone \/ (~StaleStore /\ store # EnvState))
      /\ At(r, "init") \/ At(r, "reinit")
  BY DEF LoadInit
<1>2. /\ OnlyRequest(r) /\ SameCookie(r) /\ req'[r].state = EnvState
      /\ req'[r].pc = IF At(r, "init") THEN "check" ELSE "update"
  BY <1>0, RequestMoves DEF LoadInit, Pcs, Took
<1> HIDE DEF LoadInit
<1>3. Fits(req[r])
  BY <1>1, RequestsFit DEF At
<1>4. Cleared(EnvState)
  BY <1>0 DEF Cleared
<1>5. Fits(req'[r])
  BY <1>0, <1>1, <1>2, <1>3, <1>4 DEF Fits, InOrder, SameCookie, At
<1>6. Typed'
  <2>1. undone' \in BOOLEAN
    BY <1>1
  <2> QED
    BY <1>0, <1>1, <1>2, <2>1 DEF Typed, OnlyRequest
<1>7. HandlersInOrder'
  BY <1>1, <1>2, <1>5 DEF Inv, HandlersInOrder, InOrder, OnlyRequest, Fits
<1>8. RotationDue'
  BY <1>1, <1>2, <1>4, <1>5 DEF Inv, RotationDue, Cleared, OnlyRequest, Fits, At
<1>9. HashesFresh'
  <2>1. /\ store'.hash = 0 /\ 0 <= hashes
        /\ \A q \in Requests : req'[q].pc = "persist" => q # r /\ req'[q] = req[q]
    BY <1>0, <1>1, <1>2, <1>5 DEF OnlyRequest, Fits
  <2>2. \A q \in Requests : At(q, "persist") => req[q].state.hash \in 1..hashes
    BY DEF Inv, HashesFresh
  <2>3. \A q \in Requests : req'[q].pc = "persist" =>
            req'[q].state.hash \in 1..hashes /\ req'[q].state.hash # 0
    BY <1>0, <2>1, <2>2 DEF At
  <2> QED
    BY <1>1, <2>1, <2>3 DEF Inv, HashesFresh, At
<1>10. ReplacedIsOver'
  <2>1. ~StaleStore'
    BY <1>0, <1>1 DEF StaleStore
  <2>2. ASSUME ~undone' PROVE EnvState \notin replaced
    <3>1. ~undone /\ (StaleStore \/ store = EnvState)
      BY <1>1, <2>2
    <3> QED
      BY <1>0, <3>1 DEF Inv, ReplacedIsOver
  <2> QED
    BY <1>1, <2>1, <2>2 DEF ReplacedIsOver
<1> QED
  BY <1>6, <1>7, <1>8, <1>9, <1>10 DEF Inv

\* The new state is built: its hash is new, and a change starts from a state
\* whose rotation is not due.
LEMMA UpdateStep ==
    ASSUME Inv, NEW r \in Requests, NEW verified \in BOOLEAN, Update(r, verified) PROVE Inv'
<1>0. /\ Typed /\ hashes \in Nat /\ hashes \in 0..MaxHashes /\ MaxHashes \in Nat
      /\ At(r, "update") /\ Fits(req[r])
      /\ req[r].state \in State /\ req[r].state # None /\ req[r].state.base = env
  <2>1. At(r, "update")
    BY DEF Update
  <2>2. Fits(req[r]) /\ Typed
    BY <2>1, RequestsFit DEF At, Inv
  <2>3. req[r].state # None /\ req[r].state.base = env
    BY <2>1, <2>2 DEF Fits, InOrder, At
  <2>4. req[r].state \in State
    BY <2>2, <2>3 DEF Typed, Request
  <2> QED
    BY <2>1, <2>2, <2>3, <2>4, LocalAdminAssumption DEF Typed
<1>1. UNCHANGED <<env, store, sessions, restarts, rotated, replaced, undone>>
  BY DEF Update
<1>2. CASE Refused(r) /\ hashes' = hashes
  <2>1. OnlyRequest(r) /\ Fits(req'[r])
    BY <1>2, NoRequestFields DEF Refused, Fits, InOrder
  <2>2. Len(sessions) \in Nat
    BY <1>0 DEF Typed
  <2>3. HandlersInOrder' /\ RotationDue' /\ HashesFresh' /\ ReplacedIsOver'
    BY <1>1, <1>2, <2>1, <2>2, QuietStep
  <2>4. Typed'
    BY <1>0, <1>1, <1>2, <2>1 DEF Typed, OnlyRequest
  <2> QED
    BY <2>3, <2>4 DEF Inv
<1>3. ASSUME hashes < MaxHashes, hashes' = hashes + 1,
             Took(r, NewState(req[r].state), "persist"),
             req[r].state.rotate = (req[r].op = "rotate")
      PROVE  Inv'
  <2> DEFINE n == NewState(req[r].state)
  <2>1. n \in State /\ n.base = env /\ n.hash = hashes + 1 /\ ~n.rotate /\ n # None
    BY <1>0, <1>3, NewStateFields
  <2>2. /\ OnlyRequest(r) /\ SameCookie(r) /\ req'[r].pc = "persist" /\ req'[r].state = n
    BY <1>3 DEF Took
  <2> HIDE DEF n
  <2>3. Typed'
    <3>1. hashes' \in 0..MaxHashes
      BY <1>0, <1>3
    <3> QED
      BY <1>0, <1>1, <2>2, <3>1 DEF Typed, OnlyRequest
  <2>4. HandlersInOrder'
    <3>1. InOrder(req'[r])
      BY <1>0, <2>1, <2>2, <1>3 DEF Fits, InOrder, SameCookie, At
    <3> QED
      BY <1>1, <2>2, <3>1 DEF Inv, HandlersInOrder, InOrder, OnlyRequest
  <2>5. RotationDue'
    <3>1. req'[r].op = "rotate" \/ Cleared(n)
      <4>1. CASE req[r].op # "rotate"
        <5>1. ~req[r].state.rotate /\ Cleared(req[r].state)
          BY <1>0, <1>3, <4>1 DEF Fits
        <5> QED
          BY <1>0, <2>1, <5>1 DEF Cleared
      <4> QED
        BY <2>2, <4>1 DEF SameCookie
    <3> QED
      BY <1>1, <2>2, <3>1 DEF Inv, RotationDue, Cleared, OnlyRequest, At
  <2>6. HashesFresh'
    <3>1. /\ store # None => store.hash \in Nat /\ store.hash <= hashes
          /\ \A s \in replaced : s.hash \in Nat /\ s.hash <= hashes
          /\ \A q \in Requests : At(q, "persist") => req[q].state.hash \in 1..hashes
      BY <1>0 DEF Inv, HashesFresh, Typed, State
    <3>2. /\ store # None => store.hash <= hashes' /\ store.hash # n.hash
          /\ \A s \in replaced : s.hash <= hashes' /\ s.hash # n.hash
      BY <1>0, <1>3, <2>1, <3>1
    <3>3. /\ n.hash \in 1..hashes'
          /\ \A q \in Requests : At(q, "persist") =>
                req[q].state.hash \in 1..hashes' /\ req[q].state.hash # n.hash
      BY <1>0, <1>3, <2>1, <3>1
    <3>4. \A q \in Requests : req'[q].pc = "persist" =>
              \/ q = r
              \/ At(q, "persist") /\ req'[q] = req[q]
      BY <2>2 DEF OnlyRequest, At
    <3>5. \A q \in Requests : At(q, "persist") =>
              /\ store # None => store.hash # req[q].state.hash
              /\ \A s \in replaced : s.hash # req[q].state.hash
              /\ \A p \in Requests : p # q /\ At(p, "persist")
                    => req[p].state.hash # req[q].state.hash
      BY DEF Inv, HashesFresh
    <3>6. ASSUME NEW q \in Requests, req'[q].pc = "persist"
          PROVE  /\ req'[q].state.hash \in 1..hashes'
                 /\ store # None => store.hash # req'[q].state.hash
                 /\ \A s \in replaced : s.hash # req'[q].state.hash
                 /\ \A p \in Requests : p # q /\ req'[p].pc = "persist"
                       => req'[p].state.hash # req'[q].state.hash
      BY <2>2, <3>2, <3>3, <3>4, <3>5, <3>6
    <3> QED
      BY <1>1, <3>2, <3>6 DEF HashesFresh, At
  <2>7. ReplacedIsOver'
    BY <1>1 DEF Inv, ReplacedIsOver, StaleStore
  <2> QED
    BY <2>3, <2>4, <2>5, <2>6, <2>7 DEF Inv
<1>4. \/ Refuse(r) /\ hashes' = hashes
      \/ /\ hashes < MaxHashes /\ hashes' = hashes + 1
         /\ req' = [req EXCEPT ![r].state = NewState(req[r].state), ![r].pc = "persist"]
         /\ req[r].state.rotate = (req[r].op = "rotate")
  BY DEF Update
<1>5. \/ Refused(r) /\ hashes' = hashes
      \/ /\ hashes < MaxHashes /\ hashes' = hashes + 1
         /\ Took(r, NewState(req[r].state), "persist")
         /\ req[r].state.rotate = (req[r].op = "rotate")
  BY <1>0, <1>4, RequestMoves, NewStateFields DEF Pcs
<1> QED
  BY <1>2, <1>3, <1>5

\* The new state is written: the state it replaces never was the new one.
LEMMA PersistStep == ASSUME Inv, NEW r \in Requests, Persist(r) PROVE Inv'
<1>0. /\ Typed /\ At(r, "persist") /\ InOrder(req[r]) /\ env \in Envs
      /\ req[r].state \in State /\ req[r].state # None /\ req[r].state.base = env
  <2>1. At(r, "persist") /\ InOrder(req[r]) /\ Typed
    BY DEF Persist, Inv, HandlersInOrder
  <2>2. req[r].state # None /\ req[r].state.base = env
    BY <2>1 DEF InOrder, At
  <2> QED
    BY <2>1, <2>2 DEF Typed, Request
<1>1. /\ store' = req[r].state
      /\ UNCHANGED <<env, hashes, sessions, restarts, undone>>
      /\ rotated' = IF req[r].op = "rotate" THEN rotated \cup {env} ELSE rotated
      /\ replaced' = replaced \cup (IF store = None THEN {} ELSE {store})
  BY DEF Persist
<1>2. Moved(r, "revoke")
  BY <1>0, RequestMoves DEF Persist, Pcs
<1> HIDE DEF Persist
<1>3. Typed'
  <2>1. rotated' \subseteq Envs /\ replaced' \subseteq State
    BY <1>0, <1>1 DEF Typed
  <2> QED
    BY <1>0, <1>1, <1>2, <2>1 DEF Typed, Moved, OnlyRequest
<1>4. HandlersInOrder'
  <2>1. InOrder(req'[r])
    BY <1>0, <1>2 DEF InOrder, Moved, SameCookie, At
  <2> QED
    BY <1>1, <1>2, <2>1 DEF Inv, HandlersInOrder, InOrder, Moved, OnlyRequest
<1>5. RotationDue'
  <2>1. rotated \subseteq rotated'
    BY <1>1
  <2>2. req[r].state.rotate \/ env \notin MustRotate \/ env \in rotated'
    BY <1>0, <1>1 DEF Inv, RotationDue, Cleared
  <2>3. \A q \in Requests : q # r /\ req[q].state # None =>
            \/ Cleared(req[q].state)
            \/ req[q].pc = "persist" /\ req[q].op = "rotate"
    BY DEF Inv, RotationDue
  <2> QED
    BY <1>0, <1>1, <1>2, <2>1, <2>2, <2>3
       DEF Inv, RotationDue, Cleared, Moved, OnlyRequest, At
<1>6. HashesFresh'
  <2>1. /\ req[r].state.hash \in 1..hashes /\ hashes \in Nat
        /\ store # None => store.hash <= hashes
        /\ \A s \in replaced : s.hash <= hashes
    BY <1>0 DEF Inv, HashesFresh, Typed
  <2>2. store'.hash <= hashes /\ \A s \in replaced' : s.hash <= hashes
    BY <1>1, <2>1
  <2>3. \A q \in Requests : req'[q].pc = "persist" => q # r /\ At(q, "persist") /\ req'[q] = req[q]
    BY <1>2 DEF Moved, OnlyRequest, At
  <2>4. \A q \in Requests : q # r /\ At(q, "persist") =>
            /\ req[q].state.hash \in 1..hashes
            /\ store'.hash # req[q].state.hash
            /\ \A s \in replaced' : s.hash # req[q].state.hash
            /\ \A p \in Requests : p # q /\ At(p, "persist")
                  => req[p].state.hash # req[q].state.hash
    BY <1>0, <1>1 DEF Inv, HashesFresh
  <2> QED
    BY <1>1, <2>2, <2>3, <2>4 DEF HashesFresh, At
<1>7. ReplacedIsOver'
  <2>1. ~StaleStore'
    BY <1>0, <1>1 DEF StaleStore
  <2>2. store' \notin replaced'
    BY <1>0, <1>1 DEF Inv, HashesFresh
  <2> QED
    BY <2>1, <2>2 DEF ReplacedIsOver
<1> QED
  BY <1>3, <1>4, <1>5, <1>6, <1>7 DEF Inv

\* A restart ends the requests in flight.
LEMMA RestartStep == ASSUME Inv, NEW e \in Envs, Restart(e) PROVE Inv'
<1>0. /\ Typed /\ env' = e /\ UNCHANGED <<store, hashes, sessions>>
      /\ req' = [r \in Requests |-> NoRequest] /\ replaced' = {} /\ undone' = FALSE
      /\ rotated' = IF store # None /\ store.base = e THEN rotated ELSE rotated \ {e}
      /\ restarts < MaxRestarts /\ restarts' = restarts + 1
  BY DEF Restart, Inv
<1>1. req' \in [Requests -> Request] /\ \A r \in Requests : req'[r] = NoRequest
  BY <1>0, NoRequestFields
<1>2. Typed'
  <2>1. restarts' \in 0..MaxRestarts
    BY <1>0, LocalAdminAssumption DEF Typed
  <2>2. rotated' \subseteq Envs
    BY <1>0 DEF Typed
  <2> QED
    BY <1>0, <1>1, <2>1, <2>2 DEF Typed
<1>3. HandlersInOrder'
  BY <1>1, NoRequestFields DEF HandlersInOrder, InOrder
<1>4. RotationDue'
  <2>1. store # None => Cleared(store)
    BY DEF Inv, RotationDue
  <2>2. store' # None => store'.rotate \/ store'.base \notin MustRotate \/ store'.base \in rotated'
    BY <1>0, <2>1 DEF Cleared
  <2> QED
    BY <1>1, <2>2, NoRequestFields DEF RotationDue, Cleared, At
<1>5. HashesFresh'
  BY <1>0, <1>1, NoRequestFields DEF Inv, HashesFresh, At
<1>6. ReplacedIsOver'
  BY <1>0 DEF ReplacedIsOver
<1> QED
  BY <1>2, <1>3, <1>4, <1>5, <1>6 DEF Inv

-----------------------------------------------------------------------------
(* The theorems.                                                            *)

\* The invariant holds before the first request and every step keeps it.
LEMMA InvHolds == Spec => []Inv
<1>1. Init => Inv
  <2> SUFFICES ASSUME Init PROVE Inv
    OBVIOUS
  <2>1. req \in [Requests -> Request] /\ \A r \in Requests : req[r] = NoRequest
    BY NoRequestFields DEF Init
  <2>2. Typed
    <3>1. sessions \in Seq(Session) /\ Len(sessions) <= MaxSessions
      BY LocalAdminAssumption DEF Init
    <3>2. hashes \in 0..MaxHashes /\ restarts \in 0..MaxRestarts
      BY LocalAdminAssumption DEF Init
    <3>3. /\ env \in Envs /\ store \in State \cup {None} /\ rotated \subseteq Envs
          /\ replaced \subseteq State /\ undone \in BOOLEAN
      BY DEF Init
    <3> QED
      BY <2>1, <3>1, <3>2, <3>3 DEF Typed
  <2>3. HandlersInOrder /\ RotationDue /\ HashesFresh /\ ReplacedIsOver
    BY <2>1, NoRequestFields
       DEF Init, HandlersInOrder, InOrder, RotationDue, HashesFresh, ReplacedIsOver, At
  <2> QED
    BY <2>2, <2>3 DEF Inv
<1>2. Inv /\ [Next]_vars => Inv'
  <2> SUFFICES ASSUME Inv, [Next]_vars PROVE Inv'
    OBVIOUS
  <2>1. CASE UNCHANGED vars
    BY <2>1 DEF vars, Inv, Typed, HandlersInOrder, InOrder, RotationDue, Cleared, HashesFresh,
         ReplacedIsOver, StaleStore, At
  <2>2. ASSUME NEW r \in Requests, QuietAction(r) PROVE Inv'
    <3>1. /\ sessions' \in Seq(Session) /\ Len(sessions') <= MaxSessions
          /\ Len(sessions') \in Nat /\ Len(sessions') >= Len(sessions)
      BY <2>2, SessionsGrow
    <3>2. /\ OnlyRequest(r) /\ Fits(req'[r])
          /\ UNCHANGED <<env, store, hashes, restarts, rotated, replaced, undone>>
      BY <2>2, QuietFits
    <3>3. Typed'
      BY <3>1, <3>2 DEF Inv, Typed, OnlyRequest
    <3> QED
      BY <3>1, <3>2, <3>3, QuietStep DEF Inv
  <2>3. CASE \E e \in Envs : Restart(e)
    BY <2>3, RestartStep
  <2>4. CASE \E r \in Requests : LoadInit(r) \/ Persist(r) \/ \E ok \in BOOLEAN : Update(r, ok)
    BY <2>4, LoadInitStep, PersistStep, UpdateStep
  <2> QED
    BY <2>1, <2>2, <2>3, <2>4 DEF Next, QuietAction
<1> QED
  BY <1>1, <1>2, PTL DEF Spec

\* Every variable of the local administrator keeps its type.
THEOREM TypeCorrect == Spec => []TypeOK
<1>1. Inv => TypeOK
  <2> SUFFICES ASSUME Inv PROVE TypeOK
    OBVIOUS
  <2>0. Typed
    BY DEF Inv
  <2>1. \A i \in Sessions : sessions[i] \in Session
    BY <2>0 DEF Typed, Sessions
  <2>2. ASSUME NEW r \in Requests
        PROVE  /\ req[r].op \in Ops \cup {None}
               /\ req[r].cookie \in Sessions \cup {None}
               /\ req[r].state \in State \cup {None}
    <3>1. req[r] \in Request /\ Sessions = 1..Len(sessions)
      BY <2>0 DEF Typed, Sessions
    <3>2. req[r].op \in Ops \cup {None} /\ req[r].state \in State \cup {None}
      BY <3>1 DEF Request
    <3> QED
      BY <3>1, <3>2 DEF Inv, HandlersInOrder, InOrder
  <2> QED
    BY <2>0, <2>1, <2>2 DEF Typed, TypeOK, Session
<1> QED
  BY <1>1, InvHolds, PTL

\* get_admin_dashboard_identity_required: until the rotation that the
\* environment asks for is completed no session reaches the dashboard, across
\* any number of restarts and environments.
THEOREM DashboardAfterRotation == Spec => []DashboardNeedsRotation
<1>1. Inv => DashboardNeedsRotation
  <2> SUFFICES ASSUME Inv, NEW r \in Requests, At(r, "dashboard"), env \in MustRotate
               PROVE  env \in rotated
    BY DEF DashboardNeedsRotation
  <2>1. Fits(req[r])
    BY RequestsFit DEF At
  <2> QED
    BY <2>1 DEF Fits, InOrder, Cleared, At
<1> QED
  BY <1>1, InvHolds, PTL

\* A state that a rotation or a change has replaced is not in force again, so
\* the sessions issued for it are refused, unless a first-use write came late.
THEOREM SessionsEnded == Spec => []ChangeEndsSessions
<1>1. Inv => ChangeEndsSessions
  BY DEF Inv, ReplacedIsOver, ChangeEndsSessions, Accepts, Revision
<1> QED
  BY <1>1, InvHolds, PTL
=============================================================================
