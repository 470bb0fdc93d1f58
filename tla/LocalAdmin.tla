----------------------------- MODULE LocalAdmin -----------------------------
(***************************************************************************)
(* The break-glass administrator of src/app.py and                         *)
(* src/local_admin_security.py.  The account comes from the environment    *)
(* (user, password hash, forced rotation) and is copied into one Redis key *)
(* at the first use; a password rotation or change replaces the copy until *)
(* the environment itself changes.  A session token carries the revision   *)
(* (a digest) of the account state it was issued for.                      *)
(*                                                                         *)
(* Several requests run at a time; the read of the Redis key and the write *)
(* that follows it are separate steps.  A restart may bring a new          *)
(* environment and ends the requests in flight.                            *)
(***************************************************************************)
EXTENDS Integers, Sequences, FiniteSets

CONSTANTS
    Requests,       \* requests that may be in flight at the same time
    Envs,           \* values of the LOCAL_ADMIN_* environment
    MustRotate,     \* those with FORCE_ROTATE or BOOTSTRAP_REQUIRED set
    MaxHashes,      \* bound: password hashes ever built
    MaxSessions,    \* bound: sessions ever issued
    MaxRestarts,    \* bound: restarts with another environment
    None

\* An account state: the environment it was made for, the number of its
\* password hash, whether a rotation is due, whether it overrides the environment.
State == [base : Envs, hash : 0..MaxHashes, rotate : BOOLEAN, override : BOOLEAN]

ASSUME LocalAdminAssumption ==
    /\ MustRotate \subseteq Envs /\ Envs # {}
    /\ MaxHashes \in Nat /\ MaxSessions \in Nat /\ MaxRestarts \in Nat
    /\ None \notin Envs \cup Nat /\ None \notin State

VARIABLES
    env,        \* the environment of the running process
    store,      \* the account state under LOCAL_ADMIN_STATE_REDIS_KEY
    hashes,     \* number of password hashes built; a hash is salted, so new
    sessions,   \* sessions[i]: [state, revoked] of the i-th token issued
    req,        \* the requests in flight
    restarts,   \* number of restarts
    rotated,    \* history: environments whose forced rotation was completed
    replaced,   \* history: states that an acknowledged password change replaced
    undone      \* history: a late first-use write put back a replaced state

vars == <<env, store, hashes, sessions, req, restarts, rotated, replaced, undone>>

\* local_admin_env_state: hash 0 is the one in the environment.
EnvStateBug == [base |-> env, hash |-> None, rotate |-> env \in MustRotate,
                override |-> FALSE]
EnvState == [base |-> env, hash |-> 0, rotate |-> env \in MustRotate,
             override |-> FALSE]

\* build_local_admin_state_revision digests the environment's revision, the
\* hash and the flags: equal exactly for equal states.
RevisionWithoutHash(state) == [base |-> state.base, override |-> state.override]
Revision(state) == state

Ops == {"login", "rotate", "change", "logout", "dashboard"}
NoRequest == [pc |-> "idle", op |-> None, cookie |-> None, state |-> None]

At(r, label) == req[r].pc = label
Goto(r, label) == req' = [req EXCEPT ![r].pc = label]
Refuse(r) == req' = [req EXCEPT ![r] = NoRequest]
Sessions == DOMAIN sessions

----------------------------------------------------------------------------
\* A request of a browser that holds one of the tokens issued, or none.
Send(r, op, cookie) ==
    /\ At(r, "idle")
    /\ cookie \in Sessions \cup {None}
    /\ (cookie = None) <=> (op = "login")
    /\ req' = [req EXCEPT ![r] = [NoRequest EXCEPT !.pc = "load", !.op = op,
                                                   !.cookie = cookie]]
    /\ UNCHANGED <<env, store, hashes, sessions, restarts, rotated, replaced, undone>>

\* load_local_admin_state, the read: a state of another environment, or none,
\* is to be replaced by the environment's.
StaleStoreIgnoringEnv == store = None
StaleStore == store = None \/ store.base # env

Load(r) ==
    /\ At(r, "load") \/ At(r, "reload")
    /\ IF StaleStore
         THEN Goto(r, IF At(r, "load") THEN "init" ELSE "reinit")
         ELSE req' = [req EXCEPT ![r].state = store,
                                 ![r].pc = IF At(r, "load") THEN "check" ELSE "update"]
    /\ UNCHANGED <<env, store, hashes, sessions, restarts, rotated, replaced, undone>>

\* load_local_admin_state, the write of the environment's state.
LoadInit(r) ==
    /\ At(r, "init") \/ At(r, "reinit")
    /\ store' = EnvState
    /\ req' = [req EXCEPT ![r].state = EnvState,
                          ![r].pc = IF At(r, "init") THEN "check" ELSE "update"]
    /\ undone' = (undone \/ (~StaleStore /\ store # EnvState))
    /\ UNCHANGED <<env, hashes, sessions, restarts, rotated, replaced>>

----------------------------------------------------------------------------
\* get_current_local_admin_session: the token is not revoked and was issued
\* for the state just loaded.
Accepts(session, state) ==
    ~sessions[session].revoked /\ Revision(sessions[session].state) = Revision(state)

Issue(state) == sessions' = Append(sessions, [state |-> state, revoked |-> FALSE])

\* local_admin_login: the password is verified against the loaded state; the
\* session is issued for that state.
Login(r, verified) ==
    /\ At(r, "check") /\ req[r].op = "login"
    /\ IF verified THEN Len(sessions) < MaxSessions /\ Issue(req[r].state)
                   ELSE UNCHANGED sessions
    /\ Refuse(r)
    /\ UNCHANGED <<env, store, hashes, restarts, rotated, replaced, undone>>

\* get_admin_dashboard_identity_required: a session whose state asks for a
\* rotation is turned away.
Dashboard(r) ==
    /\ At(r, "check") /\ req[r].op = "dashboard"
    /\ IF Accepts(req[r].cookie, req[r].state) /\ ~req[r].state.rotate
         THEN Goto(r, "dashboard") ELSE Refuse(r)
    /\ UNCHANGED <<env, store, hashes, sessions, restarts, rotated, replaced, undone>>

\* The dashboard page has been answered.
DashboardDone(r) ==
    /\ At(r, "dashboard")
    /\ Refuse(r)
    /\ UNCHANGED <<env, store, hashes, sessions, restarts, rotated, replaced, undone>>

\* The checks of rotate (a session that must rotate, CSRF, password policy)
\* and of change (one that need not, CSRF, the rate limit); ok stands for the
\* ones about the form.  Both then load the state again.
ChangeCheck(r, ok) ==
    /\ At(r, "check") /\ req[r].op \in {"rotate", "change"}
    /\ IF /\ ok /\ Accepts(req[r].cookie, req[r].state)
          /\ req[r].state.rotate = (req[r].op = "rotate")
         THEN Goto(r, "reload") ELSE Refuse(r)
    /\ UNCHANGED <<env, store, hashes, sessions, restarts, rotated, replaced, undone>>

\* The second load decides: a rotation must still be due, a change needs the
\* current password.  The new state carries a fresh hash and no flags.
NewState(state) ==
    [state EXCEPT !.hash = hashes + 1, !.rotate = FALSE, !.override = TRUE]

Update(r, verified) ==
    LET state == req[r].state
    IN  /\ At(r, "update")
        /\ IF /\ state.rotate = (req[r].op = "rotate")
              /\ req[r].op = "change" => verified
             THEN /\ hashes < MaxHashes
                  /\ hashes' = hashes + 1
                  /\ req' = [req EXCEPT ![r].state = NewState(state), ![r].pc = "persist"]
             ELSE Refuse(r) /\ UNCHANGED hashes
        /\ UNCHANGED <<env, store, sessions, restarts, rotated, replaced, undone>>

\* persist_local_admin_state.
Persist(r) ==
    /\ At(r, "persist")
    /\ store' = req[r].state
    /\ replaced' = replaced \cup (IF store = None THEN {} ELSE {store})
    /\ rotated' = IF req[r].op = "rotate" THEN rotated \cup {env} ELSE rotated
    /\ Goto(r, "revoke")
    /\ UNCHANGED <<env, hashes, sessions, restarts, undone>>

\* revoke_local_admin_session_token of the request's cookie; a rotation then
\* issues a session for the new state, a change and a logout clear the
\* cookies.
RevokeSession(r) ==
    /\ At(r, "revoke")
    /\ LET others == [sessions EXCEPT ![req[r].cookie].revoked = TRUE]
       IN  IF req[r].op = "rotate"
             THEN /\ Len(sessions) < MaxSessions
                  /\ sessions' = Append(others, [state |-> req[r].state, revoked |-> FALSE])
             ELSE sessions' = others
    /\ Refuse(r)
    /\ UNCHANGED <<env, store, hashes, restarts, rotated, replaced, undone>>

\* local_admin_logout: only a valid session is revoked, after the CSRF check.
Logout(r, ok) ==
    /\ At(r, "check") /\ req[r].op = "logout"
    /\ IF ok /\ Accepts(req[r].cookie, req[r].state) THEN Goto(r, "revoke") ELSE Refuse(r)
    /\ UNCHANGED <<env, store, hashes, sessions, restarts, rotated, replaced, undone>>

\* A Redis command raises: the handler ends with an error.
RedisFails(r) ==
    /\ req[r].pc \in {"load", "reload", "init", "reinit", "persist", "revoke"}
    /\ Refuse(r)
    /\ UNCHANGED <<env, store, hashes, sessions, restarts, rotated, replaced, undone>>

\* The process is restarted with another environment.  A rotation completed for
\* that environment earlier still counts if its state is the one in Redis.
Restart(e) ==
    /\ restarts < MaxRestarts /\ e # env
    /\ env' = e
    /\ restarts' = restarts + 1
    /\ req' = [r \in Requests |-> NoRequest]
    /\ rotated' = IF store # None /\ store.base = e THEN rotated ELSE rotated \ {e}
    /\ replaced' = {}
    /\ undone' = FALSE
    /\ UNCHANGED <<store, hashes, sessions>>

----------------------------------------------------------------------------
Init ==
    /\ env \in Envs
    /\ store = None
    /\ hashes = 0
    /\ sessions = <<>>
    /\ req = [r \in Requests |-> NoRequest]
    /\ restarts = 0
    /\ rotated = {}
    /\ replaced = {}
    /\ undone = FALSE

Next ==
    \/ \E e \in Envs : Restart(e)
    \/ \E r \in Requests :
         \/ \E op \in Ops, c \in Sessions \cup {None} : Send(r, op, c)
         \/ Load(r) \/ LoadInit(r)
         \/ \E ok \in BOOLEAN : \/ Login(r, ok) \/ ChangeCheck(r, ok)
                                \/ Update(r, ok) \/ Logout(r, ok)
         \/ Dashboard(r) \/ DashboardDone(r) \/ Persist(r) \/ RevokeSession(r)
         \/ RedisFails(r)

Spec == Init /\ [][Next]_vars

----------------------------------------------------------------------------
(* Properties. *)

\* Type invariant: every variable of the local administrator keeps its type.
TypeOK ==
    /\ env \in Envs
    /\ store \in State \cup {None}
    /\ hashes \in 0..MaxHashes
    /\ Len(sessions) <= MaxSessions
    /\ \A i \in Sessions : sessions[i] \in [state : State, revoked : BOOLEAN]
    /\ \A r \in Requests :
         /\ req[r].op \in Ops \cup {None}
         /\ req[r].cookie \in Sessions \cup {None}
         /\ req[r].state \in State \cup {None}
    /\ restarts \in 0..MaxRestarts
    /\ rotated \subseteq Envs
    /\ replaced \subseteq State
    /\ undone \in BOOLEAN

\* Until the rotation that the environment asks for is completed, no session
\* reaches the dashboard: not one of an earlier environment, not one issued
\* before a restart, in no order of concurrent requests.
DashboardNeedsRotation ==
    \A r \in Requests : At(r, "dashboard") /\ env \in MustRotate => env \in rotated

\* A password change ends every session issued before it: a state that an
\* acknowledged rotation or change replaced is never in force again, so its
\* sessions are refused.  A request that found the key missing or outdated and
\* writes the environment's state late may still put the old state back
\* (undone), see the README.
ChangeEndsSessions ==
    \A i \in Sessions :
        sessions[i].state \in replaced /\ store # None /\ ~undone =>
            ~Accepts(i, store)
=============================================================================
