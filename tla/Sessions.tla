------------------------------ MODULE Sessions ------------------------------
(***************************************************************************)
(* The user sessions of the web application: password login through        *)
(* Kerberos and LDAP, trusted-proxy SSO login, logout, refresh-token       *)
(* rotation and model switch (src/app.py), the signed tokens, their        *)
(* revocation keys in Redis and the directory lookup                       *)
(* (src/auth_kerberos.py), and the sliding window of the login rate        *)
(* limiter (src/llm_gateway.py).                                           *)
(*                                                                         *)
(* One browser with one cookie jar sends several requests at a time.  A    *)
(* request captures the cookies when it is sent; every await of its        *)
(* handler is a step of its own.  Time is counted in ticks, TicksPerSecond *)
(* to the second: JWT claims have whole seconds, Redis keys expire to the  *)
(* millisecond.                                                            *)
(***************************************************************************)
EXTENDS Integers, Sequences, FiniteSetsExt

CONSTANTS
    Requests,          \* requests that may be in flight at the same time
    TicksPerSecond,    \* resolution of the Redis clock
    AccessTtl,         \* ACCESS_TOKEN_EXPIRE_MINUTES, in seconds
    RefreshTtl,        \* REFRESH_TOKEN_EXPIRE_DAYS, in seconds
    Window,            \* window_seconds of the login limiter, in ticks
    MaxLogins,         \* max_requests of the login limiter
    MaxTick,           \* bound: the clock stops here
    MaxTokens,         \* bound: tokens ever minted
    MaxSends,          \* bound: requests ever sent
    None

ASSUME SessionsAssumption ==
    /\ TicksPerSecond \in Nat \ {0} /\ AccessTtl \in Nat \ {0}
    /\ RefreshTtl \in Nat \ {0} /\ Window \in Nat \ {0}
    /\ MaxLogins \in Nat \ {0} /\ MaxTick \in Nat /\ MaxTokens \in Nat
    /\ MaxSends \in Nat
    /\ None \notin Nat

VARIABLES
    now,          \* the clock, in ticks
    issued,       \* every token ever minted: issued[jti] = [type, exp, auth_time]
    revokedTill,  \* revokedTill[jti]: tick at which auth:revoked:<jti> expires, 0 if never set
    attempts,     \* scores in the sorted set of the login limiter
    caches,       \* caches[r]: the Kerberos ticket cache of request r on disk
    leftover,     \* the cache files that no request will remove any more
    jar,          \* the browser's cookies
    req,          \* the requests in flight
    sent,         \* number of requests sent so far
    logins,       \* history: seconds at which an identity was established
    admitted,     \* history: ticks at which the limiter let a login through
    interrupted   \* history: a revocation took effect whose answer was lost

vars == <<now, issued, revokedTill, attempts, caches, leftover, jar, req,
          sent,
logins, admitted, interrupted>>

Ops == {"login", "sso", "logout", "refresh", "switch"}

NoRequest == [pc |-> "idle", op |-> None, access |-> None, refresh |-> None,
              auth_time |-> None, newAccess |-> None, newRefresh |-> None]

EmptyJar == [access_token |-> None, refresh_token |-> None]

Jtis == 1..MaxTokens

Second(t) == t \div TicksPerSecond

----------------------------------------------------------------------------
(* Tokens. *)

\* create_access_token: exp is written in whole seconds.
Token(type, ttl, auth) ==
    [type |-> type, exp |-> Second(now) + ttl, auth_time |-> auth]

\* jwt.decode of the jose library refuses a token once exp lies before the
\* current second.
Decodes(jti) == jti # None /\ Second(now) <= issued[jti].exp

\* is_token_revoked: the key exists.
IsTokenRevoked(jti) == now < revokedTill[jti]

\* get_current_user: the identity in the access cookie is honoured.
CurrentUser(jti) ==
    Decodes(jti) /\ issued[jti].type # "refresh" /\ ~IsTokenRevoked(jti)

\* revoke_token: the key lives as long as the token has seconds left, and at
\* least one; the claims are read without checking exp.
RevokedTillBug(jti) == now + TicksPerSecond * AccessTtl
RevokedTill(jti) ==
    LET left == issued[jti].exp - Second(now)
    IN  now + TicksPerSecond * (IF left > 1 THEN left ELSE 1)

\* build_token_payload, enrich_identity_session_fields and
\* build_identity_contract: a session keeps the auth_time of the identity it
\* is made from; an identity without one is authenticated now.
AuthTimeReset(known) == Second(now)
AuthTimeMissing(known) == known
AuthTime(known) == IF known # None THEN known ELSE Second(now)

\* The access and refresh tokens minted together by a handler.
MintPair(r, known) ==
    LET n    == Len(issued)
        auth == AuthTime(known)
    IN  /\ n + 2 <= MaxTokens
        /\ issued' = issued \o <<Token("access", AccessTtl, auth),
                                 Token("refresh", RefreshTtl, auth)>>
        /\ req' = [req EXCEPT ![r].newAccess = n + 1, ![r].newRefresh = n + 2,
                              ![r].pc = CASE req[r].op = "sso"     -> "revokeAccess"
                                          [] req[r].op = "refresh" -> "revokeRefresh"
                                          [] OTHER                 -> "reply"]

At(r, label) == req[r].pc = label
Goto(r, label) == req' = [req EXCEPT ![r].pc = label]
Refuse(r) == req' = [req EXCEPT ![r] = NoRequest]

----------------------------------------------------------------------------
(* The browser and the clock. *)

Send(r, op) ==
    /\ At(r, "idle") /\ sent < MaxSends
    /\ sent' = sent + 1
    /\ req' = [req EXCEPT ![r] =
                 [NoRequest EXCEPT !.pc = CASE op = "login" -> "rate"
                                             [] op = "sso"   -> "negotiate"
                                             [] OTHER        -> "check",
                                   !.op = op,
                                   !.access = jar.access_token,
                                   !.refresh = jar.refresh_token]]
    /\ UNCHANGED <<now, issued, revokedTill, attempts, caches, leftover, jar, logins,
                   admitted, interrupted>>

Tick ==
    /\ now < MaxTick
    /\ now' = now + 1
    /\ UNCHANGED <<sent, issued, revokedTill, attempts, caches, leftover, jar, req, logins,
                   admitted, interrupted>>

----------------------------------------------------------------------------
(* POST /login *)

\* AsyncRateLimiter.check: one transaction adds the attempt, drops what has
\* left the window and counts; a refused attempt stays in the set.
InWindowBug(t) == t >= now - Window + 2
InWindow(t) == t > now - Window

\* ZREMRANGEBYSCORE: the set is ordered by score, so what has left the window is
\* a prefix of it.
Kept(scores) ==
    SubSeq(scores, Min({i \in DOMAIN scores : InWindow(scores[i])}), Len(scores))

RateCheck(r) ==
    LET kept == Kept(Append(attempts, now))
    IN  /\ At(r, "rate")
        /\ attempts' = kept
        /\ IF Len(kept) > MaxLogins
             THEN Refuse(r) /\ UNCHANGED admitted
             ELSE Goto(r, "kinit") /\ admitted' = Append(admitted, now)
        /\ UNCHANGED <<now, sent, issued, revokedTill, caches, leftover, jar, logins, interrupted>>

\* The proxy asks /validate of sso_proxy_auth before it passes an SSO login
\* on: a Negotiate token that is missing or needs another leg is answered
\* with a challenge, an accepted one names the principal to look up.
Negotiate(r, accepted) ==
    /\ At(r, "negotiate")
    /\ IF accepted THEN Goto(r, "kinit") ELSE Refuse(r)
    /\ UNCHANGED <<now, sent, issued, revokedTill, attempts, caches, leftover, jar, logins,
                   admitted, interrupted>>

\* A cache file whose lookup is over: what it holds, and what kept it on disk.
Leftovers == [holds : {"empty", "ticket"}, after : {"no_config", "not_removed"}]

\* KerberosAuth.authenticate runs in a thread (and
\* resolve_identity_via_service_credentials in the proxy's helper).  The empty
\* cache file and the krb5 configuration are written before the try: when the
\* cache file cannot be made nothing stays, when the configuration cannot be
\* written the cache file stays; both exceptions end the request.
CreateTicketCache(r, made) ==
    /\ At(r, "kinit")
    /\ \/ /\ made = "both"
          /\ Goto(r, "ticket")
          /\ caches' = [caches EXCEPT ![r] = "empty"]
          /\ UNCHANGED leftover
       \/ /\ made = "cache"
          /\ Refuse(r)
          /\ leftover' = leftover \cup {[holds |-> "empty", after |-> "no_config"]}
          /\ UNCHANGED caches
       \/ made = "nothing" /\ Refuse(r) /\ UNCHANGED <<caches, leftover>>
    /\ UNCHANGED <<now, sent, issued, revokedTill, attempts, jar, logins, admitted,
                   interrupted>>

\* kinit or ldapsearch fails or times out, kinit perhaps after it has stored the
\* ticket: the answer is None, the finally clause destroys the ticket.
DirectoryFails(r, stored) ==
    /\ req[r].pc \in {"ticket", "ldap"}
    /\ caches' = [caches EXCEPT ![r] = IF stored THEN "ticket" ELSE @]
    /\ Goto(r, "destroy")
    /\ UNCHANGED <<now, sent, issued, revokedTill, attempts, leftover, jar, logins,
                   admitted, interrupted>>

GetTicket(r) ==
    /\ At(r, "ticket")
    /\ caches' = [caches EXCEPT ![r] = "ticket"]
    /\ Goto(r, "ldap")
    /\ UNCHANGED <<now, sent, issued, revokedTill, attempts, leftover, jar, logins,
                   admitted, interrupted>>

\* get_user_info_from_ldap: the identity is built, authenticated now.
GetUserInfo(r) ==
    /\ At(r, "ldap")
    /\ req' = [req EXCEPT ![r].pc = "destroy", ![r].auth_time = Second(now)]
    /\ logins' = IF req[r].op = "login" THEN logins \cup {Second(now)} ELSE logins
    /\ UNCHANGED <<now, sent, issued, revokedTill, attempts, caches, leftover, jar,
                   admitted, interrupted>>

\* A login without an identity is refused; an SSO login goes on with the bare
\* principal.
AfterLookup(r) ==
    IF req[r].op = "sso" THEN Goto(r, "check")
    ELSE IF req[r].auth_time = None THEN Refuse(r) ELSE Goto(r, "issue")

\* destroy_ticket: the finally clause, on every path out of the try.  kdestroy
\* removes the cache, and os.remove does when kdestroy has not; either may fail
\* and is only logged.
DestroyTicketBug(r, destroyed, removed) ==
    /\ At(r, "destroy")
    /\ caches' = [caches EXCEPT ![r] = IF req[r].auth_time = None THEN @ ELSE "none"]
    /\ UNCHANGED leftover
    /\ AfterLookup(r)
    /\ UNCHANGED <<now, sent, issued, revokedTill, attempts, jar, logins, admitted,
                   interrupted>>
DestroyTicket(r, destroyed, removed) ==
    /\ At(r, "destroy")
    /\ caches' = [caches EXCEPT ![r] = "none"]
    /\ leftover' = IF destroyed \/ removed \/ caches[r] = "none" THEN leftover
                   ELSE leftover \cup {[holds |-> caches[r], after |-> "not_removed"]}
    /\ AfterLookup(r)
    /\ UNCHANGED <<now, sent, issued, revokedTill, attempts, jar, logins, admitted,
                   interrupted>>

\* The model is resolved (a placeholder if there is none) and the session
\* issued; tokens in the request's cookies are left as they are.
LoginIssue(r) ==
    /\ At(r, "issue")
    /\ MintPair(r, req[r].auth_time)
    /\ UNCHANGED <<now, sent, revokedTill, attempts, caches, leftover, jar, logins, admitted,
                   interrupted>>

----------------------------------------------------------------------------
(* GET SSO_LOGIN_PATH, POST /logout, POST /api/refresh, POST                *)
(* /api/switch-model.  "ok" stands for what the request carries besides its *)
(* cookies: headers of the trusted proxy that name one identity, or a valid *)
(* CSRF token and origin.                                                   *)

\* build_trusted_proxy_sso_identity; the new session is minted before the
\* old one is revoked.
SsoCheck(r, ok) ==
    /\ At(r, "check") /\ req[r].op = "sso"
    /\ IF ok THEN MintPair(r, None) /\ logins' = logins \cup {Second(now)}
             ELSE Refuse(r) /\ UNCHANGED <<issued, logins>>
    /\ UNCHANGED <<now, sent, revokedTill, attempts, caches, leftover, jar, admitted, interrupted>>

\* Only a live session needs the CSRF token to log out.
LogoutCheck(r, ok) ==
    /\ At(r, "check") /\ req[r].op = "logout"
    /\ IF CurrentUser(req[r].access) /\ ~ok THEN Refuse(r) ELSE Goto(r, "revokeAccess")
    /\ UNCHANGED <<now, sent, issued, revokedTill, attempts, caches, leftover, jar, logins,
                   admitted, interrupted>>

RefreshCheck(r, ok) ==
    LET jti == req[r].refresh
    IN  /\ At(r, "check") /\ req[r].op = "refresh"
        /\ IF ok /\ Decodes(jti) /\ issued[jti].type = "refresh" /\ ~IsTokenRevoked(jti)
             THEN MintPair(r, issued[jti].auth_time)
             ELSE Refuse(r) /\ UNCHANGED issued
        /\ UNCHANGED <<now, sent, revokedTill, attempts, caches, leftover, jar, logins, admitted,
                       interrupted>>

\* get_current_user_required and the CSRF check; the models are then read in
\* a thread and the catalog written.
SwitchCheck(r, ok) ==
    /\ At(r, "check") /\ req[r].op = "switch"
    /\ IF ok /\ CurrentUser(req[r].access)
         THEN req' = [req EXCEPT ![r].pc = "models",
                                 ![r].auth_time = issued[req[r].access].auth_time]
         ELSE Refuse(r)
    /\ UNCHANGED <<now, sent, issued, revokedTill, attempts, caches, leftover, jar, logins,
                   admitted, interrupted>>

SwitchIssue(r, allowed) ==
    /\ At(r, "models")
    /\ IF allowed THEN MintPair(r, req[r].auth_time)
                  ELSE Refuse(r) /\ UNCHANGED issued
    /\ UNCHANGED <<now, sent, revokedTill, attempts, caches, leftover, jar, logins, admitted,
                   interrupted>>

\* revoke_token of the access cookie, then of the refresh cookie; refresh
\* revokes the refresh cookie alone.
Revoke(jti) ==
    IF jti = None THEN UNCHANGED revokedTill
    ELSE revokedTill' = [revokedTill EXCEPT ![jti] = RevokedTill(jti)]

RevokeAccess(r) ==
    /\ At(r, "revokeAccess")
    /\ Revoke(req[r].access)
    /\ Goto(r, "revokeRefresh")
    /\ UNCHANGED <<now, sent, issued, attempts, caches, leftover, jar, logins, admitted, interrupted>>

RevokeRefresh(r) ==
    /\ At(r, "revokeRefresh")
    /\ Revoke(req[r].refresh)
    /\ Goto(r, "reply")
    /\ UNCHANGED <<now, sent, issued, attempts, caches, leftover, jar, logins, admitted, interrupted>>

----------------------------------------------------------------------------
(* Answers and failures. *)

\* set_auth_cookies / clear_auth_cookies: the answer reaches the browser.
ReplyBug(r) ==
    /\ At(r, "reply")
    /\ jar' = CASE req[r].op = "logout"  -> EmptyJar
                [] req[r].op = "refresh" -> [jar EXCEPT !.access_token = req[r].newAccess]
                [] OTHER -> [access_token |-> req[r].newAccess,
                             refresh_token |-> req[r].newRefresh]
    /\ Refuse(r)
    /\ UNCHANGED <<now, sent, issued, revokedTill, attempts, caches, leftover, logins, admitted,
                   interrupted>>
Reply(r) ==
    /\ At(r, "reply")
    /\ jar' = IF req[r].op = "logout" THEN EmptyJar
              ELSE [access_token |-> req[r].newAccess,
                    refresh_token |-> req[r].newRefresh]
    /\ Refuse(r)
    /\ UNCHANGED <<now, sent, issued, revokedTill, attempts, caches, leftover, logins, admitted,
                   interrupted>>

\* The connection breaks and the answer, with its cookies, is lost.
LoseReply(r) ==
    /\ At(r, "reply")
    /\ interrupted' = (interrupted \/ req[r].op \in {"sso", "logout", "refresh"})
    /\ Refuse(r)
    /\ UNCHANGED <<now, sent, issued, revokedTill, attempts, caches, leftover, jar, logins, admitted>>

\* A Redis command raises: the handler answers with an error and sets no
\* cookie.  The command may have been executed all the same.
RedisFails(r) ==
    /\ req[r].pc \in {"rate", "check", "issue", "models", "revokeAccess",
                      "revokeRefresh"}
    /\ \/ UNCHANGED <<revokedTill, interrupted>>
       \/ /\ At(r, "revokeRefresh") /\ req[r].refresh # None
          /\ Revoke(req[r].refresh)
          /\ interrupted' = TRUE
    /\ Refuse(r)
    /\ UNCHANGED <<now, sent, issued, attempts, caches, leftover, jar, logins, admitted>>

----------------------------------------------------------------------------
Init ==
    /\ now = 0
    /\ issued = <<>>
    /\ revokedTill = [jti \in Jtis |-> 0]
    /\ attempts = <<>>
    /\ caches = [r \in Requests |-> "none"]
    /\ leftover = {}
    /\ jar = EmptyJar
    /\ req = [r \in Requests |-> NoRequest]
    /\ sent = 0
    /\ logins = {}
    /\ admitted = <<>>
    /\ interrupted = FALSE

Next ==
    \/ Tick
    \/ \E r \in Requests :
         \/ \E op \in Ops : Send(r, op)
         \/ RateCheck(r) \/ (\E accepted \in BOOLEAN : Negotiate(r, accepted))
         \/ GetTicket(r) \/ GetUserInfo(r) \/ LoginIssue(r)
         \/ \E destroyed, removed \in BOOLEAN : DestroyTicket(r, destroyed, removed)
         \/ \E made \in {"both", "cache", "nothing"} : CreateTicketCache(r, made)
         \/ \E ok \in BOOLEAN : \/ DirectoryFails(r, ok)
                                \/ SsoCheck(r, ok) \/ LogoutCheck(r, ok)
                                \/ RefreshCheck(r, ok) \/ SwitchCheck(r, ok)
                                \/ SwitchIssue(r, ok)
         \/ RevokeAccess(r) \/ RevokeRefresh(r)
         \/ Reply(r) \/ LoseReply(r) \/ RedisFails(r)

Spec == Init /\ [][Next]_vars

----------------------------------------------------------------------------
(* Properties. *)

JtiOrNone == Jtis \cup {None}

\* Type invariant: every variable of the session model keeps its type.
TypeOK ==
    /\ now \in 0..MaxTick /\ sent \in 0..MaxSends
    /\ Len(issued) <= MaxTokens
    /\ \A i \in DOMAIN issued :
         issued[i] \in [type : {"access", "refresh"}, exp : Nat, auth_time : Nat]
    /\ revokedTill \in [Jtis -> Nat]
    /\ \A i \in DOMAIN attempts : attempts[i] \in 0..MaxTick
    /\ \A i \in DOMAIN admitted : admitted[i] \in 0..MaxTick
    /\ caches \in [Requests -> {"none", "empty", "ticket"}]
    /\ leftover \subseteq Leftovers
    /\ jar \in [access_token : JtiOrNone, refresh_token : JtiOrNone]
    /\ \A r \in Requests :
         /\ req[r].op \in Ops \cup {None}
         /\ {req[r].access, req[r].refresh, req[r].newAccess, req[r].newRefresh}
               \subseteq JtiOrNone
         /\ req[r].auth_time \in Nat \cup {None}
    /\ logins \subseteq Nat
    /\ interrupted \in BOOLEAN

\* A token that was revoked is refused for the whole of its life but the last
\* second: the key of revoke_token outlives every second in which jwt.decode
\* still accepts the token, except that it may run out within second exp.
RevokedIsRefused ==
    \A jti \in DOMAIN issued :
        /\ revokedTill[jti] > 0
        /\ Decodes(jti)
        /\ ~IsTokenRevoked(jti)
        => Second(now) = issued[jti].exp

\* Concurrent requests of one browser (two tabs that refresh, a model switch
\* during a refresh, an SSO login during a logout) never leave it with a
\* refresh cookie that the server has revoked, unless an answer was lost or
\* the request that revoked it has not answered yet.
RefreshCookieIsLive ==
    LET jti == jar.refresh_token
    IN  (jti # None /\ revokedTill[jti] > 0) =>
            \/ interrupted
            \/ \E r \in Requests : req[r].pc = "reply" /\ req[r].refresh = jti

\* However often a session is refreshed or switched to another model, its
\* auth_time stays that of a login at which the identity was established.
AuthTimeIsALogin ==
    \A i \in DOMAIN issued : issued[i].auth_time \in logins

\* The limiter lets at most MaxLogins logins through to the directory in any
\* interval of Window ticks, whatever attempts it refused in between.
LoginsBounded ==
    \A i \in DOMAIN admitted :
        i > MaxLogins => admitted[i] - admitted[i - MaxLogins] >= Window

\* A ticket cache is on disk only while the lookup that made it goes on, whichever
\* of its commands fails or times out; a file that outlives its lookup holds a
\* ticket only when both kdestroy and the removal of destroy_ticket failed (the
\* file left by a failure before the try is empty).
NoTicketLeft ==
    /\ \A r \in Requests : caches[r] # "none" =>
            req[r].pc \in {"ticket", "ldap", "destroy"}
    /\ \A f \in leftover : f.holds = "ticket" => f.after = "not_removed"
=============================================================================
