--------------------------- MODULE SessionsProofs ---------------------------
(* Invariance proofs for Sessions: tokens, cookies, revocation keys, the    *)
(* login limiter and the ticket caches, for every number of requests in     *)
(* flight, every life time and every clock resolution.                      *)
EXTENDS Sessions, WellFoundedInduction, TLAPS

-----------------------------------------------------------------------------
(* The inductive invariant, part by part.                                   *)

Pcs == {"idle", "rate", "negotiate", "check", "kinit", "ticket", "ldap", "destroy", "issue",
        "models", "revokeAccess", "revokeRefresh", "reply"}

TokenRecord == [type : {"access", "refresh"}, exp : Nat, auth_time : Nat]

RequestRecord == [pc : Pcs, op : Ops \cup {None}, access : JtiOrNone, refresh : JtiOrNone,
                  auth_time : Nat \cup {None}, newAccess : JtiOrNone, newRefresh : JtiOrNone]

CacheStates == {"none", "empty", "ticket"}

\* TypeOK, with the domains of the sequences and of the requests.
Typed ==
    /\ now \in 0..MaxTick /\ sent \in 0..MaxSends
    /\ issued \in Seq(TokenRecord) /\ Len(issued) <= MaxTokens
    /\ revokedTill \in [Jtis -> Nat]
    /\ attempts \in Seq(0..MaxTick) /\ admitted \in Seq(0..MaxTick)
    /\ caches \in [Requests -> CacheStates] /\ leftover \subseteq Leftovers
    /\ jar \in [access_token : JtiOrNone, refresh_token : JtiOrNone]
    /\ req \in [Requests -> RequestRecord]
    /\ logins \subseteq Nat
    /\ interrupted \in BOOLEAN

\* A cookie value is a token of the right type that was minted.
IsA(jti, type) == jti # None => jti \in 1..Len(issued) /\ issued[jti].type = type

\* The cookies of the browser, the ones captured by its requests and the ones in
\* the answers on their way.
TokensKnown ==
    /\ IsA(jar.access_token, "access") /\ IsA(jar.refresh_token, "refresh")
    /\ \A r \in Requests : /\ IsA(req[r].access, "access") /\ IsA(req[r].newAccess, "access")
                           /\ IsA(req[r].refresh, "refresh") /\ IsA(req[r].newRefresh, "refresh")

\* A refresh token that no answer has delivered is in nobody's hands, and so not
\* revoked.
Undelivered ==
    \A r \in Requests : req[r].newRefresh # None =>
        /\ revokedTill[req[r].newRefresh] = 0
        /\ jar.refresh_token # req[r].newRefresh
        /\ \A q \in Requests : /\ req[q].refresh # req[r].newRefresh
                               /\ q # r => req[q].newRefresh # req[r].newRefresh

\* The operations whose handlers revoke the cookies they came with.
Revokers == {"sso", "logout", "refresh"}

\* Which handler is where, and whose auth_time a request carries.
HandlersInOrder ==
    \A r \in Requests :
        /\ req[r].pc \in {"revokeAccess", "revokeRefresh"} => req[r].op \in Revokers
        /\ req[r].pc \in {"kinit", "ticket", "ldap", "destroy"} => req[r].op \in {"login", "sso"}
        /\ req[r].pc = "rate" => req[r].op = "login"
        /\ req[r].pc = "negotiate" => req[r].op = "sso"
        /\ req[r].pc = "issue" => req[r].op = "login" /\ req[r].auth_time # None
        /\ req[r].pc = "models" => req[r].op = "switch" /\ req[r].auth_time # None
        /\ req[r].op \in {"login", "switch"} /\ req[r].auth_time # None
              => req[r].auth_time \in logins

\* RefreshCookieIsLive, where the request that is about to answer is the one
\* that revoked the cookie.
CookieOnItsWay ==
    jar.refresh_token # None /\ revokedTill[jar.refresh_token] > 0 =>
        \/ interrupted
        \/ \E r \in Requests : /\ req[r].pc = "reply" /\ req[r].refresh = jar.refresh_token
                               /\ req[r].op \in Revokers

\* The key of a revoked token lives at least until second exp begins.
KeyOutlivesToken ==
    \A j \in Jtis : revokedTill[j] > 0 =>
        j \in 1..Len(issued) /\ revokedTill[j] >= TicksPerSecond * issued[j].exp

\* The limiter's set is ordered and so is the list of the logins it let through;
\* counted from the end, the k-th login of the window is matched by a score that
\* is at least as late.
Ordered(s) == \A i, j \in 1..Len(s) : i <= j => s[i] <= s[j]
Past(s)    == \A i \in 1..Len(s) : s[i] <= now
WindowCounts ==
    /\ Ordered(attempts) /\ Past(attempts) /\ Ordered(admitted) /\ Past(admitted)
    /\ \A k \in 1..Len(admitted) : InWindow(admitted[k]) =>
          /\ Len(attempts) - (Len(admitted) - k) \in 1..Len(attempts)
          /\ attempts[Len(attempts) - (Len(admitted) - k)] >= admitted[k]

Inv == /\ Typed /\ TokensKnown /\ Undelivered /\ HandlersInOrder /\ AuthTimeIsALogin
       /\ CookieOnItsWay /\ KeyOutlivesToken /\ NoTicketLeft

-----------------------------------------------------------------------------
(* The clock.                                                               *)

\* Whole seconds: Second(t) is the number of seconds that have begun after
\* second 0 by tick t.
LEMMA SecondFacts ==
    ASSUME NEW t \in Nat
    PROVE  /\ Second(t) \in Nat
           /\ TicksPerSecond * Second(t) <= t
           /\ \A e \in Nat : TicksPerSecond * e <= t => e <= Second(t)
<1>1. TicksPerSecond \in Nat \ {0}
  BY SessionsAssumption
<1>2. /\ Second(t) \in Nat /\ TicksPerSecond * Second(t) <= t
      /\ t < TicksPerSecond * (Second(t) + 1)
  BY <1>1 DEF Second
<1>3. ASSUME NEW e \in Nat, TicksPerSecond * e <= t PROVE e <= Second(t)
  <2> SUFFICES ASSUME Second(t) + 1 <= e PROVE FALSE
    BY <1>2
  <2>1. TicksPerSecond * (Second(t) + 1) <= TicksPerSecond * e
    BY <1>1, <1>2
  <2> QED
    BY <1>1, <1>2, <1>3, <2>1
<1> QED
  BY <1>2, <1>3

-----------------------------------------------------------------------------
(* What a step of a handler does to the requests in flight.                 *)

\* The requests other than r are left alone.
OnlyRequest(r) ==
    /\ req' \in [Requests -> RequestRecord]
    /\ \A q \in Requests : q # r => req'[q] = req[q]

\* Request r keeps what it carries.
SameCookies(r) ==
    /\ req'[r].op = req[r].op
    /\ req'[r].access = req[r].access /\ req'[r].refresh = req[r].refresh

\* Request r has gone to a label with nothing else changed.
Moved(r, label) ==
    /\ OnlyRequest(r) /\ SameCookies(r) /\ req'[r].pc = label
    /\ req'[r].auth_time = req[r].auth_time
    /\ req'[r].newAccess = req[r].newAccess /\ req'[r].newRefresh = req[r].newRefresh

Refused(r) == OnlyRequest(r) /\ req'[r] = NoRequest

\* The empty request, field by field.
LEMMA NoRequestFields ==
    /\ NoRequest \in RequestRecord /\ NoRequest.pc = "idle" /\ NoRequest.op = None
    /\ NoRequest.access = None /\ NoRequest.refresh = None /\ NoRequest.auth_time = None
    /\ NoRequest.newAccess = None /\ NoRequest.newRefresh = None
BY DEF NoRequest, RequestRecord, Pcs, JtiOrNone

\* A handler that goes on, or that ends.
LEMMA RequestMoves ==
    ASSUME Typed, NEW r \in Requests
    PROVE  /\ \A l \in Pcs : Goto(r, l) => Moved(r, l)
           /\ Refuse(r) => Refused(r)
<1>1. req \in [Requests -> RequestRecord]
  BY DEF Typed
<1>2. ASSUME NEW l \in Pcs, Goto(r, l) PROVE Moved(r, l)
  <2> DEFINE new == [req[r] EXCEPT !.pc = l]
  <2>1. /\ new \in RequestRecord /\ new.pc = l /\ new.op = req[r].op /\ new.access = req[r].access
        /\ new.refresh = req[r].refresh /\ new.auth_time = req[r].auth_time
        /\ new.newAccess = req[r].newAccess /\ new.newRefresh = req[r].newRefresh
    BY <1>1 DEF RequestRecord
  <2>2. req' = [req EXCEPT ![r] = new]
    BY <1>2 DEF Goto
  <2> HIDE DEF new
  <2>3. req' \in [Requests -> RequestRecord] /\ req'[r] = new /\ \A q \in Requests : q # r => req'[q] = req[q]
    BY <1>1, <2>1, <2>2
  <2> QED
    BY <2>1, <2>3 DEF Moved, OnlyRequest, SameCookies
<1>3. ASSUME Refuse(r) PROVE Refused(r)
  BY <1>1, <1>3, NoRequestFields DEF Refuse, Refused, OnlyRequest
<1> QED
  BY <1>2, <1>3

\* The handler of request r has minted a pair of tokens with the given auth_time.
Minted(r, auth) ==
    /\ issued' \in Seq(TokenRecord) /\ Len(issued') = Len(issued) + 2 /\ Len(issued') <= MaxTokens
    /\ \A i \in 1..Len(issued) : issued'[i] = issued[i]
    /\ issued'[Len(issued) + 1].type = "access" /\ issued'[Len(issued) + 2].type = "refresh"
    /\ issued'[Len(issued) + 1].auth_time = auth /\ issued'[Len(issued) + 2].auth_time = auth
    /\ OnlyRequest(r) /\ SameCookies(r) /\ req'[r].auth_time = req[r].auth_time
    /\ req'[r].newAccess = Len(issued) + 1 /\ req'[r].newRefresh = Len(issued) + 2
    /\ \/ req[r].op = "sso" /\ req'[r].pc = "revokeAccess"
       \/ req[r].op = "refresh" /\ req'[r].pc = "revokeRefresh"
       \/ req'[r].pc = "reply"

\* MintPair mints an access and a refresh token of the same auth_time.
LEMMA MintPairMints ==
    ASSUME Typed, NEW r \in Requests, NEW known \in Nat \cup {None}, MintPair(r, known)
    PROVE  AuthTime(known) \in Nat /\ Minted(r, AuthTime(known))
<1> DEFINE auth == AuthTime(known)
           n == Len(issued)
           a == Token("access", AccessTtl, auth)
           b == Token("refresh", RefreshTtl, auth)
           l == CASE req[r].op = "sso"     -> "revokeAccess"
                  [] req[r].op = "refresh" -> "revokeRefresh"
                  [] OTHER                 -> "reply"
<1>1. req \in [Requests -> RequestRecord] /\ issued \in Seq(TokenRecord) /\ n \in Nat /\ now \in Nat
  BY DEF Typed
<1>2. Second(now) \in Nat /\ AccessTtl \in Nat /\ RefreshTtl \in Nat
  BY <1>1, SecondFacts, SessionsAssumption
<1>3. auth \in Nat
  BY <1>2 DEF AuthTime
<1>4. /\ n + 2 <= MaxTokens /\ issued' = issued \o <<a, b>>
      /\ req' = [req EXCEPT ![r].newAccess = n + 1, ![r].newRefresh = n + 2, ![r].pc = l]
  BY DEF MintPair
<1>5. /\ l \in Pcs
      /\ \/ req[r].op = "sso" /\ l = "revokeAccess"
         \/ req[r].op = "refresh" /\ l = "revokeRefresh"
         \/ l = "reply"
  BY DEF Pcs
<1> HIDE DEF auth
<1>6. /\ a \in TokenRecord /\ b \in TokenRecord /\ a.type = "access" /\ b.type = "refresh"
      /\ a.auth_time = auth /\ b.auth_time = auth
  BY <1>2, <1>3 DEF Token, TokenRecord
<1> HIDE DEF a, b, l
<1>7. /\ issued' \in Seq(TokenRecord) /\ Len(issued') = n + 2
      /\ \A i \in 1..n : issued'[i] = issued[i]
      /\ issued'[n + 1] = a /\ issued'[n + 2] = b
  <2>1. <<a, b>> \in Seq(TokenRecord) /\ Len(<<a, b>>) = 2 /\ <<a, b>>[1] = a /\ <<a, b>>[2] = b
    BY <1>6
  <2> QED
    BY <1>1, <1>4, <2>1
<1>8. n + 1 \in JtiOrNone /\ n + 2 \in JtiOrNone
  BY <1>1, <1>4, SessionsAssumption DEF JtiOrNone, Jtis
<1>9. OnlyRequest(r) /\ SameCookies(r) /\ req'[r].auth_time = req[r].auth_time
      /\ req'[r].newAccess = n + 1 /\ req'[r].newRefresh = n + 2 /\ req'[r].pc = l
  <2> DEFINE new == [req[r] EXCEPT !.newAccess = n + 1, !.newRefresh = n + 2, !.pc = l]
  <2>1. /\ new \in RequestRecord /\ new.pc = l /\ new.op = req[r].op /\ new.access = req[r].access
        /\ new.refresh = req[r].refresh /\ new.auth_time = req[r].auth_time
        /\ new.newAccess = n + 1 /\ new.newRefresh = n + 2
    BY <1>1, <1>5, <1>8 DEF RequestRecord
  <2>2. req' = [req EXCEPT ![r] = new]
    BY <1>1, <1>4 DEF RequestRecord
  <2> HIDE DEF new, n
  <2>3. req' \in [Requests -> RequestRecord] /\ req'[r] = new /\ \A q \in Requests : q # r => req'[q] = req[q]
    BY <1>1, <2>1, <2>2
  <2> QED
    BY <2>1, <2>3 DEF OnlyRequest, SameCookies
<1> QED
  BY <1>3, <1>4, <1>5, <1>6, <1>7, <1>9 DEF Minted, auth

\* A request captures the cookies of the browser when it is sent.
LEMMA SendCaptures ==
    ASSUME Typed, NEW r \in Requests, NEW op \in Ops, Send(r, op)
    PROVE  /\ OnlyRequest(r) /\ req'[r].op = op
           /\ req'[r].access = jar.access_token /\ req'[r].refresh = jar.refresh_token
           /\ req'[r].auth_time = None /\ req'[r].newAccess = None /\ req'[r].newRefresh = None
           /\ \/ req'[r].pc = "rate" /\ op = "login"
              \/ req'[r].pc = "negotiate" /\ op = "sso"
              \/ req'[r].pc = "check"
<1> DEFINE l == CASE op = "login" -> "rate" [] op = "sso" -> "negotiate" [] OTHER -> "check"
           new == [NoRequest EXCEPT !.pc = l, !.op = op, !.access = jar.access_token,
                                    !.refresh = jar.refresh_token]
<1>1. req' = [req EXCEPT ![r] = new]
  BY DEF Send
<1>2. /\ l \in Pcs
      /\ (l = "rate" /\ op = "login") \/ (l = "negotiate" /\ op = "sso") \/ l = "check"
  BY DEF Pcs
<1> HIDE DEF l
<1>3. /\ new \in RequestRecord /\ new.pc = l /\ new.op = op /\ new.access = jar.access_token
      /\ new.refresh = jar.refresh_token /\ new.auth_time = None
      /\ new.newAccess = None /\ new.newRefresh = None
  <2>1. jar.access_token \in JtiOrNone /\ jar.refresh_token \in JtiOrNone
    BY DEF Typed
  <2> QED
    BY <1>2, <2>1 DEF NoRequest, RequestRecord, JtiOrNone
<1> HIDE DEF new
<1>4. req' \in [Requests -> RequestRecord] /\ req'[r] = new /\ \A q \in Requests : q # r => req'[q] = req[q]
  BY <1>1, <1>3 DEF Typed
<1> QED
  BY <1>2, <1>3, <1>4 DEF OnlyRequest

\* A request that learns an auth_time, from the directory or from its token.
LEMMA LearnsAuthTime ==
    ASSUME Typed, NEW r \in Requests, NEW l \in Pcs, NEW t \in Nat,
           req' = [req EXCEPT ![r].pc = l, ![r].auth_time = t]
    PROVE  /\ OnlyRequest(r) /\ SameCookies(r) /\ req'[r].pc = l /\ req'[r].auth_time = t
           /\ req'[r].newAccess = req[r].newAccess /\ req'[r].newRefresh = req[r].newRefresh
<1> DEFINE new == [req[r] EXCEPT !.pc = l, !.auth_time = t]
<1>1. req \in [Requests -> RequestRecord]
  BY DEF Typed
<1>2. /\ new \in RequestRecord /\ new.pc = l /\ new.op = req[r].op /\ new.access = req[r].access
      /\ new.refresh = req[r].refresh /\ new.auth_time = t
      /\ new.newAccess = req[r].newAccess /\ new.newRefresh = req[r].newRefresh
  BY <1>1 DEF RequestRecord
<1>3. req' = [req EXCEPT ![r] = new]
  BY <1>1 DEF RequestRecord
<1> HIDE DEF new
<1>4. req' \in [Requests -> RequestRecord] /\ req'[r] = new /\ \A q \in Requests : q # r => req'[q] = req[q]
  BY <1>1, <1>2, <1>3
<1> QED
  BY <1>2, <1>4 DEF OnlyRequest, SameCookies

\* The handlers' labels.
LEMMA PcNames ==
    {"idle", "rate", "negotiate", "check", "kinit", "ticket", "ldap", "destroy", "issue", "models",
     "revokeAccess", "revokeRefresh", "reply"} \subseteq Pcs
BY DEF Pcs

-----------------------------------------------------------------------------
(* The kinds of step a request takes, as far as tokens, cookies, revocation *)
(* keys and identities are concerned.                                       *)

\* A handler goes on to an await that needs no token of its own.
Walks(r) ==
    /\ UNCHANGED <<issued, revokedTill, jar, logins, interrupted>>
    /\ req[r].pc # "reply"
    /\ \E l \in {"check", "kinit", "ticket", "ldap", "destroy", "issue", "revokeAccess"} :
          /\ Moved(r, l)
          /\ l \in {"kinit", "ticket", "ldap", "destroy"} => req[r].op \in {"login", "sso"}
          /\ l = "issue" => req[r].op = "login" /\ req[r].auth_time # None
          /\ l = "revokeAccess" => req[r].op \in Revokers

\* A handler learns the auth_time it will mint with.
Learns(r) ==
    /\ UNCHANGED <<issued, revokedTill, jar, interrupted>>
    /\ logins \subseteq logins' /\ logins' \subseteq Nat
    /\ OnlyRequest(r) /\ SameCookies(r)
    /\ req'[r].newAccess = req[r].newAccess /\ req'[r].newRefresh = req[r].newRefresh
    /\ req'[r].auth_time \in Nat
    /\ req[r].op \in {"login", "switch"} => req'[r].auth_time \in logins'
    /\ req[r].pc # "reply"
    /\ \/ req'[r].pc = "destroy" /\ req[r].op \in {"login", "sso"}
       \/ req'[r].pc = "models" /\ req[r].op = "switch"

\* A handler mints tokens for an identity that was established.
Mints(r) ==
    /\ UNCHANGED <<revokedTill, jar, interrupted>>
    /\ logins \subseteq logins' /\ logins' \subseteq Nat
    /\ \E auth \in logins' : Minted(r, auth)
    /\ req[r].pc # "reply"

\* A handler ends without an answer that sets cookies.
GivesUp(r) ==
    /\ UNCHANGED <<issued, revokedTill, jar, logins>>
    /\ Refused(r)
    /\ interrupted' \in BOOLEAN /\ (interrupted => interrupted')
    /\ req[r].pc = "reply" /\ req[r].op \in Revokers => interrupted'

\* A handler revokes a cookie it came with.
Revokes(r) ==
    /\ UNCHANGED <<issued, jar, logins>>
    /\ req[r].pc # "reply" /\ req[r].op \in Revokers
    /\ interrupted' \in BOOLEAN /\ (interrupted => interrupted')
    /\ \/ Revoke(req[r].access) /\ Moved(r, "revokeRefresh")
       \/ Revoke(req[r].refresh) /\ Moved(r, "reply")
       \/ Revoke(req[r].refresh) /\ Refused(r) /\ interrupted'

\* Every step of the program, as one of these.
Kinds(r) ==
    \/ \E op \in Ops : Send(r, op)
    \/ Walks(r) \/ Learns(r) \/ Mints(r) \/ GivesUp(r) \/ Revokes(r) \/ Reply(r)

\* An auth_time that a token carries is a second at which somebody logged in.
LEMMA TokenAuthTime ==
    ASSUME Inv, NEW jti \in 1..Len(issued)
    PROVE  issued[jti].auth_time \in logins /\ issued[jti].auth_time \in Nat /\ AuthTime(issued[jti].auth_time) \in logins
<1>1. issued[jti] \in TokenRecord /\ jti \in DOMAIN issued
  BY DEF Inv, Typed
<1>2. issued[jti].auth_time \in Nat
  BY <1>1 DEF TokenRecord
<1>3. issued[jti].auth_time \in logins
  BY <1>1 DEF Inv, AuthTimeIsALogin
<1> QED
  BY <1>2, <1>3, SessionsAssumption DEF AuthTime

\* A step of request r: every disjunct of Next but the clock's.
HandlerStep(r) ==
    \/ \E op \in Ops : Send(r, op)
    \/ RateCheck(r) \/ (\E accepted \in BOOLEAN : Negotiate(r, accepted))
    \/ GetTicket(r) \/ GetUserInfo(r) \/ LoginIssue(r)
    \/ \E destroyed, removed \in BOOLEAN : DestroyTicket(r, destroyed, removed)
    \/ \E made \in {"both", "cache", "nothing"} : CreateTicketCache(r, made)
    \/ \E ok \in BOOLEAN : \/ DirectoryFails(r, ok)
                           \/ SsoCheck(r, ok) \/ LogoutCheck(r, ok)
                           \/ RefreshCheck(r, ok) \/ SwitchCheck(r, ok)
                           \/ SwitchIssue(r, ok)
    \/ RevokeAccess(r) \/ RevokeRefresh(r)
    \/ Reply(r) \/ LoseReply(r) \/ RedisFails(r)

\* Every step of a request is of one of these kinds.
LEMMA RequestKinds == ASSUME Inv, NEW req0 \in Requests, HandlerStep(req0) PROVE Kinds(req0)
<1>0. Typed
  BY DEF Inv
<1>1. now \in Nat /\ Second(now) \in Nat
  BY <1>0, SecondFacts DEF Typed
<1>2. interrupted \in BOOLEAN /\ logins \subseteq Nat
  BY <1>0 DEF Typed
<1> USE <1>0, <1>2, RequestMoves, PcNames
<1>4. ASSUME NEW r \in Requests, RateCheck(r) PROVE Kinds(r)
  <2>1. req[r].pc = "rate" /\ req[r].op = "login"
    BY <1>4 DEF RateCheck, At, Inv, HandlersInOrder
  <2>2. CASE Refuse(r)
    BY <1>4, <2>1, <2>2 DEF RateCheck, Kinds, GivesUp
  <2>3. CASE Goto(r, "kinit")
    BY <1>4, <2>1, <2>3 DEF RateCheck, Kinds, Walks
  <2> QED
    BY <1>4, <2>2, <2>3 DEF RateCheck
<1>5. ASSUME NEW r \in Requests, NEW accepted \in BOOLEAN, Negotiate(r, accepted) PROVE Kinds(r)
  <2>1. req[r].pc = "negotiate" /\ req[r].op = "sso"
    BY <1>5 DEF Negotiate, At, Inv, HandlersInOrder
  <2>2. CASE Refuse(r)
    BY <1>5, <2>1, <2>2 DEF Negotiate, Kinds, GivesUp
  <2>3. CASE Goto(r, "kinit")
    BY <1>5, <2>1, <2>3 DEF Negotiate, Kinds, Walks
  <2> QED
    BY <1>5, <2>2, <2>3 DEF Negotiate
<1>6. ASSUME NEW r \in Requests, GetTicket(r) \/ \E ok \in BOOLEAN : DirectoryFails(r, ok)
      PROVE  Kinds(r)
  <2>1. req[r].pc \in {"kinit", "ticket", "ldap", "destroy"} /\ req[r].op \in {"login", "sso"}
    BY <1>6 DEF GetTicket, DirectoryFails, At, Inv, HandlersInOrder
  <2> QED
    BY <1>6, <2>1 DEF GetTicket, DirectoryFails, Kinds, Walks
<1>6a. ASSUME NEW r \in Requests, NEW made, CreateTicketCache(r, made) PROVE Kinds(r)
  <2>1. req[r].pc = "kinit" /\ req[r].op \in {"login", "sso"}
    BY <1>6a DEF CreateTicketCache, At, Inv, HandlersInOrder
  <2>2. CASE Refuse(r)
    BY <1>6a, <2>1, <2>2 DEF CreateTicketCache, Kinds, GivesUp
  <2>3. CASE Goto(r, "ticket")
    BY <1>6a, <2>1, <2>3 DEF CreateTicketCache, Kinds, Walks
  <2> QED
    BY <1>6a, <2>2, <2>3 DEF CreateTicketCache
<1>7. ASSUME NEW r \in Requests, GetUserInfo(r) PROVE Kinds(r)
  <2>1. req[r].pc = "ldap" /\ req[r].op \in {"login", "sso"}
    BY <1>7 DEF GetUserInfo, At, Inv, HandlersInOrder
  <2>2. /\ OnlyRequest(r) /\ SameCookies(r) /\ req'[r].pc = "destroy" /\ req'[r].auth_time = Second(now)
        /\ req'[r].newAccess = req[r].newAccess /\ req'[r].newRefresh = req[r].newRefresh
    BY <1>1, <1>7, LearnsAuthTime DEF GetUserInfo
  <2>3. /\ UNCHANGED <<issued, revokedTill, jar, interrupted>>
        /\ logins' = IF req[r].op = "login" THEN logins \cup {Second(now)} ELSE logins
    BY <1>7 DEF GetUserInfo
  <2> QED
    BY <1>1, <2>1, <2>2, <2>3 DEF Kinds, Learns
<1>8. ASSUME NEW r \in Requests, NEW destroyed, NEW removed, DestroyTicket(r, destroyed, removed)
      PROVE  Kinds(r)
  <2>1. req[r].pc = "destroy" /\ req[r].op \in {"login", "sso"}
    BY <1>8 DEF DestroyTicket, At, Inv, HandlersInOrder
  <2>2. CASE req[r].op = "sso"
    BY <1>8, <2>1, <2>2 DEF DestroyTicket, AfterLookup, Kinds, Walks
  <2>3. CASE req[r].op = "login" /\ req[r].auth_time = None
    BY <1>8, <2>1, <2>3 DEF DestroyTicket, AfterLookup, Kinds, GivesUp
  <2>4. CASE req[r].op = "login" /\ req[r].auth_time # None
    BY <1>8, <2>1, <2>4 DEF DestroyTicket, AfterLookup, Kinds, Walks
  <2> QED
    BY <2>1, <2>2, <2>3, <2>4
<1>9. ASSUME NEW r \in Requests, req[r].auth_time \in logins, req[r].pc # "reply",
             MintPair(r, req[r].auth_time), UNCHANGED <<revokedTill, jar, interrupted, logins>>
      PROVE  Kinds(r)
  <2>1. req[r].auth_time \in Nat /\ AuthTime(req[r].auth_time) \in logins
    BY <1>9, SessionsAssumption DEF AuthTime
  <2> QED
    BY <1>9, <2>1, MintPairMints DEF Kinds, Mints
<1>10. ASSUME NEW r \in Requests, LoginIssue(r) PROVE Kinds(r)
  <2>1. req[r].pc = "issue" /\ req[r].auth_time \in logins
    BY <1>10 DEF LoginIssue, At, Inv, HandlersInOrder
  <2> QED
    BY <1>9, <1>10, <2>1 DEF LoginIssue
<1>11. ASSUME NEW r \in Requests, NEW ok \in BOOLEAN, SsoCheck(r, ok) PROVE Kinds(r)
  <2>1. CASE ok
    <3>1. MintPair(r, None) /\ logins' = logins \cup {Second(now)} /\ AuthTime(None) = Second(now)
      BY <1>11, <2>1 DEF SsoCheck, AuthTime
    <3> QED
      BY <1>1, <1>11, <3>1, MintPairMints DEF SsoCheck, At, Kinds, Mints
  <2>2. CASE ~ok
    BY <1>11, <2>2 DEF SsoCheck, At, Kinds, GivesUp
  <2> QED
    BY <2>1, <2>2
<1>12. ASSUME NEW r \in Requests, NEW ok \in BOOLEAN, LogoutCheck(r, ok) PROVE Kinds(r)
  <2>1. CASE Refuse(r)
    BY <1>12, <2>1 DEF LogoutCheck, At, Kinds, GivesUp
  <2>2. CASE Goto(r, "revokeAccess")
    BY <1>12, <2>2 DEF LogoutCheck, At, Kinds, Walks, Revokers
  <2> QED
    BY <1>12, <2>1, <2>2 DEF LogoutCheck
<1>13. ASSUME NEW r \in Requests, NEW ok \in BOOLEAN, RefreshCheck(r, ok) PROVE Kinds(r)
  <2> DEFINE jti == req[r].refresh
  <2>1. CASE Refuse(r) /\ UNCHANGED issued
    BY <1>13, <2>1 DEF RefreshCheck, At, Kinds, GivesUp
  <2>2. CASE Decodes(jti) /\ MintPair(r, issued[jti].auth_time)
    <3>1. jti \in 1..Len(issued)
      BY <2>2 DEF Decodes, Inv, TokensKnown, IsA
    <3> QED
      BY <1>13, <2>2, <3>1, TokenAuthTime, MintPairMints DEF RefreshCheck, At, Kinds, Mints
  <2> QED
    BY <1>13, <2>1, <2>2 DEF RefreshCheck
<1>14. ASSUME NEW r \in Requests, NEW ok \in BOOLEAN, SwitchCheck(r, ok) PROVE Kinds(r)
  <2> DEFINE t == issued[req[r].access].auth_time
  <2>1. CASE Refuse(r)
    BY <1>14, <2>1 DEF SwitchCheck, At, Kinds, GivesUp
  <2>2. CASE CurrentUser(req[r].access) /\ req' = [req EXCEPT ![r].pc = "models", ![r].auth_time = t]
    <3>1. req[r].access \in 1..Len(issued)
      BY <2>2 DEF CurrentUser, Decodes, Inv, TokensKnown, IsA
    <3>2. t \in logins /\ t \in Nat
      BY <3>1, TokenAuthTime
    <3>3. /\ OnlyRequest(r) /\ SameCookies(r) /\ req'[r].pc = "models" /\ req'[r].auth_time = t
          /\ req'[r].newAccess = req[r].newAccess /\ req'[r].newRefresh = req[r].newRefresh
      BY <2>2, <3>2, LearnsAuthTime
    <3> QED
      BY <1>14, <3>2, <3>3 DEF SwitchCheck, At, Kinds, Learns
  <2> QED
    BY <1>14, <2>1, <2>2 DEF SwitchCheck
<1>15. ASSUME NEW r \in Requests, NEW ok \in BOOLEAN, SwitchIssue(r, ok) PROVE Kinds(r)
  <2>1. req[r].pc = "models" /\ req[r].auth_time \in logins
    BY <1>15 DEF SwitchIssue, At, Inv, HandlersInOrder
  <2>2. CASE ok
    BY <1>9, <1>15, <2>1, <2>2 DEF SwitchIssue
  <2>3. CASE ~ok
    BY <1>15, <2>1, <2>3 DEF SwitchIssue, Kinds, GivesUp
  <2> QED
    BY <2>2, <2>3
<1>16. ASSUME NEW r \in Requests, RevokeAccess(r) \/ RevokeRefresh(r) PROVE Kinds(r)
  <2>1. req[r].pc \in {"revokeAccess", "revokeRefresh"} /\ req[r].op \in Revokers
    BY <1>16 DEF RevokeAccess, RevokeRefresh, At, Inv, HandlersInOrder
  <2> QED
    BY <1>16, <2>1 DEF RevokeAccess, RevokeRefresh, Kinds, Revokes
<1>17. ASSUME NEW r \in Requests, LoseReply(r) PROVE Kinds(r)
  BY <1>17 DEF LoseReply, Kinds, GivesUp, Revokers
<1>18. ASSUME NEW r \in Requests, RedisFails(r) PROVE Kinds(r)
  <2>1. req[r].pc # "reply" /\ Refused(r) /\ UNCHANGED <<issued, jar, logins>>
    BY <1>18 DEF RedisFails
  <2>2. CASE UNCHANGED <<revokedTill, interrupted>>
    BY <2>1, <2>2 DEF Kinds, GivesUp
  <2>3. CASE At(r, "revokeRefresh") /\ Revoke(req[r].refresh) /\ interrupted' = TRUE
    <3>1. req[r].op \in Revokers
      BY <2>3 DEF At, Inv, HandlersInOrder
    <3> QED
      BY <2>1, <2>3, <3>1 DEF Kinds, Revokes
  <2> QED
    BY <1>18, <2>2, <2>3 DEF RedisFails
<1> QED
  <2>1. ASSUME NEW r \in Requests, (\E op \in Ops : Send(r, op)) \/ Reply(r) PROVE Kinds(r)
    BY <2>1 DEF Kinds
  <2> QED
    BY <1>4, <1>5, <1>6, <1>6a, <1>7, <1>8, <1>10, <1>11, <1>12, <1>13, <1>14, <1>15, <1>16, <1>17, <1>18,
       <2>1 DEF HandlerStep

\* Every step of the program is the clock's or of one of these kinds.
LEMMA StepKinds ==
    ASSUME Inv, [Next]_vars
    PROVE  \/ UNCHANGED <<issued, revokedTill, jar, req, logins, interrupted>>
           \/ \E r \in Requests : Kinds(r)
<1>1. CASE Tick \/ UNCHANGED vars
  BY <1>1 DEF Tick, vars
<1>2. CASE \E r \in Requests : HandlerStep(r)
  BY <1>2, RequestKinds
<1> QED
  BY <1>1, <1>2 DEF Next, HandlerStep

-----------------------------------------------------------------------------
(* Tokens, cookies and revocation keys.                                     *)

\* revoke_token sets one key, which lives at least until second exp of the token
\* begins, however little of its life the token has left.
LEMMA RevokeSets ==
    ASSUME Typed, NEW jti, jti # None => jti \in 1..Len(issued), Revoke(jti)
    PROVE  /\ revokedTill' \in [Jtis -> Nat]
           /\ \A j \in Jtis : j # jti => revokedTill'[j] = revokedTill[j]
           /\ jti # None => /\ jti \in Jtis
                            /\ revokedTill'[jti] >= TicksPerSecond * issued[jti].exp
<1>1. CASE jti = None
  BY <1>1 DEF Revoke, Typed
<1>2. CASE jti # None
  <2> DEFINE T == TicksPerSecond
             e == issued[jti].exp
             s == Second(now)
             left == e - s
             m == IF left > 1 THEN left ELSE 1
  <2>1. jti \in 1..Len(issued) /\ jti \in Jtis
    <3>1. jti \in 1..Len(issued) /\ Len(issued) <= MaxTokens /\ Len(issued) \in Nat /\ MaxTokens \in Nat
      BY <1>2, SessionsAssumption DEF Typed
    <3> QED
      BY <3>1 DEF Jtis
  <2>2. e \in Nat /\ now \in Nat /\ T \in Nat \ {0}
    <3>1. issued \in Seq(TokenRecord) /\ now \in Nat
      BY DEF Typed
    <3>2. issued[jti] \in TokenRecord
      BY <2>1, <3>1
    <3>3. e \in Nat
      BY <3>2 DEF TokenRecord
    <3> QED
      BY <3>1, <3>3, SessionsAssumption
  <2>3. s \in Nat /\ T * s <= now
    BY <2>2, SecondFacts
  <2>4. revokedTill' = [revokedTill EXCEPT ![jti] = now + T * m]
    BY <1>2 DEF Revoke, RevokedTill
  <2> HIDE DEF e, s, T
  <2>5. m \in Nat /\ m >= e - s
    BY <2>2, <2>3
  <2> HIDE DEF m
  <2>6. T * e <= now + T * m
    <3>1. e <= s + m
      BY <2>2, <2>3, <2>5
    <3>2. T * e <= T * (s + m) /\ T * (s + m) = T * s + T * m
      BY <2>2, <2>3, <2>5, <3>1
    <3>3. T * e \in Nat /\ T * m \in Nat /\ T * s \in Nat
      BY <2>2, <2>3, <2>5
    <3> QED
      BY <2>2, <2>3, <3>2, <3>3
  <2>7. now + T * m \in Nat
    BY <2>2, <2>5
  <2> DEFINE k == now + T * m
  <2> HIDE DEF k
  <2>8. revokedTill \in [Jtis -> Nat] /\ revokedTill' = [revokedTill EXCEPT ![jti] = k] /\ k \in Nat
    BY <2>4, <2>7 DEF Typed, k
  <2>9. revokedTill'[jti] = k
    BY <2>1, <2>8
  <2> QED
    BY <2>1, <2>6, <2>8, <2>9 DEF k, T, e
<1> QED
  BY <1>1, <1>2

\* The cookies a request came with are known tokens.
LEMMA CookiesKnown ==
    ASSUME Inv, NEW r \in Requests
    PROVE  /\ req[r].access # None => req[r].access \in 1..Len(issued)
           /\ req[r].refresh # None => req[r].refresh \in 1..Len(issued)
BY DEF Inv, TokensKnown, IsA

\* Tokens, keys, cookies and requests keep their types.
LEMMA TokensTyped ==
    ASSUME Inv, [Next]_vars
    PROVE  /\ issued' \in Seq(TokenRecord) /\ Len(issued') <= MaxTokens
           /\ revokedTill' \in [Jtis -> Nat]
           /\ jar' \in [access_token : JtiOrNone, refresh_token : JtiOrNone]
           /\ req' \in [Requests -> RequestRecord]
           /\ logins' \subseteq Nat /\ interrupted' \in BOOLEAN
<1>0. Typed
  BY DEF Inv
<1>1. CASE UNCHANGED <<issued, revokedTill, jar, req, logins, interrupted>>
  BY <1>0, <1>1 DEF Typed
<1>2. ASSUME NEW r \in Requests, NEW op \in Ops, Send(r, op)
      PROVE  /\ UNCHANGED <<issued, revokedTill, jar, logins, interrupted>>
             /\ req' \in [Requests -> RequestRecord]
  BY <1>0, <1>2, SendCaptures DEF Send, OnlyRequest
<1>3. ASSUME NEW r \in Requests, Revokes(r)
      PROVE  revokedTill' \in [Jtis -> Nat] /\ req' \in [Requests -> RequestRecord]
  BY <1>0, <1>3, CookiesKnown, RevokeSets DEF Revokes, Moved, Refused, OnlyRequest
<1>4. ASSUME NEW r \in Requests, Reply(r)
      PROVE  /\ jar' \in [access_token : JtiOrNone, refresh_token : JtiOrNone]
             /\ req' \in [Requests -> RequestRecord]
             /\ UNCHANGED <<issued, revokedTill, logins, interrupted>>
  <2>1. req' \in [Requests -> RequestRecord]
    BY <1>0, <1>4, RequestMoves DEF Reply, Refused, OnlyRequest
  <2>2. req[r].newAccess \in JtiOrNone /\ req[r].newRefresh \in JtiOrNone /\ None \in JtiOrNone
    BY <1>0 DEF Typed, RequestRecord, JtiOrNone
  <2> QED
    BY <1>4, <2>1, <2>2 DEF Reply, EmptyJar
<1>5. ASSUME NEW r \in Requests, Walks(r) \/ Learns(r) \/ Mints(r) \/ GivesUp(r)
      PROVE  /\ req' \in [Requests -> RequestRecord]
             /\ issued' \in Seq(TokenRecord) /\ Len(issued') <= MaxTokens
             /\ UNCHANGED <<revokedTill, jar>>
             /\ logins' \subseteq Nat /\ interrupted' \in BOOLEAN
  <2>1. /\ issued \in Seq(TokenRecord) /\ Len(issued) <= MaxTokens
        /\ logins \subseteq Nat /\ interrupted \in BOOLEAN
    BY <1>0 DEF Typed
  <2>2. CASE Walks(r)
    BY <2>1, <2>2 DEF Walks, Moved, OnlyRequest
  <2>3. CASE Learns(r)
    BY <2>1, <2>3 DEF Learns, OnlyRequest
  <2>4. CASE Mints(r)
    BY <2>1, <2>4 DEF Mints, Minted, OnlyRequest
  <2>5. CASE GivesUp(r)
    BY <2>1, <2>5 DEF GivesUp, Refused, OnlyRequest
  <2> QED
    BY <1>5, <2>2, <2>3, <2>4, <2>5
<1>6. ASSUME NEW r \in Requests, Kinds(r)
      PROVE  /\ issued' \in Seq(TokenRecord) /\ Len(issued') <= MaxTokens
             /\ revokedTill' \in [Jtis -> Nat]
             /\ jar' \in [access_token : JtiOrNone, refresh_token : JtiOrNone]
             /\ req' \in [Requests -> RequestRecord]
             /\ logins' \subseteq Nat /\ interrupted' \in BOOLEAN
  <2>1. /\ issued \in Seq(TokenRecord) /\ Len(issued) <= MaxTokens
        /\ revokedTill \in [Jtis -> Nat]
        /\ jar \in [access_token : JtiOrNone, refresh_token : JtiOrNone]
        /\ logins \subseteq Nat /\ interrupted \in BOOLEAN
    BY <1>0 DEF Typed
  <2>2. CASE Revokes(r)
    <3>1. UNCHANGED <<issued, jar, logins>> /\ interrupted' \in BOOLEAN
      BY <2>2 DEF Revokes
    <3> QED
      BY <1>3, <2>1, <2>2, <3>1
  <2> QED
    BY <1>2, <1>4, <1>5, <1>6, <2>1, <2>2 DEF Kinds
<1> QED
  BY <1>1, <1>6, StepKinds

\* A known token stays known: tokens are only ever appended.
LEMMA IsAStays ==
    ASSUME Typed, Len(issued') >= Len(issued), Len(issued') \in Nat,
           \A i \in 1..Len(issued) : issued'[i] = issued[i],
           NEW jti, NEW type, IsA(jti, type)
    PROVE  jti # None => jti \in 1..Len(issued') /\ issued'[jti].type = type
BY DEF IsA, Typed

\* Every cookie in the browser, in a request or in an answer is a known token of
\* its type.
LEMMA TokensStep == ASSUME Inv, [Next]_vars PROVE TokensKnown'
<1>0. Typed /\ TokensKnown /\ issued' \in Seq(TokenRecord)
  BY TokensTyped DEF Inv
<1> DEFINE Known(j, type) == j # None => j \in 1..Len(issued') /\ issued'[j].type = type
<1>g. ASSUME Len(issued') >= Len(issued), \A i \in 1..Len(issued) : issued'[i] = issued[i]
      PROVE  \A j, type : IsA(j, type) => Known(j, type)
  BY <1>0, <1>g, IsAStays
<1>1. SUFFICES /\ Known(jar'.access_token, "access") /\ Known(jar'.refresh_token, "refresh")
               /\ \A q \in Requests : /\ Known(req'[q].access, "access")
                                      /\ Known(req'[q].newAccess, "access")
                                      /\ Known(req'[q].refresh, "refresh")
                                      /\ Known(req'[q].newRefresh, "refresh")
  BY DEF TokensKnown, IsA
<1> HIDE DEF Known
<1>2. /\ IsA(jar.access_token, "access") /\ IsA(jar.refresh_token, "refresh")
      /\ \A q \in Requests : /\ IsA(req[q].access, "access") /\ IsA(req[q].newAccess, "access")
                             /\ IsA(req[q].refresh, "refresh") /\ IsA(req[q].newRefresh, "refresh")
  BY <1>0 DEF TokensKnown
<1>3. \A type : Known(None, type) /\ IsA(None, type)
  BY DEF Known, IsA
<1>4. issued' = issued \/ \E r \in Requests : Mints(r)
  BY StepKinds DEF Kinds, Send, Walks, Learns, GivesUp, Revokes, Reply
<1>5. \A j, type : IsA(j, type) => Known(j, type)
  <2>1. CASE issued' = issued
    BY <1>0, <1>g, <2>1
  <2>2. CASE \E r \in Requests : Mints(r)
    BY <1>0, <1>g, <2>2 DEF Mints, Minted
  <2> QED
    BY <1>4, <2>1, <2>2
<1>6. CASE UNCHANGED <<issued, revokedTill, jar, req, logins, interrupted>>
  BY <1>2, <1>5, <1>6
<1>7. ASSUME NEW r \in Requests, Kinds(r)
      PROVE  /\ Known(jar'.access_token, "access") /\ Known(jar'.refresh_token, "refresh")
             /\ \A q \in Requests : /\ Known(req'[q].access, "access")
                                    /\ Known(req'[q].newAccess, "access")
                                    /\ Known(req'[q].refresh, "refresh")
                                    /\ Known(req'[q].newRefresh, "refresh")
  <2>1. CASE \E op \in Ops : Send(r, op)
    <3>1. jar' = jar /\ OnlyRequest(r) /\ req'[r].access = jar.access_token
          /\ req'[r].refresh = jar.refresh_token /\ req'[r].newAccess = None /\ req'[r].newRefresh = None
      BY <1>0, <2>1, SendCaptures DEF Send
    <3> QED
      BY <1>2, <1>3, <1>5, <3>1 DEF OnlyRequest
  <2>2. CASE Walks(r) \/ Learns(r)
    BY <1>2, <1>5, <2>2 DEF Walks, Learns, Moved, OnlyRequest, SameCookies
  <2>3. CASE Mints(r)
    <3>1. /\ jar' = jar /\ OnlyRequest(r) /\ SameCookies(r)
          /\ req'[r].newAccess = Len(issued) + 1 /\ req'[r].newRefresh = Len(issued) + 2
          /\ Len(issued') = Len(issued) + 2 /\ Len(issued) \in Nat
          /\ issued'[Len(issued) + 1].type = "access" /\ issued'[Len(issued) + 2].type = "refresh"
      BY <1>0, <2>3 DEF Mints, Minted, Typed
    <3>2. Known(req'[r].newAccess, "access") /\ Known(req'[r].newRefresh, "refresh")
      BY <3>1 DEF Known
    <3> QED
      BY <1>2, <1>5, <3>1, <3>2 DEF OnlyRequest, SameCookies
  <2>4. CASE GivesUp(r)
    BY <1>2, <1>3, <1>5, <2>4, NoRequestFields DEF GivesUp, Refused, OnlyRequest
  <2>5. CASE Revokes(r)
    BY <1>2, <1>3, <1>5, <2>5, NoRequestFields DEF Revokes, Moved, SameCookies, Refused, OnlyRequest
  <2>6. CASE Reply(r)
    <3>1. Refused(r)
      BY <1>0, <2>6, RequestMoves DEF Reply
    <3>2. Known(jar'.access_token, "access") /\ Known(jar'.refresh_token, "refresh")
      BY <1>2, <1>3, <1>5, <2>6 DEF Reply, EmptyJar
    <3> QED
      BY <1>2, <1>3, <1>5, <3>1, <3>2, NoRequestFields DEF Refused, OnlyRequest
  <2> QED
    BY <1>7, <2>1, <2>2, <2>3, <2>4, <2>5, <2>6 DEF Kinds
<1> QED
  BY <1>6, <1>7, StepKinds

\* A refresh token that was not delivered stays in nobody's hands.
LEMMA UndeliveredStep == ASSUME Inv, [Next]_vars PROVE Undelivered'
<1>0. Typed /\ TokensKnown /\ Undelivered
  BY DEF Inv
<1>1. /\ Len(issued) \in Nat /\ None \notin Nat
      /\ \A r \in Requests : req[r].refresh # None => req[r].refresh \in 1..Len(issued)
      /\ \A r \in Requests : req[r].newRefresh # None => req[r].newRefresh \in 1..Len(issued)
      /\ jar.refresh_token # None => jar.refresh_token \in 1..Len(issued)
  BY <1>0, SessionsAssumption DEF Typed, TokensKnown, IsA
<1>2. CASE UNCHANGED <<issued, revokedTill, jar, req, logins, interrupted>>
  BY <1>0, <1>2 DEF Undelivered
<1>3. ASSUME NEW r \in Requests, Kinds(r) PROVE Undelivered'
  <2>1. CASE \E op \in Ops : Send(r, op)
    <3>1. /\ UNCHANGED <<jar, revokedTill>> /\ OnlyRequest(r)
          /\ req'[r].refresh = jar.refresh_token /\ req'[r].newRefresh = None
      BY <1>0, <2>1, SendCaptures DEF Send
    <3> QED
      BY <1>0, <3>1 DEF Undelivered, OnlyRequest
  <2>2. CASE Walks(r) \/ Learns(r)
    <3>1. /\ UNCHANGED <<jar, revokedTill>> /\ OnlyRequest(r)
          /\ req'[r].refresh = req[r].refresh /\ req'[r].newRefresh = req[r].newRefresh
      BY <2>2 DEF Walks, Learns, Moved, SameCookies
    <3> QED
      BY <1>0, <3>1 DEF Undelivered, OnlyRequest
  <2>3. CASE Mints(r)
    <3>1. /\ UNCHANGED <<jar, revokedTill>> /\ OnlyRequest(r)
          /\ req'[r].refresh = req[r].refresh /\ req'[r].newRefresh = Len(issued) + 2
          /\ Len(issued) + 2 \in Jtis
      BY <1>1, <2>3, SessionsAssumption DEF Mints, Minted, SameCookies, Jtis
    <3>2. revokedTill[Len(issued) + 2] = 0
      <4>1. Len(issued) + 2 \notin 1..Len(issued) /\ revokedTill[Len(issued) + 2] \in Nat
        BY <1>0, <1>1, <3>1 DEF Typed
      <4> QED
        BY <3>1, <4>1 DEF Inv, KeyOutlivesToken
    <3>3. \A j : j # None => (j \in 1..Len(issued) => j # Len(issued) + 2)
      BY <1>1
    <3>4. None # Len(issued) + 2
      BY <1>1
    <3>5. /\ jar.refresh_token # Len(issued) + 2
          /\ \A q \in Requests : req[q].refresh # Len(issued) + 2 /\ req[q].newRefresh # Len(issued) + 2
      BY <1>1, <3>3, <3>4
    <3> DEFINE n == Len(issued) + 2
    <3> HIDE DEF n
    <3>6. /\ revokedTill[n] = 0 /\ jar.refresh_token # n /\ req'[r].newRefresh = n
          /\ \A q \in Requests : req[q].refresh # n /\ req[q].newRefresh # n
      BY <3>1, <3>2, <3>5 DEF n
    <3> QED
      BY <1>0, <3>1, <3>6 DEF Undelivered, OnlyRequest
  <2>4. CASE GivesUp(r)
    BY <1>0, <2>4, NoRequestFields DEF GivesUp, Refused, OnlyRequest, Undelivered
  <2>5. CASE Revokes(r)
    <3>1. /\ jar' = jar /\ OnlyRequest(r)
          /\ \/ SameCookies(r) /\ req'[r].newRefresh = req[r].newRefresh
             \/ req'[r].refresh = None /\ req'[r].newRefresh = None
      BY <2>5, NoRequestFields DEF Revokes, Moved, Refused
    <3>2. PICK jti \in {req[r].access, req[r].refresh} : Revoke(jti)
      BY <2>5 DEF Revokes
    <3>3. \A j \in Jtis : j # jti => revokedTill'[j] = revokedTill[j]
      BY <1>0, <3>2, CookiesKnown, RevokeSets
    <3>4. \A q \in Requests : req[q].newRefresh # None => req[q].newRefresh \in Jtis /\ req[q].newRefresh # jti
      <4> SUFFICES ASSUME NEW q \in Requests, req[q].newRefresh # None
                   PROVE  req[q].newRefresh \in Jtis /\ req[q].newRefresh # jti
        OBVIOUS
      <4>1. req[q].newRefresh \in Jtis
        BY <1>0 DEF Typed, RequestRecord, JtiOrNone
      <4>2. req[q].newRefresh # req[r].refresh
        BY <1>0 DEF Undelivered
      <4>3. IsA(req[q].newRefresh, "refresh") /\ IsA(req[r].access, "access")
        BY <1>0 DEF TokensKnown
      <4>4. req[q].newRefresh # req[r].access
        BY <4>3 DEF IsA
      <4> QED
        BY <3>2, <4>1, <4>2, <4>4
    <3>5. \A q \in Requests : req[q].newRefresh # None => revokedTill'[req[q].newRefresh] = 0
      BY <1>0, <3>3, <3>4 DEF Undelivered
    <3> QED
      BY <1>0, <3>1, <3>5 DEF Undelivered, OnlyRequest, SameCookies
  <2>6. CASE Reply(r)
    <3>1. Refused(r) /\ revokedTill' = revokedTill
      BY <1>0, <2>6, RequestMoves DEF Reply
    <3>2. jar'.refresh_token = None \/ jar'.refresh_token = req[r].newRefresh
      BY <2>6 DEF Reply, EmptyJar
    <3> QED
      BY <1>0, <3>1, <3>2, NoRequestFields DEF Undelivered, Refused, OnlyRequest
  <2> QED
    BY <1>3, <2>1, <2>2, <2>3, <2>4, <2>5, <2>6 DEF Kinds
<1> QED
  BY <1>2, <1>3, StepKinds

\* The handlers keep their order, and a login or switch carries the auth_time of
\* a login.
LEMMA HandlersStep == ASSUME Inv, [Next]_vars PROVE HandlersInOrder'
<1>0. Typed /\ HandlersInOrder
  BY DEF Inv
<1>1. CASE UNCHANGED <<issued, revokedTill, jar, req, logins, interrupted>>
  BY <1>0, <1>1 DEF HandlersInOrder
<1>2. ASSUME NEW r \in Requests, Kinds(r) PROVE HandlersInOrder'
  <2>1. CASE \E op \in Ops : Send(r, op)
    <3>1. PICK op \in Ops : Send(r, op)
      BY <2>1
    <3>2. /\ logins' = logins /\ OnlyRequest(r) /\ req'[r].op = op /\ req'[r].auth_time = None
          /\ \/ req'[r].pc = "rate" /\ op = "login"
             \/ req'[r].pc = "negotiate" /\ op = "sso"
             \/ req'[r].pc = "check"
      BY <1>0, <3>1, SendCaptures DEF Send
    <3> QED
      BY <1>0, <3>2 DEF HandlersInOrder, OnlyRequest
  <2>2. CASE Walks(r)
    BY <1>0, <2>2 DEF Walks, Moved, OnlyRequest, SameCookies, HandlersInOrder
  <2>3. CASE Learns(r)
    <3>1. None \notin Nat
      BY SessionsAssumption
    <3> QED
      BY <1>0, <2>3, <3>1 DEF Learns, OnlyRequest, SameCookies, HandlersInOrder
  <2>4. CASE Mints(r)
    BY <1>0, <2>4 DEF Mints, Minted, OnlyRequest, SameCookies, HandlersInOrder, Revokers
  <2>5. CASE GivesUp(r)
    BY <1>0, <2>5, NoRequestFields DEF GivesUp, Refused, OnlyRequest, HandlersInOrder
  <2>6. CASE Revokes(r)
    BY <1>0, <2>6, NoRequestFields DEF Revokes, Moved, SameCookies, Refused, OnlyRequest, HandlersInOrder
  <2>7. CASE Reply(r)
    <3>1. Refused(r) /\ logins' = logins
      BY <1>0, <2>7, RequestMoves DEF Reply
    <3> QED
      BY <1>0, <3>1, NoRequestFields DEF Refused, OnlyRequest, HandlersInOrder
  <2> QED
    BY <1>2, <2>1, <2>2, <2>3, <2>4, <2>5, <2>6, <2>7 DEF Kinds
<1> QED
  BY <1>1, <1>2, StepKinds

\* Only auth_times of logins are minted.
LEMMA AuthTimeStep == ASSUME Inv, [Next]_vars PROVE AuthTimeIsALogin'
<1>0. Typed /\ AuthTimeIsALogin /\ issued' \in Seq(TokenRecord)
  BY TokensTyped DEF Inv
<1>1. CASE issued' = issued /\ logins \subseteq logins'
  BY <1>0, <1>1 DEF AuthTimeIsALogin
<1>2. ASSUME NEW r \in Requests, Mints(r) PROVE AuthTimeIsALogin'
  <2>1. PICK auth \in logins' : Minted(r, auth)
    BY <1>2 DEF Mints
  <2>2. logins \subseteq logins'
    BY <1>2 DEF Mints
  <2>3. \A i \in 1..Len(issued) : issued[i].auth_time \in logins
    BY <1>0 DEF AuthTimeIsALogin, Typed
  <2>4. \A i \in 1..Len(issued') : \/ i \in 1..Len(issued)
                                   \/ i = Len(issued) + 1 \/ i = Len(issued) + 2
    BY <1>0, <2>1 DEF Minted, Typed
  <2>5. \A i \in 1..Len(issued') : issued'[i].auth_time \in logins'
    BY <2>1, <2>2, <2>3, <2>4 DEF Minted
  <2> QED
    BY <1>0, <2>5 DEF AuthTimeIsALogin
<1>3. ASSUME NEW r \in Requests, Kinds(r), ~Mints(r) PROVE issued' = issued /\ logins \subseteq logins'
  BY <1>3 DEF Kinds, Send, Walks, Learns, GivesUp, Revokes, Reply
<1> QED
  BY <1>1, <1>2, <1>3, StepKinds

\* The refresh cookie of the browser is not revoked, or its replacement is on its
\* way, or an answer was lost.
LEMMA CookieStep == ASSUME Inv, [Next]_vars PROVE CookieOnItsWay'
<1>0. Typed /\ TokensKnown /\ Undelivered /\ CookieOnItsWay
  BY DEF Inv
<1>1. CASE UNCHANGED <<issued, revokedTill, jar, req, logins, interrupted>>
  BY <1>0, <1>1 DEF CookieOnItsWay
<1>2. ASSUME NEW r \in Requests, req[r].pc # "reply", OnlyRequest(r),
             UNCHANGED <<jar, revokedTill, interrupted>>
      PROVE  CookieOnItsWay'
  BY <1>0, <1>2 DEF CookieOnItsWay, OnlyRequest
<1>3. ASSUME NEW r \in Requests, Kinds(r) PROVE CookieOnItsWay'
  <2>1. CASE \E op \in Ops : Send(r, op)
    <3>1. req[r].pc = "idle" /\ OnlyRequest(r) /\ UNCHANGED <<jar, revokedTill, interrupted>>
      BY <1>0, <2>1, SendCaptures DEF Send, At
    <3> QED
      BY <1>2, <3>1
  <2>2. CASE Walks(r) \/ Learns(r) \/ Mints(r)
    BY <1>2, <2>2 DEF Walks, Learns, Mints, Minted, Moved
  <2>3. CASE GivesUp(r)
    BY <1>0, <2>3 DEF GivesUp, Refused, OnlyRequest, CookieOnItsWay
  <2>4. CASE Revokes(r)
    <3>1. jar' = jar /\ OnlyRequest(r) /\ req[r].pc # "reply" /\ (interrupted => interrupted')
      BY <2>4 DEF Revokes, Moved, Refused
    <3>2. jar.refresh_token # None => jar.refresh_token \in Jtis
      BY <1>0 DEF Typed, JtiOrNone
    <3>3. CASE Revoke(req[r].access)
      <4>1. IsA(jar.refresh_token, "refresh") /\ IsA(req[r].access, "access")
        BY <1>0 DEF TokensKnown
      <4>2. jar.refresh_token # None => jar.refresh_token # req[r].access
        BY <4>1 DEF IsA
      <4>3. jar.refresh_token # None => revokedTill'[jar.refresh_token] = revokedTill[jar.refresh_token]
        BY <1>0, <3>2, <3>3, <4>2, CookiesKnown, RevokeSets
      <4> QED
        BY <1>0, <3>1, <4>3 DEF CookieOnItsWay, OnlyRequest
    <3>4. CASE Revoke(req[r].refresh) /\ Moved(r, "reply")
      <4>1. CASE jar.refresh_token = req[r].refresh
        <5>1. req'[r].pc = "reply" /\ req'[r].refresh = jar'.refresh_token /\ req'[r].op \in Revokers
          BY <2>4, <3>1, <3>4, <4>1 DEF Moved, SameCookies, Revokes
        <5> QED
          BY <5>1 DEF CookieOnItsWay
      <4>2. CASE jar.refresh_token # req[r].refresh
        <5>1. jar.refresh_token # None => revokedTill'[jar.refresh_token] = revokedTill[jar.refresh_token]
          BY <1>0, <3>2, <3>4, <4>2, CookiesKnown, RevokeSets
        <5> QED
          BY <1>0, <3>1, <5>1 DEF CookieOnItsWay, OnlyRequest
      <4> QED
        BY <4>1, <4>2
    <3>5. CASE interrupted'
      BY <3>5 DEF CookieOnItsWay
    <3> QED
      BY <2>4, <3>3, <3>4, <3>5 DEF Revokes
  <2>5. CASE Reply(r)
    <3>1. revokedTill' = revokedTill
      BY <2>5 DEF Reply
    <3>2. jar'.refresh_token = None \/ jar'.refresh_token = req[r].newRefresh
      BY <2>5 DEF Reply, EmptyJar
    <3>3. req[r].newRefresh # None => revokedTill[req[r].newRefresh] = 0
      BY <1>0 DEF Undelivered
    <3> QED
      BY <3>1, <3>2, <3>3 DEF CookieOnItsWay
  <2> QED
    BY <1>3, <2>1, <2>2, <2>3, <2>4, <2>5 DEF Kinds
<1> QED
  BY <1>1, <1>3, StepKinds

\* The key of every revoked token outlives it.
LEMMA KeyStep == ASSUME Inv, [Next]_vars PROVE KeyOutlivesToken'
<1>0. Typed /\ KeyOutlivesToken
  BY DEF Inv
<1>1. CASE UNCHANGED <<issued, revokedTill>>
  BY <1>0, <1>1 DEF KeyOutlivesToken
<1>2. ASSUME NEW r \in Requests, Mints(r) PROVE KeyOutlivesToken'
  <2>1. /\ revokedTill' = revokedTill /\ Len(issued') = Len(issued) + 2 /\ Len(issued) \in Nat
        /\ \A i \in 1..Len(issued) : issued'[i] = issued[i]
    BY <1>0, <1>2 DEF Mints, Minted, Typed
  <2> QED
    BY <1>0, <2>1 DEF KeyOutlivesToken
<1>3. ASSUME NEW r \in Requests, Revokes(r) PROVE KeyOutlivesToken'
  <2>1. PICK jti \in {req[r].access, req[r].refresh} : Revoke(jti)
    BY <1>3 DEF Revokes
  <2>2. /\ \A j \in Jtis : j # jti => revokedTill'[j] = revokedTill[j]
        /\ jti # None => revokedTill'[jti] >= TicksPerSecond * issued[jti].exp
        /\ jti # None => jti \in 1..Len(issued)
    BY <1>0, <2>1, CookiesKnown, RevokeSets
  <2>3. issued' = issued
    BY <1>3 DEF Revokes
  <2>4. None \notin Jtis
    BY SessionsAssumption DEF Jtis
  <2> SUFFICES ASSUME NEW j \in Jtis, revokedTill'[j] > 0
               PROVE  j \in 1..Len(issued') /\ revokedTill'[j] >= TicksPerSecond * issued'[j].exp
    BY DEF KeyOutlivesToken
  <2>5. CASE j = jti
    BY <2>2, <2>3, <2>4, <2>5
  <2>6. CASE j # jti
    BY <1>0, <2>2, <2>3, <2>6 DEF KeyOutlivesToken
  <2> QED
    BY <2>5, <2>6
<1>4. ASSUME NEW r \in Requests, Kinds(r), ~Mints(r), ~Revokes(r) PROVE UNCHANGED <<issued, revokedTill>>
  BY <1>4 DEF Kinds, Send, Walks, Learns, GivesUp, Reply
<1> QED
  BY <1>1, <1>2, <1>3, <1>4, StepKinds

-----------------------------------------------------------------------------
(* Ticket caches.                                                           *)

\* What a step of request r does to its cache file and to the files left behind.
CachesKept ==
    /\ caches' \in [Requests -> CacheStates] /\ leftover' \subseteq Leftovers
    /\ NoTicketLeft'

\* A cache is on disk only during the lookup that made it, and what is left behind
\* with a ticket was neither destroyed nor removed.
LEMMA TicketStep == ASSUME Inv, [Next]_vars PROVE CachesKept
<1>0. Typed /\ NoTicketLeft /\ caches \in [Requests -> CacheStates] /\ leftover \subseteq Leftovers
  BY DEF Inv, Typed
<1> DEFINE InLookup == {"ticket", "ldap", "destroy"}
<1>1. ASSUME NEW r \in Requests, OnlyRequest(r), UNCHANGED <<caches, leftover>>,
             req[r].pc \notin InLookup \/ req'[r].pc \in InLookup
      PROVE  CachesKept
  BY <1>0, <1>1 DEF NoTicketLeft, OnlyRequest, CachesKept
<1> USE <1>0, PcNames, RequestMoves DEF At, Moved, Refused
<1>2. CASE Tick \/ UNCHANGED vars
  BY <1>2 DEF Tick, vars, NoTicketLeft, CachesKept
<1>3. ASSUME NEW r \in Requests, NEW op \in Ops, Send(r, op)
      PROVE  OnlyRequest(r) /\ UNCHANGED <<caches, leftover>> /\ req[r].pc \notin InLookup
  BY <1>3, SendCaptures DEF Send
<1>4. ASSUME NEW r \in Requests, RateCheck(r) \/ (\E accepted \in BOOLEAN : Negotiate(r, accepted))
      PROVE  OnlyRequest(r) /\ UNCHANGED <<caches, leftover>> /\ req[r].pc \notin InLookup
  BY <1>4 DEF RateCheck, Negotiate
<1>5. ASSUME NEW r \in Requests, NEW made, CreateTicketCache(r, made) PROVE CachesKept
  <2>1. req[r].pc = "kinit"
    BY <1>5 DEF CreateTicketCache
  <2>2. CASE made = "both" /\ Goto(r, "ticket") /\ caches' = [caches EXCEPT ![r] = "empty"]
             /\ leftover' = leftover
    <3>1. OnlyRequest(r) /\ req'[r].pc = "ticket"
      BY <2>2
    <3> QED
      BY <2>2, <3>1 DEF NoTicketLeft, OnlyRequest, CachesKept, CacheStates
  <2>3. CASE Refuse(r) /\ caches' = caches
             /\ leftover' = leftover \cup {[holds |-> "empty", after |-> "no_config"]}
    <3>1. OnlyRequest(r)
      BY <2>3
    <3>2. caches[r] = "none"
      BY <2>1 DEF NoTicketLeft
    <3> DEFINE file == [holds |-> "empty", after |-> "no_config"]
    <3>3. file \in Leftovers /\ file.holds # "ticket"
      BY DEF Leftovers
    <3> HIDE DEF file
    <3>4. leftover' = leftover \cup {file}
      BY <2>3 DEF file
    <3> QED
      BY <2>3, <3>1, <3>2, <3>3, <3>4 DEF NoTicketLeft, OnlyRequest, CachesKept
  <2>4. CASE Refuse(r) /\ UNCHANGED <<caches, leftover>>
    BY <1>1, <2>1, <2>4
  <2> QED
    BY <1>5, <2>2, <2>3, <2>4 DEF CreateTicketCache
<1>6. ASSUME NEW r \in Requests, GetTicket(r) \/ (\E ok \in BOOLEAN : DirectoryFails(r, ok))
      PROVE  CachesKept
  <2>1. OnlyRequest(r) /\ req'[r].pc \in InLookup /\ leftover' = leftover
    BY <1>6 DEF GetTicket, DirectoryFails
  <2>2. PICK c \in CacheStates : caches' = [caches EXCEPT ![r] = c]
    <3>1. caches[r] \in CacheStates /\ "ticket" \in CacheStates
      BY DEF CacheStates
    <3> QED
      BY <1>6, <3>1 DEF GetTicket, DirectoryFails
  <2> QED
    BY <2>1, <2>2 DEF NoTicketLeft, OnlyRequest, CachesKept
<1>7. ASSUME NEW r \in Requests, GetUserInfo(r)
      PROVE  OnlyRequest(r) /\ UNCHANGED <<caches, leftover>> /\ req'[r].pc \in InLookup
  <2>1. Second(now) \in Nat
    BY SecondFacts DEF Typed
  <2> QED
    BY <1>7, <2>1, LearnsAuthTime DEF GetUserInfo
<1>8. ASSUME NEW r \in Requests, NEW destroyed, NEW removed, DestroyTicket(r, destroyed, removed)
      PROVE  CachesKept
  <2>1. OnlyRequest(r) /\ caches' = [caches EXCEPT ![r] = "none"]
    BY <1>8 DEF DestroyTicket, AfterLookup
  <2> DEFINE file == [holds |-> caches[r], after |-> "not_removed"]
  <2>2. caches[r] \in CacheStates
    OBVIOUS
  <2>3. file.after = "not_removed" /\ (caches[r] # "none" => file \in Leftovers)
    BY <2>2 DEF CacheStates, Leftovers
  <2> HIDE DEF file
  <2>4. \/ leftover' = leftover
        \/ leftover' = leftover \cup {file} /\ caches[r] # "none"
    BY <1>8 DEF DestroyTicket, file
  <2> QED
    BY <2>1, <2>3, <2>4 DEF NoTicketLeft, OnlyRequest, CachesKept, CacheStates
<1>9. ASSUME NEW r \in Requests,
             LoginIssue(r) \/ \E ok \in BOOLEAN : \/ SsoCheck(r, ok) \/ LogoutCheck(r, ok)
                                                  \/ RefreshCheck(r, ok) \/ SwitchCheck(r, ok)
                                                  \/ SwitchIssue(r, ok)
      PROVE  OnlyRequest(r) /\ UNCHANGED <<caches, leftover>> /\ req[r].pc \notin InLookup
  <2>1. /\ UNCHANGED <<caches, leftover>> /\ req[r].pc \notin InLookup
        /\ req[r].pc # "idle" /\ req[r].pc # "reply"
    BY <1>9 DEF LoginIssue, SsoCheck, LogoutCheck, RefreshCheck, SwitchCheck, SwitchIssue
  <2>2. Kinds(r)
    BY <1>9, RequestKinds DEF HandlerStep
  <2> QED
    BY <2>1, <2>2 DEF Kinds, Send, Reply, Mints, Minted, Learns, Revokes, GivesUp, Walks
<1>10. ASSUME NEW r \in Requests,
              RevokeAccess(r) \/ RevokeRefresh(r) \/ Reply(r) \/ LoseReply(r) \/ RedisFails(r)
       PROVE  OnlyRequest(r) /\ UNCHANGED <<caches, leftover>> /\ req[r].pc \notin InLookup
  BY <1>10 DEF RevokeAccess, RevokeRefresh, Reply, LoseReply, RedisFails
<1> QED
  BY <1>1, <1>2, <1>3, <1>4, <1>5, <1>6, <1>7, <1>8, <1>9, <1>10 DEF Next

-----------------------------------------------------------------------------
(* The login limiter.                                                       *)

\* A non-empty set of naturals has a least element, so Min is one of it.
LEMMA MinInSet ==
    ASSUME NEW S \in SUBSET Nat, S # {}
    PROVE  Min(S) \in S /\ \A y \in S : Min(S) <= y
<1>1. PICK x \in S : \A y \in S : ~ (<<y, x>> \in OpToRel(<, Nat))
  BY NatLessThanWellFounded, WFMin
<1>2. \A y \in S : x <= y
  <2> SUFFICES ASSUME NEW y \in S, y < x PROVE FALSE
    OBVIOUS
  <2>1. <<y, x>> \in OpToRel(<, Nat)
    BY DEF OpToRel
  <2> QED
    BY <1>1, <2>1
<1> QED
  BY <1>2 DEF Min

\* Appending an element and dropping a prefix.
LEMMA ListFacts ==
    ASSUME NEW S, NEW s \in Seq(S)
    PROVE  /\ Len(s) \in Nat /\ \A i \in 1..Len(s) : s[i] \in S
           /\ \A e \in S : /\ Append(s, e) \in Seq(S) /\ Len(Append(s, e)) = Len(s) + 1
                           /\ Append(s, e)[Len(s) + 1] = e
                           /\ \A i \in 1..Len(s) : Append(s, e)[i] = s[i]
           /\ \A m \in 1..Len(s) :
                 /\ SubSeq(s, m, Len(s)) \in Seq(S)
                 /\ Len(SubSeq(s, m, Len(s))) = Len(s) - m + 1
                 /\ \A i \in 1..(Len(s) - m + 1) : SubSeq(s, m, Len(s))[i] = s[m + i - 1]
<1>1. Len(s) \in Nat /\ \A i \in 1..Len(s) : s[i] \in S
  OBVIOUS
<1>2. ASSUME NEW e \in S
      PROVE  /\ Append(s, e) \in Seq(S) /\ Len(Append(s, e)) = Len(s) + 1
             /\ Append(s, e)[Len(s) + 1] = e
             /\ \A i \in 1..Len(s) : Append(s, e)[i] = s[i]
  OBVIOUS
<1>3. ASSUME NEW m \in 1..Len(s)
      PROVE  /\ SubSeq(s, m, Len(s)) \in Seq(S)
             /\ Len(SubSeq(s, m, Len(s))) = Len(s) - m + 1
             /\ \A i \in 1..(Len(s) - m + 1) : SubSeq(s, m, Len(s))[i] = s[m + i - 1]
  OBVIOUS
<1> QED
  BY <1>1, <1>2, <1>3

\* What lies before a tick, and what has left the window by then, does so at every
\* later tick.
LEMMA Later ==
    ASSUME NEW a \in Nat, NEW b \in Nat, b >= a
    PROVE  \A t \in Nat, w \in Nat : (t <= a => t <= b) /\ (t > b - w => t > a - w)
OBVIOUS

\* What ZADD and ZREMRANGEBYSCORE leave: a suffix of the scores that ends with
\* the new one, in which every score of the window is still present at its place
\* from the end.
LEMMA KeptIsSuffix ==
    ASSUME Typed
    PROVE  LET s == Append(attempts, now)
               kept == Kept(s)
           IN  \E m \in 1..Len(s) :
                 /\ kept \in Seq(0..MaxTick) /\ Len(kept) = Len(s) - m + 1
                 /\ \A i \in 1..Len(kept) : kept[i] = s[m + i - 1]
                 /\ \A i \in 1..Len(s) : InWindow(s[i]) => i >= m
<1> DEFINE s == Append(attempts, now)
           I == {i \in DOMAIN s : InWindow(s[i])}
           m == Min(I)
<1>1. /\ s \in Seq(0..MaxTick) /\ Len(s) \in Nat /\ Len(s) \in 1..Len(s) /\ s[Len(s)] = now
      /\ DOMAIN s = 1..Len(s) /\ now \in Nat
  BY DEF Typed
<1> HIDE DEF s
<1>2. Len(s) \in I
  <2>1. InWindow(s[Len(s)])
    BY <1>1, SessionsAssumption DEF InWindow
  <2> QED
    BY <1>1, <2>1
<1>3. I \in SUBSET Nat
  BY <1>1
<1>4. m \in I /\ \A i \in I : m <= i
  BY <1>2, <1>3, MinInSet
<1>5. m \in 1..Len(s)
  BY <1>1, <1>4
<1>6. \A i \in 1..Len(s) : InWindow(s[i]) => i >= m
  BY <1>1, <1>4
<1>7. Kept(s) = SubSeq(s, m, Len(s))
  BY DEF Kept
<1> HIDE DEF m
<1>8. /\ Kept(s) \in Seq(0..MaxTick) /\ Len(Kept(s)) = Len(s) - m + 1
      /\ \A i \in 1..Len(Kept(s)) : Kept(s)[i] = s[m + i - 1]
  <2> DEFINE b == SubSeq(s, m, Len(s))
             S == 0..MaxTick
  <2>1. s \in Seq(S)
    BY <1>1
  <2> HIDE DEF S
  <2>2. b \in Seq(S) /\ Len(b) = Len(s) - m + 1 /\ \A i \in 1..(Len(s) - m + 1) : b[i] = s[m + i - 1]
    BY <1>5, <2>1, ListFacts
  <2>3. Kept(s) = b
    BY <1>7
  <2> HIDE DEF b
  <2> QED
    BY <2>2, <2>3 DEF S
<1> QED
  BY <1>5, <1>6, <1>8 DEF s

\* The limiter's lists keep their types.
LEMMA LimiterTyped ==
    ASSUME Inv, [Next]_vars
    PROVE  /\ attempts' \in Seq(0..MaxTick) /\ admitted' \in Seq(0..MaxTick)
           /\ now' \in 0..MaxTick /\ sent' \in 0..MaxSends
           /\ now' >= now
<1>0. /\ Typed /\ attempts \in Seq(0..MaxTick) /\ admitted \in Seq(0..MaxTick)
      /\ now \in 0..MaxTick /\ sent \in 0..MaxSends
  BY DEF Inv, Typed
<1>1. ASSUME NEW r \in Requests, RateCheck(r)
      PROVE  /\ attempts' \in Seq(0..MaxTick) /\ admitted' \in Seq(0..MaxTick)
             /\ UNCHANGED <<now, sent>>
  <2>1. attempts' \in Seq(0..MaxTick)
    BY <1>0, <1>1, KeptIsSuffix DEF RateCheck
  <2>2. admitted' = admitted \/ admitted' = Append(admitted, now)
    BY <1>1 DEF RateCheck
  <2>3. admitted' \in Seq(0..MaxTick)
    <3> DEFINE S == 0..MaxTick
    <3>1. admitted \in Seq(S) /\ now \in S
      BY <1>0
    <3> HIDE DEF S
    <3>2. admitted' \in Seq(S)
      BY <2>2, <3>1, ListFacts
    <3> QED
      BY <3>2 DEF S
  <2> QED
    BY <1>1, <2>1, <2>3 DEF RateCheck
<1>2. ASSUME NEW r \in Requests, NEW op \in Ops, Send(r, op)
      PROVE  UNCHANGED <<now, attempts, admitted>> /\ sent' \in 0..MaxSends
  BY <1>0, <1>2, SessionsAssumption DEF Send
<1>3. CASE Tick
  BY <1>0, <1>3, SessionsAssumption DEF Tick
<1>4. CASE UNCHANGED <<now, sent, attempts, admitted>>
  BY <1>0, <1>4
<1>5. ASSUME NEW r \in Requests, HandlerStep(r), ~RateCheck(r), ~\E op \in Ops : Send(r, op)
      PROVE  UNCHANGED <<now, sent, attempts, admitted>>
  BY <1>5 DEF HandlerStep, Negotiate, CreateTicketCache, GetTicket, GetUserInfo, DirectoryFails,
       DestroyTicket, LoginIssue, SsoCheck, LogoutCheck, RefreshCheck, SwitchCheck, SwitchIssue,
       RevokeAccess, RevokeRefresh, Reply, LoseReply, RedisFails
<1>6. CASE UNCHANGED vars
  BY <1>4, <1>6 DEF vars
<1>7. ASSUME NEW r \in Requests, HandlerStep(r)
      PROVE  /\ attempts' \in Seq(0..MaxTick) /\ admitted' \in Seq(0..MaxTick)
             /\ now' \in 0..MaxTick /\ sent' \in 0..MaxSends
             /\ now' >= now
  <2>1. now >= now
    BY <1>0
  <2> QED
    BY <1>0, <1>1, <1>2, <1>4, <1>5, <1>7, <2>1
<1> QED
  BY <1>3, <1>6, <1>7 DEF Next, HandlerStep

\* An attempt, refused or not, keeps the count of the window.
LEMMA WindowStep ==
    ASSUME Inv, WindowCounts, [Next]_vars
    PROVE  /\ WindowCounts'
           /\ \/ admitted' = admitted
              \/ admitted' = Append(admitted, now) /\ now' = now /\ Len(attempts') <= MaxLogins
<1> DEFINE S == 0..MaxTick
<1>0. /\ Typed /\ attempts \in Seq(S) /\ admitted \in Seq(S) /\ now \in S
      /\ S \subseteq Nat /\ now' \in Nat /\ Window \in Nat
  BY LimiterTyped, SessionsAssumption DEF Inv, Typed
<1>a. now' >= now
  BY LimiterTyped
<1> HIDE DEF S
<1>b. /\ Len(attempts) \in Nat /\ Len(admitted) \in Nat /\ now \in Nat
      /\ \A i \in 1..Len(attempts) : attempts[i] \in Nat
      /\ \A i \in 1..Len(admitted) : admitted[i] \in Nat
  BY <1>0, ListFacts
<1>1. CASE UNCHANGED <<attempts, admitted>>
  <2>1. \A t \in Nat : (t <= now => t <= now') /\ (t > now' - Window => t > now - Window)
    <3>1. now \in Nat /\ now' \in Nat /\ Window \in Nat /\ now' >= now
      BY <1>0, <1>a, <1>b
    <3> QED
      BY <3>1, Later
  <2> QED
    BY <1>1, <1>b, <2>1 DEF WindowCounts, Ordered, Past, InWindow
<1>2. ASSUME NEW r \in Requests, RateCheck(r)
      PROVE  /\ WindowCounts'
             /\ \/ admitted' = admitted
                \/ admitted' = Append(admitted, now) /\ now' = now /\ Len(attempts') <= MaxLogins
  <2> DEFINE s == Append(attempts, now)
             A == Len(admitted)
             B == Len(attempts)
  <2>1. /\ attempts' = Kept(s) /\ now' = now
        /\ admitted' = admitted \/ admitted' = Append(admitted, now)
    BY <1>2 DEF RateCheck
  <2>2. PICK m \in 1..Len(s) :
                 /\ Len(attempts') = Len(s) - m + 1
                 /\ \A i \in 1..Len(attempts') : attempts'[i] = s[m + i - 1]
                 /\ \A i \in 1..Len(s) : InWindow(s[i]) => i >= m
    BY <1>0, <2>1, KeptIsSuffix
  <2>3. /\ Len(s) = B + 1 /\ s[B + 1] = now /\ \A i \in 1..B : s[i] = attempts[i]
        /\ \A i \in 1..(B + 1) : s[i] \in Nat
    <3>1. s \in Seq(S) /\ Len(s) = B + 1 /\ s[B + 1] = now /\ \A i \in 1..B : s[i] = attempts[i]
      BY <1>0, ListFacts
    <3> QED
      BY <1>0, <3>1, ListFacts
  <2> DEFINE E == B + 2 - m
  <2>4. /\ A \in Nat /\ B \in Nat /\ now \in Nat /\ m \in 1..(B + 1) /\ E \in 1..(B + 1)
        /\ Len(attempts') = E /\ E \in Nat
        /\ \A i \in 1..E : attempts'[i] = s[m + i - 1] /\ m + i - 1 \in 1..(B + 1)
    BY <1>b, <2>2, <2>3
  <2>5. \A i \in 1..(B + 1) : InWindow(s[i]) => i >= m
    BY <2>2, <2>3
  <2>6. /\ \A i, j \in 1..B : i <= j => attempts[i] <= attempts[j]
        /\ \A i \in 1..B : attempts[i] <= now
        /\ \A i, j \in 1..A : i <= j => admitted[i] <= admitted[j]
        /\ \A i \in 1..A : admitted[i] <= now
        /\ \A k \in 1..A : InWindow(admitted[k]) =>
              B - (A - k) \in 1..B /\ attempts[B - (A - k)] >= admitted[k]
    BY DEF WindowCounts, Ordered, Past
  <2> HIDE DEF A, B, E, s
  <2>a. \A i \in 1..(B + 1) : i \in 1..B \/ i = B + 1
    BY <2>4
  <2>7. \A i \in 1..(B + 1) : s[i] \in Nat /\ ((i \in 1..B /\ s[i] = attempts[i]) \/ (i = B + 1 /\ s[i] = now))
    BY <2>3, <2>a
  <2>9. \A i \in 1..(B + 1) : s[i] <= now
    BY <2>4, <2>6, <2>7
  <2>8. \A i, j \in 1..(B + 1) : i <= j => s[i] <= s[j]
    <3> SUFFICES ASSUME NEW i \in 1..(B + 1), NEW j \in 1..(B + 1), i <= j
                 PROVE  s[i] <= s[j]
      OBVIOUS
    <3>1. CASE j \in 1..B
      <4>1. i \in 1..B
        BY <2>4, <3>1
      <4> QED
        BY <2>3, <2>6, <3>1, <4>1
    <3>2. CASE j = B + 1
      BY <2>3, <2>9, <3>2
    <3> QED
      BY <2>a, <3>1, <3>2
  <2>10. Ordered(attempts') /\ \A i \in 1..Len(attempts') : attempts'[i] <= now
    <3>1. \A i \in 1..E : attempts'[i] <= now
      BY <2>4, <2>9
    <3>2. \A i, j \in 1..E : i <= j => m + i - 1 <= m + j - 1
      BY <2>4
    <3>3. \A i, j \in 1..E : i <= j => attempts'[i] <= attempts'[j]
      BY <2>4, <2>8, <3>2
    <3> QED
      BY <2>4, <3>1, <3>3 DEF Ordered
  <2>11. \A k \in 1..A : InWindow(admitted[k]) =>
            LET i == B - (A - k)
            IN  i \in m..B /\ s[i] >= admitted[k] /\ s[i + 1] >= admitted[k]
    <3> SUFFICES ASSUME NEW k \in 1..A, InWindow(admitted[k])
                 PROVE  LET i == B - (A - k)
                        IN  i \in m..B /\ s[i] >= admitted[k] /\ s[i + 1] >= admitted[k]
      OBVIOUS
    <3> DEFINE i == B - (A - k)
    <3>1. i \in 1..B /\ attempts[i] >= admitted[k]
      BY <2>6
    <3> HIDE DEF i
    <3>2. admitted[k] \in Nat
      BY <1>b DEF A
    <3>3. s[i] >= admitted[k] /\ s[i] \in Nat /\ i + 1 \in 1..(B + 1) /\ i \in 1..(B + 1) /\ i <= i + 1
      BY <2>3, <2>4, <3>1
    <3>4. InWindow(s[i])
      BY <1>0, <2>4, <3>2, <3>3 DEF InWindow
    <3>5. i >= m
      BY <2>5, <3>3, <3>4
    <3>6. s[i + 1] >= s[i] /\ s[i + 1] \in Nat
      BY <2>7, <2>8, <3>3
    <3>7. s[i + 1] >= admitted[k]
      BY <3>2, <3>3, <3>6
    <3> QED
      BY <2>4, <3>1, <3>3, <3>5, <3>7 DEF i
  <2>12. CASE admitted' = admitted
    <3>1. ASSUME NEW k \in 1..A, InWindow(admitted[k])
          PROVE  E - (A - k) \in 1..E /\ attempts'[E - (A - k)] >= admitted[k]
      <4> DEFINE i == B - (A - k)
      <4>1. i \in m..B /\ s[i + 1] >= admitted[k]
        BY <2>11, <3>1
      <4>2. E - (A - k) = i + 2 - m /\ i + 2 - m \in 1..E /\ m + (i + 2 - m) - 1 = i + 1
        BY <2>4, <4>1 DEF E
      <4> HIDE DEF i
      <4>3. attempts'[i + 2 - m] = s[i + 1]
        BY <2>4, <4>2
      <4> QED
        BY <4>1, <4>2, <4>3
    <3> QED
      BY <2>1, <2>4, <2>6, <2>10, <2>12, <3>1 DEF WindowCounts, Ordered, Past, InWindow, A
  <2>13. CASE admitted' = Append(admitted, now)
    <3>1. /\ Len(admitted') = A + 1 /\ admitted'[A + 1] = now
          /\ \A k \in 1..A : admitted'[k] = admitted[k]
      BY <1>0, <2>13, ListFacts DEF A
    <3>2. \A k \in 1..(A + 1) : (k \in 1..A /\ admitted'[k] = admitted[k]) \/ (k = A + 1 /\ admitted'[k] = now)
      <4>1. \A k \in 1..(A + 1) : k \in 1..A \/ k = A + 1
        BY <2>4
      <4> QED
        BY <3>1, <4>1
    <3>3. Ordered(admitted') /\ \A k \in 1..Len(admitted') : admitted'[k] <= now
      <4>2. \A i \in 1..(A + 1) : admitted'[i] <= now
        <5>1. now <= now
          BY <2>4
        <5>2. ASSUME NEW i \in 1..(A + 1) PROVE admitted'[i] <= now
          BY <2>6, <3>2, <5>1
        <5> QED
          BY <5>2
      <4>1. ASSUME NEW i \in 1..(A + 1), NEW j \in 1..(A + 1), i <= j
            PROVE  admitted'[i] <= admitted'[j]
        <5>1. CASE j \in 1..A
          <6>1. i \in 1..A
            BY <2>4, <4>1, <5>1
          <6> QED
            BY <2>6, <3>1, <4>1, <5>1, <6>1
        <5>2. CASE j = A + 1
          BY <3>1, <4>2, <5>2
        <5> QED
          BY <3>2, <5>1, <5>2
      <4> QED
        BY <3>1, <4>1, <4>2 DEF Ordered
    <3>4. ASSUME NEW k \in 1..(A + 1), InWindow(admitted'[k])
          PROVE  E - ((A + 1) - k) \in 1..E /\ attempts'[E - ((A + 1) - k)] >= admitted'[k]
      <4>1. CASE k \in 1..A
        <5> DEFINE i == B - (A - k)
        <5>0. InWindow(admitted[k])
          BY <3>1, <3>4, <4>1
        <5>1. i \in m..B /\ s[i] >= admitted[k]
          BY <2>11, <4>1, <5>0
        <5>2. E - ((A + 1) - k) = i + 1 - m /\ i + 1 - m \in 1..E /\ m + (i + 1 - m) - 1 = i
          BY <2>4, <4>1, <5>1 DEF E
        <5> HIDE DEF i
        <5>3. attempts'[i + 1 - m] = s[i]
          BY <2>4, <5>2
        <5> QED
          BY <3>1, <4>1, <5>1, <5>2, <5>3
      <4>2. CASE k = A + 1
        <5>1. E - ((A + 1) - k) = E /\ E \in 1..E /\ m + E - 1 = B + 1
          BY <2>4, <4>2 DEF E
        <5>2. attempts'[E] = now /\ admitted'[k] = now
          BY <2>3, <2>4, <3>1, <4>2, <5>1
        <5> QED
          BY <2>4, <5>1, <5>2
      <4> QED
        BY <2>4, <4>1, <4>2
    <3>5. Len(attempts') <= MaxLogins
      <4>1. MaxLogins \in Nat /\ Len(attempts') \in Nat
        BY <2>4, SessionsAssumption
      <4>2. admitted' # admitted
        BY <2>4, <3>1 DEF A
      <4>3. ~(Len(attempts') > MaxLogins)
        BY <1>2, <4>2 DEF RateCheck
      <4> QED
        BY <4>1, <4>3
    <3> QED
      BY <2>1, <2>4, <2>10, <2>13, <3>1, <3>3, <3>4, <3>5 DEF WindowCounts, Past, InWindow
  <2> QED
    BY <2>1, <2>12, <2>13
<1>3. ASSUME NEW r \in Requests, HandlerStep(r), ~RateCheck(r)
      PROVE  UNCHANGED <<attempts, admitted>>
  BY <1>3 DEF HandlerStep, Send, Negotiate, CreateTicketCache, GetTicket, GetUserInfo, DirectoryFails,
       DestroyTicket, LoginIssue, SsoCheck, LogoutCheck, RefreshCheck, SwitchCheck, SwitchIssue,
       RevokeAccess, RevokeRefresh, Reply, LoseReply, RedisFails
<1>4. CASE Tick \/ UNCHANGED vars
  BY <1>1, <1>4 DEF Tick, vars
<1>5. CASE \E r \in Requests : HandlerStep(r)
  BY <1>1, <1>2, <1>3, <1>5
<1> QED
  BY <1>4, <1>5 DEF Next, HandlerStep

\* In any Window ticks at most MaxLogins logins pass: the login that is let
\* through now and the one MaxLogins before it cannot both be in the window,
\* because the limiter's set would hold more than MaxLogins scores.
LEMMA BoundStep == ASSUME Inv, WindowCounts, LoginsBounded, [Next]_vars PROVE LoginsBounded'
<1>1. CASE admitted' = admitted
  BY <1>1 DEF LoginsBounded
<1>2. CASE admitted' = Append(admitted, now) /\ now' = now /\ Len(attempts') <= MaxLogins
  <2> DEFINE S == 0..MaxTick
             A == Len(admitted)
  <2>1. /\ admitted \in Seq(S) /\ admitted' \in Seq(S) /\ attempts' \in Seq(S) /\ now \in S
        /\ S \subseteq Nat /\ MaxLogins \in Nat \ {0} /\ Window \in Nat
    BY LimiterTyped, SessionsAssumption DEF Inv, Typed
  <2>2. WindowCounts'
    BY WindowStep
  <2> HIDE DEF S
  <2>3. /\ A \in Nat /\ Len(admitted') = A + 1 /\ admitted'[A + 1] = now
        /\ \A i \in 1..A : admitted'[i] = admitted[i]
        /\ \A i \in 1..(A + 1) : admitted'[i] \in Nat
        /\ Len(attempts') \in Nat
    <3>1. /\ A \in Nat /\ Len(admitted') = A + 1 /\ admitted'[A + 1] = now
          /\ \A i \in 1..A : admitted'[i] = admitted[i]
      BY <1>2, <2>1, ListFacts
    <3>2. \A i \in 1..Len(admitted') : admitted'[i] \in S
      BY <2>1, ListFacts
    <3>3. Len(attempts') \in Nat
      BY <2>1, ListFacts
    <3> QED
      BY <2>1, <3>1, <3>2, <3>3
  <2>4. DOMAIN admitted = 1..A /\ DOMAIN admitted' = 1..(A + 1)
    BY <2>1, <2>3
  <2> HIDE DEF A
  <2>5. ASSUME NEW i \in 1..(A + 1), i > MaxLogins
        PROVE  admitted'[i] - admitted'[i - MaxLogins] >= Window
    <3>1. CASE i \in 1..A
      <4>1. i - MaxLogins \in 1..A
        BY <2>1, <2>3, <2>5, <3>1
      <4>2. admitted[i] - admitted[i - MaxLogins] >= Window
        BY <2>4, <2>5, <3>1 DEF LoginsBounded
      <4> QED
        BY <2>3, <3>1, <4>1, <4>2
    <3>2. CASE i = A + 1
      <4> DEFINE k == (A + 1) - MaxLogins
      <4>1. k \in 1..(A + 1) /\ (A + 1) - k = MaxLogins
        BY <2>1, <2>3, <2>5, <3>2
      <4>2. ASSUME InWindow(admitted'[k]) PROVE FALSE
        <5>1. \A n \in 1..Len(admitted') : admitted'[n] > now' - Window =>
                  Len(attempts') - (Len(admitted') - n) \in 1..Len(attempts')
          BY <2>2 DEF WindowCounts, InWindow
        <5>2. Len(attempts') - ((A + 1) - k) \in 1..Len(attempts')
          BY <1>2, <2>3, <4>1, <4>2, <5>1 DEF InWindow
        <5> QED
          BY <1>2, <2>1, <2>3, <4>1, <5>2
      <4>3. ~(admitted'[k] > now - Window)
        BY <4>2 DEF InWindow
      <4> QED
        BY <2>1, <2>3, <3>2, <4>1, <4>3
    <3> QED
      BY <2>3, <3>1, <3>2
  <2> QED
    BY <2>4, <2>5 DEF LoginsBounded
<1> QED
  BY <1>1, <1>2, WindowStep

-----------------------------------------------------------------------------
(* The theorems.                                                            *)

\* The invariant holds before the first request.
LEMMA InitInv == Init => Inv /\ WindowCounts /\ LoginsBounded
<1> SUFFICES ASSUME Init PROVE Inv /\ WindowCounts /\ LoginsBounded
  OBVIOUS
<1>0. /\ NoRequest \in RequestRecord /\ NoRequest.pc = "idle" /\ NoRequest.op = None
      /\ NoRequest.access = None /\ NoRequest.refresh = None /\ NoRequest.auth_time = None
      /\ NoRequest.newAccess = None /\ NoRequest.newRefresh = None
  BY NoRequestFields
<1>1. \A r \in Requests : req[r] = NoRequest
  BY DEF Init
<1>2. jar.access_token = None /\ jar.refresh_token = None
  BY DEF Init, EmptyJar
<1>3. Typed
  <2>1. req \in [Requests -> RequestRecord]
    BY <1>0 DEF Init
  <2>2. jar \in [access_token : JtiOrNone, refresh_token : JtiOrNone]
    BY DEF Init, EmptyJar, JtiOrNone
  <2>3. now \in 0..MaxTick /\ sent \in 0..MaxSends /\ Len(issued) <= MaxTokens
    BY SessionsAssumption DEF Init
  <2>4. /\ issued \in Seq(TokenRecord) /\ attempts \in Seq(0..MaxTick)
        /\ admitted \in Seq(0..MaxTick)
    BY DEF Init
  <2>5. revokedTill \in [Jtis -> Nat]
    BY DEF Init
  <2> QED
    BY <2>1, <2>2, <2>3, <2>4, <2>5 DEF Init, Typed, CacheStates
<1>4. TokensKnown /\ Undelivered /\ CookieOnItsWay
  BY <1>0, <1>1, <1>2 DEF TokensKnown, Undelivered, CookieOnItsWay, IsA
<1>5. HandlersInOrder
  BY <1>0, <1>1 DEF HandlersInOrder
<1>6. AuthTimeIsALogin
  BY DEF Init, AuthTimeIsALogin
<1>7. KeyOutlivesToken
  BY DEF Init, KeyOutlivesToken
<1>8. NoTicketLeft
  BY DEF Init, NoTicketLeft
<1>9. WindowCounts
  BY DEF Init, WindowCounts, Ordered, Past
<1>10. LoginsBounded
  BY DEF Init, LoginsBounded
<1> QED
  BY <1>3, <1>4, <1>5, <1>6, <1>7, <1>8, <1>9, <1>10 DEF Inv

\* Every step keeps the invariant.
LEMMA StepInv == Inv /\ [Next]_vars => Inv'
<1> SUFFICES ASSUME Inv, [Next]_vars PROVE Inv'
  OBVIOUS
<1>1. Typed'
  BY TokensTyped, TicketStep, LimiterTyped DEF Typed, CachesKept
<1> QED
  BY <1>1, TokensStep, UndeliveredStep, HandlersStep, AuthTimeStep, CookieStep, KeyStep,
     TicketStep DEF Inv, CachesKept

\* Spec keeps the invariant.
LEMMA InvHolds == Spec => []Inv
<1>1. Init => Inv
  BY InitInv
<1> QED
  BY <1>1, StepInv, PTL DEF Spec

\* The invariant implies the type invariant.
LEMMA InvTypes == Inv => TypeOK
<1> SUFFICES ASSUME Typed PROVE TypeOK
  BY DEF Inv
<1>1. /\ now \in 0..MaxTick /\ sent \in 0..MaxSends /\ Len(issued) <= MaxTokens
      /\ revokedTill \in [Jtis -> Nat]
      /\ caches \in [Requests -> {"none", "empty", "ticket"}] /\ leftover \subseteq Leftovers
      /\ jar \in [access_token : JtiOrNone, refresh_token : JtiOrNone]
      /\ logins \subseteq Nat /\ interrupted \in BOOLEAN
  BY DEF Typed, CacheStates
<1>2. \A i \in DOMAIN issued : issued[i] \in TokenRecord
  BY DEF Typed
<1> DEFINE S == 0..MaxTick
<1>a. attempts \in Seq(S) /\ admitted \in Seq(S)
  BY DEF Typed
<1> HIDE DEF S
<1>b. /\ \A i \in DOMAIN attempts : attempts[i] \in S
      /\ \A i \in DOMAIN admitted : admitted[i] \in S
  BY <1>a
<1> USE DEF S
<1>3. \A i \in DOMAIN attempts : attempts[i] \in 0..MaxTick
  BY <1>b
<1>4. \A i \in DOMAIN admitted : admitted[i] \in 0..MaxTick
  BY <1>b
<1>5. ASSUME NEW r \in Requests
      PROVE  /\ req[r].op \in Ops \cup {None}
             /\ {req[r].access, req[r].refresh, req[r].newAccess, req[r].newRefresh}
                   \subseteq JtiOrNone
             /\ req[r].auth_time \in Nat \cup {None}
  <2>1. req[r] \in RequestRecord
    BY DEF Typed
  <2> QED
    BY <2>1 DEF RequestRecord
<1> QED
  BY <1>1, <1>2, <1>3, <1>4, <1>5 DEF TypeOK, TokenRecord

\* Every variable of the session model keeps its type, for every number of
\* requests of the browser in flight and every value of the life times.
THEOREM TypeCorrect == Spec => []TypeOK
  BY InvHolds, InvTypes, PTL

\* revoke_token: a revoked token is refused until its last second begins,
\* whatever the resolution of the clock of Redis and however late in a second
\* the key was written.
THEOREM RevokedStaysRefused == Spec => []RevokedIsRefused
<1>1. Inv => RevokedIsRefused
  <2> SUFFICES ASSUME Inv, NEW jti \in DOMAIN issued, revokedTill[jti] > 0, Decodes(jti),
                      ~IsTokenRevoked(jti)
               PROVE  Second(now) = issued[jti].exp
    BY DEF RevokedIsRefused
  <2>1. /\ now \in Nat /\ jti \in Jtis /\ issued[jti].exp \in Nat /\ revokedTill[jti] \in Nat
        /\ TicksPerSecond \in Nat
    <3>1. /\ Typed /\ issued \in Seq(TokenRecord) /\ revokedTill \in [Jtis -> Nat]
          /\ Len(issued) <= MaxTokens
      BY DEF Inv, Typed
    <3>2. issued[jti] \in TokenRecord /\ jti \in Jtis
      BY <3>1, SessionsAssumption DEF Jtis
    <3>3. issued[jti].exp \in Nat
      BY <3>2 DEF TokenRecord
    <3>4. now \in Nat
      BY <3>1 DEF Typed
    <3> QED
      BY <3>1, <3>2, <3>3, <3>4, SessionsAssumption
  <2>2. revokedTill[jti] >= TicksPerSecond * issued[jti].exp
    BY <2>1 DEF Inv, KeyOutlivesToken
  <2>3. now >= revokedTill[jti]
    BY <2>1 DEF IsTokenRevoked
  <2>4. TicksPerSecond * issued[jti].exp <= now
    BY <2>1, <2>2, <2>3
  <2>5. issued[jti].exp <= Second(now) /\ Second(now) \in Nat
    BY <2>1, <2>4, SecondFacts
  <2>6. Second(now) <= issued[jti].exp
    BY DEF Decodes
  <2> QED
    BY <2>1, <2>5, <2>6
<1> QED
  BY <1>1, InvHolds, PTL

\* However the requests of one browser interleave, it is not left with a refresh
\* cookie that the server has revoked, unless an answer was lost or is on its way.
THEOREM RefreshCookieStaysLive == Spec => []RefreshCookieIsLive
<1>1. Inv => RefreshCookieIsLive
  BY DEF Inv, CookieOnItsWay, RefreshCookieIsLive
<1> QED
  BY <1>1, InvHolds, PTL

\* However often a session is refreshed or switched, its auth_time is that of a
\* login.
THEOREM AuthTimeStaysALogin == Spec => []AuthTimeIsALogin
<1>1. Inv => AuthTimeIsALogin
  BY DEF Inv
<1> QED
  BY <1>1, InvHolds, PTL

\* KerberosAuth.authenticate and resolve_identity_via_service_credentials: whatever
\* fails on the way, no ticket outlives its lookup that kdestroy or the removal
\* could take off the disk.
THEOREM TicketsDestroyed == Spec => []NoTicketLeft
<1>1. Inv => NoTicketLeft
  BY DEF Inv
<1> QED
  BY <1>1, InvHolds, PTL

\* AsyncRateLimiter.check lets at most MaxLogins logins through in any Window
\* ticks, for every limit and every window.
THEOREM LoginsStayBounded == Spec => []LoginsBounded
<1> DEFINE WInv == Inv /\ WindowCounts /\ LoginsBounded
<1>1. Init => WInv
  BY InitInv
<1>2. WInv /\ [Next]_vars => WInv'
  BY StepInv, WindowStep, BoundStep
<1> QED
  BY <1>1, <1>2, PTL DEF Spec
=============================================================================
