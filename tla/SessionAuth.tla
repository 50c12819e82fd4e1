----------------------------- MODULE SessionAuth -----------------------------
(***************************************************************************)
(* Sessions, access tokens, bans and live sockets of one account:          *)
(* apps/web/lib/{auth,auth-revoke,moderation}.ts and the connection side   *)
(* of apps/ws/src.                                                         *)
(*                                                                         *)
(* A call is one request being served; several run at once, and each await *)
(* on Postgres or Redis is a step.  An access token is only its jti: its   *)
(* exp and the EX of its blocklist entry are one moment, Expire, and after *)
(* it the jti may stand for another random UUID.                           *)
(***************************************************************************)
EXTENDS Naturals, FiniteSets

CONSTANTS
  Devices,     \* browsers: one cookie jar and one socket each
  Sids,        \* sessions rows the account can get
  Jtis,        \* access tokens that can be unexpired at the same time
  Calls,       \* requests in flight
  Faults,      \* TRUE: a Redis or Postgres call may fail
  NoSid, NoJti, NoDevice

ASSUME SessionAuthAssumption ==
  /\ NoSid \notin Sids
  /\ NoJti \notin Jtis
  /\ NoDevice \notin Devices
  /\ Faults \in BOOLEAN

VARIABLES
  row,       \* sessions: state and access_jti
  session,   \* the session an unexpired access token was signed for
  blocked,   \* REVOKED_JTI entries in Redis
  banned,    \* an active user_bans row exists
  banCache,  \* BAN_CACHE in Redis
  jar,       \* cookies of each browser
  sock,      \* socket of each browser, as the ws server sees it
  call

vars == <<row, session, blocked, banned, banCache, jar, sock, call>>
stored == <<row, session, blocked>>
ban == <<banned, banCache>>

Row == [state : {"none", "open", "revoked", "deleted"}, jti : Jtis \cup {NoJti}]
Jar == [access : Jtis \cup {NoJti}, refresh : Sids \cup {NoSid}]
Sock == [state : {"off", "auth", "on"}, jti : Jtis \cup {NoJti}, sid : Sids \cup {NoSid}]
Op == {"none", "refresh", "http", "login", "logout", "ban", "revoke", "lift"}
PC == {"idle", "cacheGet", "banRead", "cacheSet", "mint", "respond", "accepted",
       "block", "publish", "close", "clear", "select", "delete", "cache", "uncache"}
Call == [op : Op, pc : PC, dev : Devices \cup {NoDevice}, sid : Sids \cup {NoSid},
         jti : Jtis \cup {NoJti}, sel : SUBSET Jtis, seen : BOOLEAN]

NoCookies == [access |-> NoJti, refresh |-> NoSid]
Off == [state |-> "off", jti |-> NoJti, sid |-> NoSid]
Idle == [op |-> "none", pc |-> "idle", dev |-> NoDevice, sid |-> NoSid,
         jti |-> NoJti, sel |-> {}, seen |-> FALSE]

TypeOK ==
  /\ row \in [Sids -> Row]
  /\ session \in [Jtis -> Sids \cup {NoSid}]
  /\ blocked \subseteq Jtis
  /\ banned \in BOOLEAN
  /\ banCache \in {"none", "0", "1"}
  /\ jar \in [Devices -> Jar]
  /\ sock \in [Devices -> Sock]
  /\ call \in [Calls -> Call]

\* verifyAccessToken: signed, and before its exp.
Live == {j \in Jtis : session[j] # NoSid}
Usable == Live \ blocked
UsableOf(s) == {j \in Usable : session[j] = s}
Open(s) == row[s].state = "open"
Exists(s) == row[s].state \in {"open", "revoked"}
Closed(s) == row[s].state \in {"revoked", "deleted"}

Init ==
  /\ row = [s \in Sids |-> [state |-> "none", jti |-> NoJti]]
  /\ session = [j \in Jtis |-> NoSid]
  /\ blocked = {}
  /\ banned = FALSE
  /\ banCache = "none"
  /\ jar = [d \in Devices |-> NoCookies]
  /\ sock = [d \in Devices |-> Off]
  /\ call = [p \in Calls |-> Idle]

Begin(p, op, pc, d, s, j) ==
  /\ call[p] = Idle
  /\ call' = [call EXCEPT ![p] = [op |-> op, pc |-> pc, dev |-> d, sid |-> s,
                                  jti |-> j, sel |-> {}, seen |-> FALSE]]

Goto(p, pc) == call' = [call EXCEPT ![p].pc = pc]
Done(p) == call' = [call EXCEPT ![p] = Idle]

(***************************************************************************)
(* issueSession, refreshAccessCookie, getCurrentUser                       *)
(***************************************************************************)

\* A login that has authenticated its user inserts the session row.
Login(p, d) == \E s \in Sids, j \in Jtis \ Live :
  /\ row[s].state = "none"
  /\ Begin(p, "login", "respond", d, s, j)
  /\ row' = [row EXCEPT ![s] = [state |-> "open", jti |-> j]]
  /\ session' = [session EXCEPT ![j] = s]
  /\ UNCHANGED <<blocked, ban, jar, sock>>

\* Mutant of RefreshRead: the signed refresh token is trusted without its row.
RefreshReadStateless(p, d) ==
  /\ jar[d].refresh # NoSid
  /\ Begin(p, "refresh", "cacheGet", d, jar[d].refresh, NoJti)
  /\ UNCHANGED <<stored, ban, jar, sock>>

\* The SELECT of the session row and the early returns on it.
RefreshRead(p, d) ==
  /\ jar[d].refresh # NoSid
  /\ Open(jar[d].refresh)
  /\ Begin(p, "refresh", "cacheGet", d, jar[d].refresh, NoJti)
  /\ UNCHANGED <<stored, ban, jar, sock>>

\* getCurrentUser up to its blocklist look-up.
HttpRead(p, d) ==
  /\ jar[d].access \in Usable
  /\ Begin(p, "http", "cacheGet", d, NoSid, NoJti)
  /\ UNCHANGED <<stored, ban, jar, sock>>

\* Where isUserBanned returns to.
Verdict(p, isBanned) ==
  IF isBanned THEN Done(p)
  ELSE Goto(p, IF call[p].op = "refresh" THEN "mint" ELSE "accepted")

\* Mutant of BanCacheGet: a missing entry is taken for "not banned".
BanCacheGetOnly(p) ==
  /\ call[p].pc = "cacheGet"
  /\ Verdict(p, banCache = "1")
  /\ UNCHANGED <<stored, ban, jar, sock>>

BanCacheGet(p) ==
  /\ call[p].pc = "cacheGet"
  /\ IF banCache = "none" THEN Goto(p, "banRead") ELSE Verdict(p, banCache = "1")
  /\ UNCHANGED <<stored, ban, jar, sock>>

BanRead(p) ==
  /\ call[p].pc = "banRead"
  /\ call' = [call EXCEPT ![p].pc = "cacheSet", ![p].seen = banned]
  /\ UNCHANGED <<stored, ban, jar, sock>>

BanCacheSet(p) ==
  /\ call[p].pc = "cacheSet"
  /\ banCache' = IF call[p].seen THEN "1" ELSE "0"
  /\ Verdict(p, call[p].seen)
  /\ UNCHANGED <<stored, banned, jar, sock>>

\* Sign the new access token and UPDATE sessions by id; a row that has gone
\* meanwhile is simply not matched.
RefreshMint(p) == \E j \in Jtis \ Live :
  /\ call[p].pc = "mint"
  /\ session' = [session EXCEPT ![j] = call[p].sid]
  /\ row' = IF Exists(call[p].sid) THEN [row EXCEPT ![call[p].sid].jti = j] ELSE row
  /\ call' = [call EXCEPT ![p].pc = "respond", ![p].jti = j]
  /\ UNCHANGED <<blocked, ban, jar, sock>>

\* Set-Cookie reaches the browser; only a login carries a refresh cookie.
Respond(p) ==
  /\ call[p].pc = "respond"
  /\ jar' = [jar EXCEPT ![call[p].dev] =
               [access |-> call[p].jti,
                refresh |-> IF call[p].op = "login" THEN call[p].sid ELSE @.refresh]]
  /\ Done(p)
  /\ UNCHANGED <<stored, ban, sock>>

\* The route handler runs as the authenticated user and answers.
Serve(p) ==
  /\ call[p].pc = "accepted"
  /\ Done(p)
  /\ UNCHANGED <<stored, ban, jar, sock>>

(***************************************************************************)
(* Logout: revokeCurrentSession, then clearAuthCookies                     *)
(***************************************************************************)

LogoutStart(p, d) ==
  /\ jar[d] # NoCookies
  /\ Begin(p, "logout", "block", d, jar[d].refresh, jar[d].access)
  /\ UNCHANGED <<stored, ban, jar, sock>>

LogoutBlock(p) ==
  /\ call[p].op = "logout"
  /\ call[p].pc = "block"
  /\ \/ /\ call[p].jti \in Live
        /\ blocked' = blocked \cup {call[p].jti}
        /\ Goto(p, "publish")
     \/ /\ call[p].jti \notin Live \/ Faults
        /\ Goto(p, "close")
        /\ UNCHANGED blocked
  /\ UNCHANGED <<row, session, ban, jar, sock>>

\* PUBLISH on USER_BANNED or SESSION_REVOKED: subClient's handler disconnects
\* every socket in the user's room.  Its failure is caught, a replica may miss
\* the message, and one that arrives late does no more than Disconnect.
Publish ==
  \/ sock' = [d \in Devices |-> IF sock[d].state = "on" THEN Off ELSE sock[d]]
  \/ UNCHANGED sock

LogoutPublish(p) ==
  /\ call[p].op = "logout"
  /\ call[p].pc = "publish"
  /\ Publish
  /\ Goto(p, "close")
  /\ UNCHANGED <<stored, ban, jar>>

LogoutClose(p) ==
  LET s == call[p].sid IN
  /\ call[p].pc = "close"
  /\ \/ row' = IF s # NoSid /\ Exists(s) THEN [row EXCEPT ![s].state = "revoked"] ELSE row
     \/ Faults /\ UNCHANGED row
  /\ Goto(p, "clear")
  /\ UNCHANGED <<session, blocked, ban, jar, sock>>

LogoutClear(p) ==
  /\ call[p].pc = "clear"
  /\ jar' = [jar EXCEPT ![call[p].dev] = NoCookies]
  /\ Done(p)
  /\ UNCHANGED <<stored, ban, sock>>

(***************************************************************************)
(* banUser, revokeUserJtis, liftBan                                        *)
(***************************************************************************)

BanInsert(p) ==
  /\ ~banned
  /\ Begin(p, "ban", "select", NoDevice, NoSid, NoJti)
  /\ banned' = TRUE
  /\ UNCHANGED <<stored, banCache, jar, sock>>

\* revokeUserJtis reads the current token of every session not revoked.
OpenJtis == {row[s].jti : s \in {t \in Sids : Open(t)}} \ {NoJti}

\* A role, permission or profile change revokes without a ban.
RevokeStart(p) ==
  /\ call[p] = Idle
  /\ call' = [call EXCEPT ![p] = [Idle EXCEPT !.op = "revoke", !.pc = "block", !.sel = OpenJtis]]
  /\ UNCHANGED <<stored, ban, jar, sock>>

RevokeSelect(p) ==
  /\ call[p].pc = "select"
  /\ call' = [call EXCEPT ![p].pc = "block", ![p].sel = OpenJtis]
  /\ UNCHANGED <<stored, ban, jar, sock>>

RevokeBlock(p) ==
  /\ call[p].op # "logout"
  /\ call[p].pc = "block"
  /\ blocked' = blocked \cup call[p].sel
  /\ call' = [call EXCEPT ![p].pc = "delete", ![p].sel = {}]
  /\ UNCHANGED <<row, session, ban, jar, sock>>

RevokeDelete(p) ==
  /\ call[p].pc = "delete"
  /\ row' = [s \in Sids |-> IF Exists(s) THEN [state |-> "deleted", jti |-> NoJti] ELSE row[s]]
  /\ IF call[p].op = "ban" THEN Goto(p, "cache") ELSE Done(p)
  /\ UNCHANGED <<session, blocked, ban, jar, sock>>

BanCacheWrite(p) ==
  /\ call[p].pc = "cache"
  /\ banCache' = "1"
  /\ Goto(p, "publish")
  /\ UNCHANGED <<stored, banned, jar, sock>>

BanPublish(p) ==
  /\ call[p].op = "ban"
  /\ call[p].pc = "publish"
  /\ Publish
  /\ Done(p)
  /\ UNCHANGED <<stored, ban, jar>>

LiftUpdate(p) ==
  /\ banned
  /\ Begin(p, "lift", "uncache", NoDevice, NoSid, NoJti)
  /\ banned' = FALSE
  /\ UNCHANGED <<stored, banCache, jar, sock>>

LiftUncache(p) ==
  /\ call[p].pc = "uncache"
  /\ banCache' = "none"
  /\ Done(p)
  /\ UNCHANGED <<stored, banned, jar, sock>>

\* An await of a moderation request rejects: what was done stays done.
Abort(p) ==
  /\ Faults
  /\ call[p].op \in {"ban", "revoke", "lift"}
  /\ Done(p)
  /\ UNCHANGED <<stored, ban, jar, sock>>

(***************************************************************************)
(* Sockets                                                                 *)
(***************************************************************************)

\* io.use: authenticateSocket with the cookie of the handshake.
Handshake(d) ==
  /\ sock[d] = Off
  /\ jar[d].access \in Usable
  /\ sock' = [sock EXCEPT ![d] = [state |-> "auth", jti |-> jar[d].access,
                                  sid |-> session[jar[d].access]]]
  /\ UNCHANGED <<stored, ban, jar, call>>

\* The connection handler joins the user's room, from where signals reach it.
JoinUserRoom(d) ==
  /\ sock[d].state = "auth"
  /\ sock' = [sock EXCEPT ![d].state = "on"]
  /\ UNCHANGED <<stored, ban, jar, call>>

\* The browser goes away, or the per-account handshake budget is spent.
Disconnect(d) ==
  /\ sock[d] # Off
  /\ sock' = [sock EXCEPT ![d] = Off]
  /\ UNCHANGED <<stored, ban, jar, call>>

\* reverifyConnectedSockets drops what reauthenticateSocket rejects; a socket
\* it cannot decide about stays for the next sweep.
Sweep(d) ==
  /\ sock[d].state = "on"
  /\ sock[d].jti \notin Usable
  /\ sock' = [sock EXCEPT ![d] = Off]
  /\ UNCHANGED <<stored, ban, jar, call>>

(***************************************************************************)
(* Time                                                                    *)
(***************************************************************************)

\* exp of token j passes; its blocklist entry and its cookie go with it.
Expire(j) ==
  LET Drop(k) == IF k = j THEN NoJti ELSE k IN
  /\ j \in Live
  /\ session' = [session EXCEPT ![j] = NoSid]
  /\ blocked' = blocked \ {j}
  /\ row' = [s \in Sids |-> [row[s] EXCEPT !.jti = Drop(@)]]
  /\ jar' = [d \in Devices |-> [jar[d] EXCEPT !.access = Drop(@)]]
  /\ sock' = [d \in Devices |-> [sock[d] EXCEPT !.jti = Drop(@)]]
  /\ call' = [p \in Calls |-> [call[p] EXCEPT !.jti = Drop(@), !.sel = @ \ {j}]]
  /\ UNCHANGED ban

ExpireBanCache ==
  /\ banCache # "none"
  /\ banCache' = "none"
  /\ UNCHANGED <<stored, banned, jar, sock, call>>

\* user_bans.expires_at passes: nothing but the clock is involved.
BanLapses ==
  /\ banned
  /\ banned' = FALSE
  /\ UNCHANGED <<stored, banCache, jar, sock, call>>

Request(p) ==
  \/ \E d \in Devices : Login(p, d) \/ RefreshRead(p, d) \/ HttpRead(p, d) \/ LogoutStart(p, d)
  \/ BanInsert(p) \/ RevokeStart(p) \/ LiftUpdate(p)

Proceed(p) ==
  \/ BanCacheGet(p) \/ BanRead(p) \/ BanCacheSet(p) \/ RefreshMint(p) \/ Respond(p) \/ Serve(p)
  \/ LogoutBlock(p) \/ LogoutPublish(p) \/ LogoutClose(p) \/ LogoutClear(p)
  \/ RevokeSelect(p) \/ RevokeBlock(p) \/ RevokeDelete(p)
  \/ BanCacheWrite(p) \/ BanPublish(p) \/ LiftUncache(p)

Next ==
  \/ \E p \in Calls : Request(p) \/ Proceed(p) \/ Abort(p)
  \/ \E d \in Devices : Handshake(d) \/ JoinUserRoom(d) \/ Disconnect(d) \/ Sweep(d)
  \/ \E j \in Jtis : Expire(j)
  \/ ExpireBanCache \/ BanLapses

\* Requests are served to the end, the TTLs run, and every replica's timer
\* sweeps.  Nobody has to make a request, and no message has to arrive.
Fairness ==
  /\ \A p \in Calls : WF_vars(Proceed(p))
  /\ \A d \in Devices : WF_vars(Sweep(d)) /\ WF_vars(JoinUserRoom(d))
  /\ \A j \in Jtis : WF_vars(Expire(j))
  /\ WF_vars(ExpireBanCache)

Spec == Init /\ [][Next]_vars
FairSpec == Spec /\ Fairness

(***************************************************************************)
(* Properties                                                              *)
(***************************************************************************)

\* A refresh of s that has already read the session as open.
Refreshing(s) == \E p \in Calls : call[p].op = "refresh" /\ call[p].sid = s

\* auth.ts:162-165, "the refresh token dies immediately": a revoked or deleted
\* session stays so, and once the refreshes that had read it before are over,
\* no other starts and no access token of it comes into use.
NoMintAfterClose ==
  [][\A s \in Sids : Closed(s) /\ ~Refreshing(s) =>
       Closed(s)' /\ ~Refreshing(s)' /\ UsableOf(s)' \subseteq UsableOf(s)]_vars

\* A closed session dies out whatever raced with the revocation, failed or got
\* lost: in the end no token and no socket of it is left.
RevocationConverges ==
  \A s \in Sids : <>Closed(s) =>
    <>[](UsableOf(s) = {} /\ \A d \in Devices : sock[d].state = "on" => sock[d].sid # s)

\* The handlers of a banned account's requests stop being reached, and its
\* refreshes stop being granted, even if a stale answer was cached by a
\* request that read user_bans before the ban.
BanSettles ==
  <>[]banned => <>[](\A p \in Calls : call[p].pc \notin {"mint", "accepted"})

=============================================================================
