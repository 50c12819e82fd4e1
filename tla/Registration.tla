---------------------------- MODULE Registration ----------------------------
(***************************************************************************)
(* How an account comes to be and gets its first session: the Telegram     *)
(* bot's /start and invite prompt, login and pending tokens, registration  *)
(* by form (email) and by landing page (Telegram), the passkey step, links *)
(* redeemed at /auth/callback, and the sweep of abandoned registrations.   *)
(*                                                                         *)
(* A transaction is one step, except issueLoginToken's, whose advisory     *)
(* lock is held over two.  Rate limits, TOTP, names, roles other than      *)
(* elevated or not, and the time window of a code are left out.            *)
(***************************************************************************)
EXTENDS Naturals, FiniteSets

CONSTANTS
  Accounts,    \* Telegram accounts
  Emails,      \* addresses that register by form
  Codes, MaxUses, Elevated, \* invite codes, max_uses, those with an elevated role
  Users,       \* ids of user rows
  MaxTokens,   \* rows of auth_login_tokens
  Procs,       \* requests and updates being handled
  MaxEdits,    \* actions of the administrator
  None

ASSUME RegistrationAssumption ==
  /\ IsFiniteSet(Users)
  /\ MaxUses \in [Codes -> Nat \ {0}]
  /\ Elevated \subseteq Codes
  /\ Accounts \cap Emails = {}
  /\ MaxTokens \in Nat /\ MaxEdits \in Nat
  /\ None \notin Users \cup Accounts \cup Emails \cup Codes \cup Nat \cup Procs

Tokens == 1..MaxTokens  \* in the order of created_at

VARIABLES
  policy,     \* registration_config and require_passkey_at_registration
  uses,       \* uses_count of each code
  disabled,   \* codes with a disabled_at
  users,      \* the users table
  tokens,     \* the auth_login_tokens table
  awaiting,   \* accounts whose grammY session awaits an invite code
  pending,    \* passkey:pending_reg of each user: the token, or None
  issuing,    \* holder of the advisory lock login-token:<user>, or None
  swept,      \* registration-cleanup:lock is set
  call,       \* the requests being handled
  edits,      \* actions of the administrator so far
  minted      \* history: sessions issued for each link

vars == <<policy, uses, disabled, users, tokens, awaiting, pending, issuing, swept, call,
          edits, minted>>
admin == <<policy, disabled, edits>>
redis == <<pending, swept>>

User == [st : {"free", "live", "deleted"}, ident : Accounts \cup Emails \cup {None},
         code : Codes \cup {None}, passkey : BOOLEAN, old : BOOLEAN,
         exempt : BOOLEAN,  \* history: registered while no passkey was required
         member : BOOLEAN]  \* history: has had a session
\* A token consumed, expired or deleted is dead: nothing asks it for more.
Token == [st : {"free", "live", "dead"}, fresh : BOOLEAN,
          acct : Accounts \cup {None}, user : Users \cup {None}, code : Codes \cup {None}]
Call == [pc : {"idle", "issue", "mint", "commit", "invalidate", "insert", "create", "challenge", "attach",
               "store", "clear", "session", "select", "delete"},
         ident : Accounts \cup Emails \cup {None}, user : Users \cup {None},
         token : Tokens \cup {None}, code : Codes \cup {None}, gated : BOOLEAN,
         rows : SUBSET Tokens, doomed : SUBSET Users]

Idle == [pc |-> "idle", ident |-> None, user |-> None, token |-> None, code |-> None,
         gated |-> FALSE, rows |-> {}, doomed |-> {}]
NoUser == [st |-> "free", ident |-> None, code |-> None, passkey |-> FALSE, old |-> FALSE,
           exempt |-> FALSE, member |-> FALSE]
NoToken == [st |-> "free", fresh |-> FALSE, acct |-> None, user |-> None, code |-> None]
DeadToken == [NoToken EXCEPT !.st = "dead"]

TypeOK ==
  /\ policy \in [invites : BOOLEAN, public : BOOLEAN, passkey : BOOLEAN]
  /\ uses \in [Codes -> Nat]
  /\ disabled \subseteq Codes
  /\ users \in [Users -> User]
  /\ tokens \in [Tokens -> Token]
  /\ awaiting \subseteq Accounts
  /\ pending \in [Users -> Tokens \cup {None}]
  /\ issuing \in [Users -> Procs \cup {None}]
  /\ swept \in BOOLEAN
  /\ call \in [Procs -> Call]
  /\ edits \in 0..MaxEdits
  /\ minted \in [Tokens -> Nat]

Init ==
  /\ policy \in [invites : BOOLEAN, public : BOOLEAN, passkey : BOOLEAN]
  /\ uses = [c \in Codes |-> 0] /\ disabled = {}
  /\ users = [u \in Users |-> NoUser]
  /\ tokens = [k \in Tokens |-> NoToken]
  /\ awaiting = {}
  /\ pending = [u \in Users |-> None]
  /\ issuing = [u \in Users |-> None]
  /\ swept = FALSE
  /\ call = [p \in Procs |-> Idle]
  /\ edits = 0
  /\ minted = [k \in Tokens |-> 0]

LiveUsers == {u \in Users : users[u].st = "live"}
LiveTokens == {k \in Tokens : tokens[k].st = "live"}
Known(i) == {u \in LiveUsers : users[u].ident = i}
At(p, pc) == call[p].pc = pc
Goto(p, c) == call' = [call EXCEPT ![p] = c]
Done(p) == Goto(p, Idle)

\* redeemableInvitePredicate, up to the code's time window.
Redeemable(c) ==
  /\ c \notin disabled
  /\ uses[c] < MaxUses[c]
  /\ c \in Elevated => uses[c] = 0

\* INSERT INTO auth_login_tokens, at the next created_at.
Insert(old, row) ==
  \E k \in Tokens :
    /\ \A j \in Tokens : old[j].st = "free" <=> j >= k
    /\ tokens' = [old EXCEPT ![k] = row]

Without(S) == [k \in Tokens |-> IF k \in S THEN DeadToken ELSE tokens[k]]

(***************************************************************************)
(* The Telegram bot                                                        *)
(***************************************************************************)

\* /start: a login link for a user; for another account the prompt for a
\* code, a registration link or a refusal.
Start(p, t) ==
  /\ call[p] = Idle
  /\ \/ \E u \in Known(t) :
          /\ Goto(p, [Idle EXCEPT !.pc = "issue", !.user = u])
          /\ awaiting' = awaiting \ {t}
     \/ /\ Known(t) = {} /\ policy.invites
        /\ awaiting' \in {awaiting \cup {t}, awaiting \ {t}}  \* locked out after wrong guesses
        /\ UNCHANGED call
     \/ /\ Known(t) = {} /\ ~policy.invites /\ policy.public
        /\ Goto(p, [Idle EXCEPT !.pc = "invalidate", !.ident = t])
        /\ UNCHANGED awaiting
  /\ UNCHANGED <<admin, uses, users, tokens, redis, issuing, minted>>

\* A text message while an invite code is awaited.  The code is looked up, and
\* claimed only at registration.
CodeMessage(p, t, c) ==
  /\ call[p] = Idle
  /\ t \in awaiting
  /\ \/ \E u \in Known(t) : Goto(p, [Idle EXCEPT !.pc = "issue", !.user = u])
     \/ /\ Known(t) = {} /\ Redeemable(c)
        /\ Goto(p, [Idle EXCEPT !.pc = "invalidate", !.ident = t, !.code = c])
     \/ Known(t) = {} /\ UNCHANGED call         \* locked out after wrong guesses
  /\ awaiting' = awaiting \ {t}
  /\ UNCHANGED <<admin, uses, users, tokens, redis, issuing, minted>>

\* Sessions of the bot are kept in memory.
BotRestart ==
  /\ awaiting' = {}
  /\ UNCHANGED <<admin, uses, users, tokens, redis, issuing, call, minted>>

\* The live tokens of a user, and the latest of them within the last 15 seconds.
TokensOf(u) == {k \in LiveTokens : tokens[k].user = u}
Reusable(u) == {k \in TokensOf(u) : tokens[k].fresh /\ \A j \in TokensOf(u) : j <= k}

\* Mutant of IssueBegin: the advisory lock is not waited for.
IssueUnlocked(p) ==
  LET u == call[p].user IN
  /\ At(p, "issue")
  /\ IF Reusable(u) # {} THEN Done(p) /\ UNCHANGED issuing
     ELSE /\ issuing' = [issuing EXCEPT ![u] = p]
          /\ Goto(p, [call[p] EXCEPT !.pc = "mint"])
  /\ UNCHANGED <<admin, uses, users, tokens, awaiting, redis, minted>>

\* issueLoginToken takes the lock and reads the latest live token, which is
\* handed out again if it is of the last 15 seconds.
IssueBegin(p) ==
  LET u == call[p].user IN
  /\ At(p, "issue")
  /\ issuing[u] = None
  /\ IF Reusable(u) # {} THEN Done(p) /\ UNCHANGED issuing
     ELSE /\ issuing' = [issuing EXCEPT ![u] = p]
          /\ Goto(p, [call[p] EXCEPT !.pc = "mint"])
  /\ UNCHANGED <<admin, uses, users, tokens, awaiting, redis, minted>>

\* The UPDATE consumes the user's live tokens, which are locked until the commit.
IssueConsume(p) ==
  /\ At(p, "mint")
  /\ Goto(p, [call[p] EXCEPT !.pc = "commit", !.rows = TokensOf(call[p].user)])
  /\ UNCHANGED <<admin, uses, users, tokens, awaiting, redis, issuing, minted>>

\* A token is inserted and the transaction commits.  The foreign key refuses it,
\* and the transaction is undone, if the user is gone.
IssueEnd(p) ==
  LET u == call[p].user IN
  /\ At(p, "commit")
  /\ IF u \in LiveUsers
     THEN Insert(Without(call[p].rows), [NoToken EXCEPT !.st = "live", !.fresh = TRUE, !.user = u])
     ELSE UNCHANGED tokens
  /\ issuing' = [issuing EXCEPT ![u] = None]
  /\ Done(p)
  /\ UNCHANGED <<admin, uses, users, awaiting, redis, minted>>

\* issuePendingToken: two statements, and no lock.
PendingInvalidate(p) ==
  /\ At(p, "invalidate")
  /\ tokens' = Without({k \in LiveTokens : tokens[k].acct = call[p].ident /\ tokens[k].user = None})
  /\ Goto(p, [call[p] EXCEPT !.pc = "insert"])
  /\ UNCHANGED <<admin, uses, users, awaiting, redis, issuing, minted>>

PendingInsert(p) ==
  /\ At(p, "insert")
  /\ Insert(tokens, [NoToken EXCEPT !.st = "live", !.fresh = TRUE, !.acct = call[p].ident,
                                    !.code = call[p].code])
  /\ Done(p)
  /\ UNCHANGED <<admin, uses, users, awaiting, redis, issuing, minted>>

(***************************************************************************)
(* Registration                                                            *)
(***************************************************************************)

\* POST /api/auth/telegram-register reads the setting and the pending token.
RegisterRead(p, k) ==
  /\ call[p] = Idle
  /\ k \in LiveTokens /\ tokens[k].user = None /\ tokens[k].acct # None
  /\ Goto(p, [Idle EXCEPT !.pc = "create", !.ident = tokens[k].acct, !.token = k,
                          !.code = tokens[k].code, !.gated = policy.passkey])
  /\ UNCHANGED <<admin, uses, users, tokens, awaiting, redis, issuing, minted>>

\* POST /api/auth/register reads the policy: a code if invites are on,
\* otherwise only while registration is public.
FormRead(p, e, c) ==
  /\ call[p] = Idle
  /\ IF policy.invites THEN c # None ELSE policy.public /\ c = None
  /\ Goto(p, [Idle EXCEPT !.pc = "create", !.ident = e, !.code = c])
  /\ UNCHANGED <<admin, uses, users, tokens, awaiting, redis, issuing, minted>>

\* Mutant of CreateUser: the claim is not undone when the user exists already.
CreateBurning(p) ==
  LET i == call[p].ident
      c == call[p].code IN
  /\ At(p, "create")
  /\ uses' = IF c # None /\ Redeemable(c) THEN [uses EXCEPT ![c] = @ + 1] ELSE uses
  /\ \/ /\ \/ c # None /\ ~Redeemable(c)
           \/ Known(i) # {}
        /\ Done(p)
        /\ UNCHANGED users
     \/ /\ c # None => Redeemable(c)
        /\ Known(i) = {}
        /\ \E u \in Users :
             /\ users[u].st = "free"
             /\ users' = [users EXCEPT ![u] = [NoUser EXCEPT !.st = "live", !.ident = i, !.code = c,
                                                             !.exempt = ~call[p].gated]]
             /\ Goto(p, [call[p] EXCEPT !.user = u,
                  !.pc = IF i \in Emails THEN "session"
                         ELSE IF call[p].gated THEN "challenge" ELSE "attach"])
  /\ UNCHANGED <<admin, tokens, awaiting, redis, issuing, minted>>

\* The transaction of both: the code is claimed by a conditional UPDATE and the
\* user inserted, which the unique indexes refuse for a known account or
\* address.  Nothing of a refused registration remains.
CreateUser(p) ==
  LET i == call[p].ident
      c == call[p].code IN
  /\ At(p, "create")
  /\ \/ /\ \/ c # None /\ ~Redeemable(c)
           \/ Known(i) # {}
        /\ Done(p)
        /\ UNCHANGED <<uses, users>>
     \/ /\ c # None => Redeemable(c)
        /\ Known(i) = {}
        /\ uses' = IF c = None THEN uses ELSE [uses EXCEPT ![c] = @ + 1]
        /\ \E u \in Users :
             /\ users[u].st = "free"
             /\ users' = [users EXCEPT ![u] = [NoUser EXCEPT !.st = "live", !.ident = i, !.code = c,
                                                             !.exempt = ~call[p].gated]]
             /\ Goto(p, [call[p] EXCEPT !.user = u,
                  !.pc = IF i \in Emails THEN "session"
                         ELSE IF call[p].gated THEN "challenge" ELSE "attach"])
  /\ UNCHANGED <<admin, tokens, awaiting, redis, issuing, minted>>

\* A passkey is required: the challenge is stored, the token stays as it is.
Challenge(p) ==
  /\ At(p, "challenge")
  /\ pending' = [pending EXCEPT ![call[p].user] = call[p].token]
  /\ Done(p)
  /\ UNCHANGED <<admin, uses, users, tokens, awaiting, swept, issuing, minted>>

\* No passkey is required: the token becomes a login token of the new user.
Attach(p) ==
  LET k == call[p].token IN
  /\ At(p, "attach")
  /\ tokens' = IF call[p].user \in LiveUsers
               THEN [tokens EXCEPT ![k].user = IF tokens[k].st = "live" THEN call[p].user ELSE @]
               ELSE tokens
  /\ Done(p)
  /\ UNCHANGED <<admin, uses, users, awaiting, redis, issuing, minted>>

(***************************************************************************)
(* Sessions                                                                *)
(***************************************************************************)

\* POST /api/auth/telegram-register/passkey, up to the verified response.
PasskeyRead(p, u) ==
  /\ call[p] = Idle
  /\ pending[u] # None
  /\ Goto(p, [Idle EXCEPT !.pc = "store", !.user = u, !.token = pending[u]])
  /\ UNCHANGED <<admin, uses, users, tokens, awaiting, redis, issuing, minted>>

\* The credential is inserted and the token consumed in one transaction; the
\* foreign key refuses it if the user was swept.
PasskeyStore(p) ==
  LET u == call[p].user
      k == call[p].token IN
  /\ At(p, "store")
  /\ IF u \in LiveUsers
     THEN /\ users' = [users EXCEPT ![u].passkey = TRUE]
          /\ tokens' = Without({k})
          /\ Goto(p, [call[p] EXCEPT !.pc = "clear", !.token = None])
     ELSE Done(p) /\ UNCHANGED <<users, tokens>>
  /\ UNCHANGED <<admin, uses, awaiting, redis, issuing, minted>>

PasskeyClear(p) ==
  /\ At(p, "clear")
  /\ pending' = [pending EXCEPT ![call[p].user] = None]
  /\ Goto(p, [call[p] EXCEPT !.pc = "session"])
  /\ UNCHANGED <<admin, uses, users, tokens, awaiting, swept, issuing, minted>>

\* A token that an uncommitted UPDATE has consumed keeps another UPDATE waiting.
Locked(k) == \E p \in Procs : At(p, "commit") /\ k \in call[p].rows

\* Mutant of Redeem: the token is looked up, and only a pending one consumed.
RedeemAgain(p, k) ==
  /\ call[p] = Idle
  /\ k \in LiveTokens /\ ~Locked(k)
  /\ tokens' = IF tokens[k].user = None THEN Without({k}) ELSE tokens
  /\ IF tokens[k].user = None THEN UNCHANGED call
     ELSE Goto(p, [Idle EXCEPT !.pc = "session", !.user = tokens[k].user, !.token = k])
  /\ UNCHANGED <<admin, uses, users, awaiting, redis, issuing, minted>>

\* GET /auth/callback and POST /api/auth/telegram-login: one conditional UPDATE.
\* A pending token is consumed too, and then refused.
Redeem(p, k) ==
  /\ call[p] = Idle
  /\ k \in LiveTokens /\ ~Locked(k)
  /\ tokens' = Without({k})
  /\ IF tokens[k].user = None THEN UNCHANGED call
     ELSE Goto(p, [Idle EXCEPT !.pc = "session", !.user = tokens[k].user, !.token = k])
  /\ UNCHANGED <<admin, uses, users, awaiting, redis, issuing, minted>>

\* The user is read and issueSession inserts the session, if there is one.
Session(p) ==
  LET u == call[p].user
      k == call[p].token IN
  /\ At(p, "session")
  /\ IF u \in LiveUsers
     THEN /\ users' = [users EXCEPT ![u].member = TRUE]
          /\ minted' = IF k = None THEN minted ELSE [minted EXCEPT ![k] = @ + 1]
     ELSE UNCHANGED <<users, minted>>
  /\ Done(p)
  /\ UNCHANGED <<admin, uses, tokens, awaiting, redis, issuing>>

\* A member adds a passkey in the settings, or deletes the one there is.
EditPasskey(u) ==
  /\ u \in LiveUsers /\ users[u].member
  /\ edits < MaxEdits /\ edits' = edits + 1
  /\ users' = [users EXCEPT ![u].passkey = ~@]
  /\ UNCHANGED <<policy, disabled, uses, tokens, awaiting, redis, issuing, call, minted>>

(***************************************************************************)
(* The sweep of abandoned registrations                                    *)
(***************************************************************************)

\* SET NX EX, then the setting.
SweepBegin(p) ==
  /\ call[p] = Idle
  /\ ~swept
  /\ swept' = TRUE
  /\ IF policy.passkey THEN Goto(p, [Idle EXCEPT !.pc = "select"]) ELSE UNCHANGED call
  /\ UNCHANGED <<admin, uses, users, tokens, awaiting, pending, issuing, minted>>

\* Telegram users without a password or passkey, created over 30 minutes ago.
SweepSelect(p) ==
  /\ At(p, "select")
  /\ Goto(p, [Idle EXCEPT !.pc = "delete",
       !.doomed = {u \in LiveUsers : users[u].ident \in Accounts /\ ~users[u].passkey /\ users[u].old}])
  /\ UNCHANGED <<admin, uses, users, tokens, awaiting, redis, issuing, minted>>

\* DELETE by the ids selected; tokens, passkeys and sessions go with a user.
SweepDelete(p) ==
  LET gone == call[p].doomed \cap LiveUsers IN
  /\ At(p, "delete")
  /\ users' = [u \in Users |-> IF u \in gone
                               THEN [NoUser EXCEPT !.st = "deleted", !.code = users[u].code]
                               ELSE users[u]]
  /\ tokens' = Without({k \in LiveTokens : tokens[k].user \in gone})
  /\ Done(p)
  /\ UNCHANGED <<admin, uses, awaiting, redis, issuing, minted>>

(***************************************************************************)
(* The administrator, failures and time                                    *)
(***************************************************************************)

\* POST /api/admin/users/[id]/login-link issues as the bot does.
AdminLink(p, u) ==
  /\ call[p] = Idle
  /\ u \in LiveUsers
  /\ Goto(p, [Idle EXCEPT !.pc = "issue", !.user = u])
  /\ UNCHANGED <<admin, uses, users, tokens, awaiting, redis, issuing, minted>>

\* PATCH of a code.
ToggleCode(c) ==
  /\ edits < MaxEdits /\ edits' = edits + 1
  /\ disabled' = IF c \in disabled THEN disabled \ {c} ELSE disabled \cup {c}
  /\ UNCHANGED <<policy, uses, users, tokens, awaiting, redis, issuing, call, minted>>

SetPolicy(s) ==
  /\ edits < MaxEdits /\ edits' = edits + 1
  /\ policy' = [policy EXCEPT ![s] = ~@]
  /\ UNCHANGED <<disabled, uses, users, tokens, awaiting, redis, issuing, call, minted>>

\* PATCH of the invite configuration, and of the settings.
ChangePolicy == \E s \in {"invites", "public"} : SetPolicy(s)
RequirePasskey == SetPolicy("passkey")

\* A call ends at an error or with its process; a transaction is undone.
Abort(p) ==
  /\ call[p] # Idle
  /\ issuing' = [u \in Users |-> IF issuing[u] = p THEN None ELSE issuing[u]]
  /\ Done(p)
  /\ UNCHANGED <<admin, uses, users, tokens, awaiting, redis, minted>>

TokenExpires(k) ==
  /\ k \in LiveTokens
  /\ tokens' = Without({k})
  /\ UNCHANGED <<admin, uses, users, awaiting, redis, issuing, call, minted>>

\* 15 seconds after created_at.
TokenAges(k) ==
  /\ k \in LiveTokens /\ tokens[k].fresh
  /\ \A j \in LiveTokens : j < k => ~tokens[j].fresh
  /\ tokens' = [tokens EXCEPT ![k].fresh = FALSE]
  /\ UNCHANGED <<admin, uses, users, awaiting, redis, issuing, call, minted>>

\* A challenge lasts 5 minutes, the sweep lock too.
ChallengeExpires(u) ==
  /\ pending[u] # None
  /\ pending' = [pending EXCEPT ![u] = None]
  /\ UNCHANGED <<admin, uses, users, tokens, awaiting, swept, issuing, call, minted>>

SweepLockExpires ==
  /\ swept
  /\ swept' = FALSE
  /\ UNCHANGED <<admin, uses, users, tokens, awaiting, pending, issuing, call, minted>>

\* 30 minutes after the registration, by when its challenge is gone.  No request
\* lasts as long.
UserAges(u) ==
  /\ u \in LiveUsers /\ ~users[u].old
  /\ users[u].ident \in Accounts
  /\ pending[u] = None
  /\ \A p \in Procs : call[p].pc \notin {"challenge", "select"}
  /\ users' = [users EXCEPT ![u].old = TRUE]
  /\ UNCHANGED <<admin, uses, tokens, awaiting, redis, issuing, call, minted>>

Serve(p) ==
  \/ IssueBegin(p) \/ IssueConsume(p) \/ IssueEnd(p) \/ PendingInvalidate(p) \/ PendingInsert(p)
  \/ CreateUser(p) \/ Challenge(p) \/ Attach(p)
  \/ PasskeyStore(p) \/ PasskeyClear(p) \/ Session(p)
  \/ SweepSelect(p) \/ SweepDelete(p)

Arrive(p) ==
  \/ \E t \in Accounts : Start(p, t) \/ \E c \in Codes : CodeMessage(p, t, c)
  \/ \E k \in Tokens : RegisterRead(p, k) \/ Redeem(p, k)
  \/ \E e \in Emails, c \in Codes \cup {None} : FormRead(p, e, c)
  \/ \E u \in Users : PasskeyRead(p, u) \/ AdminLink(p, u)
  \/ SweepBegin(p)

Next ==
  \/ \E p \in Procs : Arrive(p) \/ Serve(p) \/ Abort(p)
  \/ \E c \in Codes : ToggleCode(c)
  \/ \E u \in Users : EditPasskey(u) \/ ChallengeExpires(u) \/ UserAges(u)
  \/ \E k \in Tokens : TokenExpires(k) \/ TokenAges(k)
  \/ ChangePolicy \/ RequirePasskey \/ BotRestart \/ SweepLockExpires

Spec == Init /\ [][Next]_vars

(***************************************************************************)
(* Properties                                                              *)
(***************************************************************************)

RedeemedBy(c) == {u \in Users : users[u].st # "free" /\ users[u].code = c}

\* Invite codes are accounted for: uses_count is the number of users registered
\* with the code, refused registrations and races for the last use included;
\* it stays within max_uses, and an elevated role is granted once.
InvitesAccounted ==
  \A c \in Codes :
    /\ uses[c] = Cardinality(RedeemedBy(c))
    /\ uses[c] <= MaxUses[c]
    /\ c \in Elevated => uses[c] <= 1

\* A link logs one browser in once, however often and wherever it is opened.
LinkMintsOnce == \A k \in Tokens : minted[k] <= 1

\* Of the links that the bot and the administrator issue to a user, one is
\* usable at a time.  (A registration link that becomes the user's by Attach
\* is not among them.)
OneIssuedLink ==
  \A j, k \in LiveTokens :
    (tokens[j].acct = None /\ tokens[k].acct = None /\ tokens[j].user = tokens[k].user) => j = k

=============================================================================
