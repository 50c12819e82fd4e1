-------------------------- MODULE NewcomersProofs --------------------------
(***************************************************************************)
(* People: the tables of the registration keep their types, codes are      *)
(* accounted for, of the links issued to a user one is live, and a link    *)
(* opens one session, for every number of accounts, codes, users, tokens   *)
(* and requests.                                                           *)
(*                                                                         *)
(* Bots: four results, for every workload, number of peers, size of an      *)
(* answer, pool of keys and number of starts.                              *)
(*                                                                         *)
(* Administrators and uploads: what their steps may do to each other.      *)
(* ReadyHasDevice is not inductive: an upload reads the row, writes the    *)
(* device and only then makes the bot ready.  PairInv adds what holds      *)
(* while an upload that read "pending" is on its way, as long as no        *)
(* administrator's step falls into it ("raced"): its device is on file     *)
(* when it comes to the row, and the row is not disabled.                  *)
(*                                                                         *)
(* Updates: they are handled in order, each once.  HeardInOrder is not     *)
(* inductive: an answer copies the front of the queue (LRANGE) before it   *)
(* takes it away (LTRIM), and pushes come in between.  FeedInv adds that   *)
(* while one request runs nothing else is on its way, and that what it has *)
(* copied still is the front of the queue when it trims (Trims).  An       *)
(* update is then in exactly one place of a line, handled / on its way /   *)
(* queued (InLine), and every step moves the line's parts along, lengthens *)
(* it at the end or drops a whole part.                                    *)
(*                                                                         *)
(* The snapshot: between two iterations of the sync loop the file holds    *)
(* the Olm machine as it is.  Durable is not inductive: while a loop or a  *)
(* reply is under way the file is behind.  KeepInv says who will bring it  *)
(* up to date.  Of the machine that lives, or that the next start makes    *)
(* live (Cur), what the file lacks somebody owes it or has copied, and a   *)
(* copy that has grown old is followed by a newer one (Saved); one loop    *)
(* at a time writes, and what it renames is its copy (FileWhole); Cur has  *)
(* the half of every key that is on the server or on its way there         *)
(* (Halves), and the room keys the server no longer holds (RoomsHeard).    *)
(***************************************************************************)
EXTENDS Registration, Bots, SequenceTheorems, FiniteSetTheorems, FunctionTheorems, TLAPS

\* A pending token is asked for by a Telegram account.
Asker(p) == call[p].pc \in {"invalidate", "insert"} => call[p].ident \in Accounts

\* Who issues a login token does so to a user, whose advisory lock it holds ..
Holder(p) ==
  /\ call[p].pc \in {"issue", "mint", "commit"} => call[p].user \in Users
  /\ call[p].pc \in {"mint", "commit"} => issuing[call[p].user] = p

\* .. and, once its UPDATE is done, knows of every token issued to the user.
Snapshot(p) ==
  At(p, "commit") =>
    \A k \in LiveTokens : tokens[k].acct = None /\ tokens[k].user = call[p].user => k \in call[p].rows

\* A registration with a token is one of a Telegram account, which the token names.
Registrar(p) ==
  call[p].pc \in {"create", "challenge", "attach"} =>
    IF call[p].token = None THEN At(p, "create") /\ call[p].ident \in Emails
    ELSE /\ tokens[call[p].token].st # "free" /\ call[p].ident \in Accounts
         /\ tokens[call[p].token].st = "live" => tokens[call[p].token].acct # None

CallOK(p) == Asker(p) /\ Holder(p) /\ Snapshot(p) /\ Registrar(p)

LinkInv == TypeOK /\ (\A p \in Procs : CallOK(p)) /\ OneIssuedLink

\* The records the steps are made of have their types.
LEMMA Records ==
  /\ Idle \in Call /\ NoUser \in User /\ NoToken \in Token /\ DeadToken \in Token
  /\ [NoUser EXCEPT !.st = "deleted"] \in User
  BY DEF Idle, Call, NoUser, User, NoToken, DeadToken, Token

\* A call served to its next stage, or to its end, stays one.
LEMMA CallStep ==
  ASSUME TypeOK, NEW p \in Procs, NEW h \in Call, Goto(p, h) \/ Done(p) \/ UNCHANGED call
  PROVE  call' \in [Procs -> Call]
  BY Records DEF TypeOK, Goto, Done

\* The table stays one as its tokens die.
LEMMA WithoutType ==
  ASSUME TypeOK, NEW S
  PROVE  Without(S) \in [Tokens -> Token]
  BY Records DEF TypeOK, Without

LEMMA InsertType ==
  ASSUME NEW old \in [Tokens -> Token], NEW entry \in Token, Insert(old, entry)
  PROVE  tokens' \in [Tokens -> Token]
  BY DEF Insert

-----------------------------------------------------------------------------
(* Type correctness *)

LEMMA TypeInit == Init => TypeOK
<1> SUFFICES ASSUME Init PROVE TypeOK  OBVIOUS
<1>1. edits \in 0..MaxEdits  BY RegistrationAssumption DEF Init
<1>2. policy \in [invites : BOOLEAN, public : BOOLEAN, passkey : BOOLEAN]  BY DEF Init
<1> QED BY <1>1, <1>2, Records DEF Init, TypeOK

\* The bot.
LEMMA StartType ==
  ASSUME TypeOK, NEW p \in Procs, NEW t \in Accounts, Start(p, t)  PROVE TypeOK'
<1>1. ASSUME NEW u \in Users  PROVE [Idle EXCEPT !.pc = "issue", !.user = u] \in Call
  BY DEF Idle, Call
<1>2. [Idle EXCEPT !.pc = "invalidate", !.ident = t] \in Call
  BY DEF Idle, Call
<1>3. call' \in [Procs -> Call]
  BY <1>1, <1>2 DEF TypeOK, Start, Goto, Known, LiveUsers
<1> QED BY <1>3 DEF TypeOK, Start, admin, redis

LEMMA CodeMessageType ==
  ASSUME TypeOK, NEW p \in Procs, NEW t \in Accounts, NEW c \in Codes, CodeMessage(p, t, c)
  PROVE  TypeOK'
<1>1. ASSUME NEW u \in Users  PROVE [Idle EXCEPT !.pc = "issue", !.user = u] \in Call
  BY DEF Idle, Call
<1>2. [Idle EXCEPT !.pc = "invalidate", !.ident = t, !.code = c] \in Call
  BY DEF Idle, Call
<1>3. call' \in [Procs -> Call]
  BY <1>1, <1>2 DEF TypeOK, CodeMessage, Goto, Known, LiveUsers
<1> QED BY <1>3 DEF TypeOK, CodeMessage, admin, redis

LEMMA IssueType ==
  ASSUME TypeOK, NEW p \in Procs, IssueBegin(p) \/ IssueConsume(p) \/ IssueEnd(p)
  PROVE  TypeOK'
<1>0. call[p] \in Call  BY DEF TypeOK
<1>1. CASE IssueBegin(p)
  <2>1. [call[p] EXCEPT !.pc = "mint"] \in Call  BY <1>0 DEF Call
  <2>2. call' \in [Procs -> Call]  BY <1>1, <2>1, CallStep DEF IssueBegin
  <2> QED BY <1>1, <2>2 DEF TypeOK, IssueBegin, admin, redis
<1>2. CASE IssueConsume(p)
  <2> DEFINE S == TokensOf(call[p].user)
  <2>1. S \subseteq Tokens  BY DEF TokensOf, LiveTokens
  <2> HIDE DEF S
  <2>2. [call[p] EXCEPT !.pc = "commit", !.rows = S] \in Call  BY <1>0, <2>1 DEF Call
  <2>3. call' \in [Procs -> Call]  BY <1>2, <2>2, CallStep DEF IssueConsume, S
  <2> QED BY <1>2, <2>3 DEF TypeOK, IssueConsume, admin, redis
<1>3. CASE IssueEnd(p)
  <2> DEFINE u == call[p].user
             entry == [NoToken EXCEPT !.st = "live", !.fresh = TRUE, !.user = u]
  <2>1. tokens' \in [Tokens -> Token]
    <3>1. CASE u \in LiveUsers
      <4>1. entry \in Token  BY <3>1 DEF NoToken, Token, LiveUsers
      <4>2. Insert(Without(call[p].rows), entry)  BY <1>3, <3>1 DEF IssueEnd
      <4> QED BY <4>1, <4>2, WithoutType, InsertType
    <3>2. CASE u \notin LiveUsers
      BY <1>3, <3>2 DEF IssueEnd, TypeOK
    <3> QED BY <3>1, <3>2
  <2>2. call' \in [Procs -> Call]  BY <1>3, Records, CallStep DEF IssueEnd
  <2>3. issuing' \in [Users -> Procs \cup {None}]  BY <1>3 DEF IssueEnd, TypeOK
  <2> QED BY <1>3, <2>1, <2>2, <2>3 DEF TypeOK, IssueEnd, admin, redis
<1> QED BY <1>1, <1>2, <1>3

LEMMA PendingType ==
  ASSUME TypeOK, NEW p \in Procs, Asker(p), PendingInvalidate(p) \/ PendingInsert(p)
  PROVE  TypeOK'
<1>0. call[p] \in Call  BY DEF TypeOK
<1>1. CASE PendingInvalidate(p)
  <2>1. [call[p] EXCEPT !.pc = "insert"] \in Call  BY <1>0 DEF Call
  <2>2. call' \in [Procs -> Call]  BY <1>1, <2>1, CallStep DEF PendingInvalidate
  <2>3. tokens' \in [Tokens -> Token]  BY <1>1, WithoutType DEF PendingInvalidate
  <2> QED BY <1>1, <2>2, <2>3 DEF TypeOK, PendingInvalidate, admin, redis
<1>2. CASE PendingInsert(p)
  <2> DEFINE entry == [NoToken EXCEPT !.st = "live", !.fresh = TRUE, !.acct = call[p].ident,
                                    !.code = call[p].code]
  <2>1. call[p].ident \in Accounts  BY <1>2 DEF Asker, PendingInsert, At
  <2>2. entry \in Token  BY <1>0, <2>1 DEF NoToken, Token, Call
  <2>3. Insert(tokens, entry)  BY <1>2 DEF PendingInsert
  <2> HIDE DEF entry
  <2>4. tokens' \in [Tokens -> Token]  BY <2>2, <2>3, InsertType DEF TypeOK
  <2>5. call' \in [Procs -> Call]  BY <1>2, Records, CallStep DEF PendingInsert
  <2> QED BY <1>2, <2>4, <2>5 DEF TypeOK, PendingInsert, admin, redis
<1> QED BY <1>1, <1>2

\* Registration.
LEMMA ReadType ==
  ASSUME TypeOK, NEW p \in Procs,
         \/ \E k \in Tokens : RegisterRead(p, k)
         \/ \E e \in Emails, c \in Codes \cup {None} : FormRead(p, e, c)
         \/ \E u \in Users : PasskeyRead(p, u) \/ AdminLink(p, u)
         \/ SweepBegin(p) \/ SweepSelect(p)
  PROVE  TypeOK'
<1>1. ASSUME NEW k \in Tokens, RegisterRead(p, k)  PROVE TypeOK'
  <2> DEFINE h == [Idle EXCEPT !.pc = "create", !.ident = tokens[k].acct, !.token = k,
                               !.code = tokens[k].code, !.gated = policy.passkey]
  <2>1. h \in Call  BY DEF TypeOK, Token, Idle, Call
  <2>2. call' \in [Procs -> Call]  BY <1>1, <2>1, CallStep DEF RegisterRead
  <2> QED BY <1>1, <2>2 DEF TypeOK, RegisterRead, admin, redis
<1>2. ASSUME NEW e \in Emails, NEW c \in Codes \cup {None}, FormRead(p, e, c)  PROVE TypeOK'
  <2> DEFINE h == [Idle EXCEPT !.pc = "create", !.ident = e, !.code = c]
  <2>1. h \in Call  BY DEF Idle, Call
  <2>2. call' \in [Procs -> Call]  BY <1>2, <2>1, CallStep DEF FormRead
  <2> QED BY <1>2, <2>2 DEF TypeOK, FormRead, admin, redis
<1>3. ASSUME NEW u \in Users, PasskeyRead(p, u)  PROVE TypeOK'
  <2> DEFINE h == [Idle EXCEPT !.pc = "store", !.user = u, !.token = pending[u]]
  <2>1. h \in Call  BY DEF TypeOK, Idle, Call
  <2>2. call' \in [Procs -> Call]  BY <1>3, <2>1, CallStep DEF PasskeyRead
  <2> QED BY <1>3, <2>2 DEF TypeOK, PasskeyRead, admin, redis
<1>4. ASSUME NEW u \in Users, AdminLink(p, u)  PROVE TypeOK'
  <2> DEFINE h == [Idle EXCEPT !.pc = "issue", !.user = u]
  <2>1. h \in Call  BY DEF Idle, Call
  <2>2. call' \in [Procs -> Call]  BY <1>4, <2>1, CallStep DEF AdminLink
  <2> QED BY <1>4, <2>2 DEF TypeOK, AdminLink, admin, redis
<1>5. CASE SweepBegin(p)
  <2> DEFINE h == [Idle EXCEPT !.pc = "select"]
  <2>1. h \in Call  BY DEF Idle, Call
  <2>2. call' \in [Procs -> Call]  BY <1>5, <2>1, CallStep DEF SweepBegin
  <2> QED BY <1>5, <2>2 DEF TypeOK, SweepBegin, admin
<1>6. CASE SweepSelect(p)
  <2> DEFINE S == {u \in LiveUsers : users[u].ident \in Accounts /\ ~users[u].passkey /\ users[u].old}
             h == [Idle EXCEPT !.pc = "delete", !.doomed = S]
  <2>1. S \subseteq Users  BY DEF LiveUsers
  <2> HIDE DEF S
  <2>2. h \in Call  BY <2>1 DEF Idle, Call
  <2>3. call' \in [Procs -> Call]  BY <1>6, <2>2, CallStep DEF SweepSelect, S
  <2> QED BY <1>6, <2>3 DEF TypeOK, SweepSelect, admin, redis
<1> QED BY <1>1, <1>2, <1>3, <1>4, <1>5, <1>6

LEMMA CreateType ==
  ASSUME TypeOK, NEW p \in Procs, CreateUser(p)
  PROVE  TypeOK'
<1> DEFINE s == IF call[p].ident \in Emails THEN "session"
                ELSE IF call[p].gated THEN "challenge" ELSE "attach"
<1>0. call[p] \in Call  BY DEF TypeOK
<1>1. s \in {"session", "challenge", "attach"}  OBVIOUS
<1>2. call' \in [Procs -> Call]
  <2>1. ASSUME NEW u \in Users, Goto(p, [call[p] EXCEPT !.user = u, !.pc = s])
        PROVE  call' \in [Procs -> Call]
    <3> HIDE DEF s
    <3>1. [call[p] EXCEPT !.user = u, !.pc = s] \in Call  BY <1>0, <1>1 DEF Call
    <3> QED BY <2>1, <3>1, CallStep
  <2>2. ASSUME Done(p)  PROVE call' \in [Procs -> Call]
    BY <2>2, Records, CallStep
  <2> QED BY <2>1, <2>2 DEF CreateUser
<1>3. users' \in [Users -> User]
  <2>1. [NoUser EXCEPT !.st = "live", !.ident = call[p].ident, !.code = call[p].code,
                       !.exempt = ~call[p].gated] \in User
    BY <1>0 DEF Call, NoUser, User
  <2> QED BY <2>1 DEF TypeOK, CreateUser
<1>4. uses' \in [Codes -> Nat]
  <2>1. uses \in [Codes -> Nat]  BY DEF TypeOK
  <2>2. ASSUME NEW c \in Codes  PROVE [uses EXCEPT ![c] = uses[c] + 1] \in [Codes -> Nat]
    <3>1. uses[c] + 1 \in Nat  BY <2>1
    <3> QED BY <2>1, <3>1
  <2>3. call[p].code \in Codes \cup {None}  BY <1>0 DEF Call
  <2> QED BY <2>1, <2>2, <2>3 DEF CreateUser
<1>5. UNCHANGED <<admin, tokens, awaiting, redis, issuing, minted>>  BY DEF CreateUser
<1> QED BY <1>2, <1>3, <1>4, <1>5 DEF TypeOK, admin, redis

LEMMA EndType ==
  ASSUME TypeOK, NEW p \in Procs, Challenge(p) \/ Attach(p) \/ Session(p) \/ Abort(p) \/ PasskeyClear(p)
  PROVE  TypeOK'
<1>0. call[p] \in Call  BY DEF TypeOK
<1>1. CASE Challenge(p)
  <2>1. call' \in [Procs -> Call]  BY <1>1, Records, CallStep DEF Challenge
  <2>2. pending' \in [Users -> Tokens \cup {None}]  BY <1>0, <1>1 DEF Challenge, TypeOK, Call
  <2> QED BY <1>1, <2>1, <2>2 DEF TypeOK, Challenge, admin
<1>2. CASE Attach(p)
  <2>1. call' \in [Procs -> Call]  BY <1>2, Records, CallStep DEF Attach
  <2> DEFINE k == call[p].token
             entry == [tokens[k] EXCEPT !.user = IF tokens[k].st = "live" THEN call[p].user ELSE @]
  <2>3. tokens' \in [Tokens -> Token]
    <3>1. CASE call[p].user \in LiveUsers /\ k \in Tokens
      <4>1. tokens[k] \in Token /\ call[p].user \in Users  BY <3>1 DEF TypeOK, LiveUsers
      <4>2. entry \in Token  BY <4>1 DEF Token
      <4>3. tokens' = [tokens EXCEPT ![k] = entry]  BY <1>2, <3>1 DEF Attach
      <4> HIDE DEF entry
      <4> QED BY <4>2, <4>3 DEF TypeOK
    <3>2. CASE ~(call[p].user \in LiveUsers /\ k \in Tokens)
      BY <1>2, <3>2 DEF Attach, TypeOK
    <3> QED BY <3>1, <3>2
  <2> QED BY <1>2, <2>1, <2>3 DEF TypeOK, Attach, admin, redis
<1>3. CASE Session(p)
  <2>1. call' \in [Procs -> Call]  BY <1>3, Records, CallStep DEF Session
  <2>2. minted' \in [Tokens -> Nat]  BY <1>3 DEF Session, TypeOK
  <2>3. ASSUME NEW u \in Users  PROVE [users[u] EXCEPT !.member = TRUE] \in User
    <3>1. users[u] \in User  BY DEF TypeOK
    <3> QED BY <3>1 DEF User
  <2>4. users' \in [Users -> User]  BY <1>3, <2>3 DEF Session, TypeOK, LiveUsers
  <2> QED BY <1>3, <2>1, <2>2, <2>4 DEF TypeOK, Session, admin, redis
<1>4. CASE Abort(p)
  <2>1. call' \in [Procs -> Call]  BY <1>4, Records, CallStep DEF Abort
  <2> QED BY <1>4, <2>1 DEF TypeOK, Abort, admin, redis
<1>5. CASE PasskeyClear(p)
  <2>1. [call[p] EXCEPT !.pc = "session"] \in Call  BY <1>0 DEF Call
  <2>2. call' \in [Procs -> Call]  BY <1>5, <2>1, CallStep DEF PasskeyClear
  <2>3. pending' \in [Users -> Tokens \cup {None}]  BY <1>5 DEF PasskeyClear, TypeOK
  <2> QED BY <1>5, <2>2, <2>3 DEF TypeOK, PasskeyClear, admin
<1> QED BY <1>1, <1>2, <1>3, <1>4, <1>5

\* Links and passkeys.
LEMMA PasskeyStoreType ==
  ASSUME TypeOK, NEW p \in Procs, PasskeyStore(p)
  PROVE  TypeOK'
<1>0. call[p] \in Call  BY DEF TypeOK
<1>1. [call[p] EXCEPT !.pc = "clear", !.token = None] \in Call  BY <1>0 DEF Call
<1>2. call' \in [Procs -> Call]  BY <1>1, CallStep DEF PasskeyStore
<1>3. ASSUME NEW u \in Users  PROVE [users[u] EXCEPT !.passkey = TRUE] \in User
  <2>1. users[u] \in User  BY DEF TypeOK
  <2> QED BY <2>1 DEF User
<1>4. users' \in [Users -> User]  BY <1>3 DEF PasskeyStore, TypeOK, LiveUsers
<1>5. tokens' \in [Tokens -> Token]  BY WithoutType DEF PasskeyStore, TypeOK
<1>6. UNCHANGED <<admin, uses, awaiting, redis, issuing, minted>>  BY DEF PasskeyStore
<1> QED BY <1>2, <1>4, <1>5, <1>6 DEF TypeOK, admin, redis

LEMMA RedeemType ==
  ASSUME TypeOK, NEW p \in Procs, NEW k \in Tokens, Redeem(p, k)
  PROVE  TypeOK'
<1> DEFINE h == [Idle EXCEPT !.pc = "session", !.user = tokens[k].user, !.token = k]
<1>1. h \in Call  BY DEF TypeOK, Token, Idle, Call
<1>2. call' \in [Procs -> Call]  BY <1>1, CallStep DEF Redeem
<1>3. tokens' \in [Tokens -> Token]  BY WithoutType DEF Redeem
<1> QED BY <1>2, <1>3 DEF TypeOK, Redeem, admin, redis

LEMMA SweepDeleteType ==
  ASSUME TypeOK, NEW p \in Procs, SweepDelete(p)
  PROVE  TypeOK'
<1>1. call' \in [Procs -> Call]  BY Records, CallStep DEF SweepDelete
<1>2. tokens' \in [Tokens -> Token]  BY WithoutType DEF SweepDelete
<1>3. ASSUME NEW u \in Users
      PROVE  [NoUser EXCEPT !.st = "deleted", !.code = users[u].code] \in User
  BY DEF TypeOK, NoUser, User
<1>4. users' \in [Users -> User]  BY <1>3 DEF SweepDelete, TypeOK
<1>5. UNCHANGED <<admin, uses, awaiting, redis, issuing, minted>>  BY DEF SweepDelete
<1> QED BY <1>1, <1>2, <1>4, <1>5 DEF TypeOK, admin, redis

\* The administrator, time and the members.
LEMMA RestType ==
  ASSUME TypeOK,
         \/ BotRestart \/ SweepLockExpires
         \/ \E c \in Codes : ToggleCode(c)
         \/ ChangePolicy \/ RequirePasskey
         \/ \E u \in Users : EditPasskey(u) \/ ChallengeExpires(u) \/ UserAges(u)
         \/ \E k \in Tokens : TokenExpires(k) \/ TokenAges(k)
  PROVE  TypeOK'
<1>1. CASE BotRestart \/ SweepLockExpires
  BY <1>1 DEF TypeOK, BotRestart, SweepLockExpires, admin, redis
<1>2. ASSUME NEW c \in Codes, ToggleCode(c)  PROVE TypeOK'
  BY <1>2, RegistrationAssumption DEF TypeOK, ToggleCode, redis
<1>3. CASE ChangePolicy \/ RequirePasskey
  <2>1. PICK s \in {"invites", "public", "passkey"} : SetPolicy(s)
    BY <1>3 DEF ChangePolicy, RequirePasskey
  <2>2. policy' \in [invites : BOOLEAN, public : BOOLEAN, passkey : BOOLEAN]
    BY <2>1 DEF SetPolicy, TypeOK
  <2> QED BY <2>1, <2>2, RegistrationAssumption DEF TypeOK, SetPolicy, redis
<1>4. ASSUME NEW u \in Users, EditPasskey(u)  PROVE TypeOK'
  <2>0. users[u] \in User  BY DEF TypeOK
  <2>1. [users[u] EXCEPT !.passkey = ~@] \in User  BY <2>0 DEF User
  <2>2. users' \in [Users -> User]  BY <1>4, <2>1 DEF EditPasskey, TypeOK
  <2> QED BY <1>4, <2>2, RegistrationAssumption DEF TypeOK, EditPasskey, redis
<1>5. ASSUME NEW u \in Users, ChallengeExpires(u)  PROVE TypeOK'
  BY <1>5 DEF TypeOK, ChallengeExpires, admin
<1>6. ASSUME NEW u \in Users, UserAges(u)  PROVE TypeOK'
  <2>0. users[u] \in User  BY DEF TypeOK
  <2>1. [users[u] EXCEPT !.old = TRUE] \in User  BY <2>0 DEF User
  <2>2. users' \in [Users -> User]  BY <1>6, <2>1 DEF UserAges, TypeOK
  <2> QED BY <1>6, <2>2 DEF TypeOK, UserAges, admin, redis
<1>7. ASSUME NEW k \in Tokens, TokenExpires(k)  PROVE TypeOK'
  BY <1>7, WithoutType DEF TypeOK, TokenExpires, admin, redis
<1>8. ASSUME NEW k \in Tokens, TokenAges(k)  PROVE TypeOK'
  <2>0. tokens[k] \in Token  BY DEF TypeOK
  <2>1. [tokens[k] EXCEPT !.fresh = FALSE] \in Token  BY <2>0 DEF Token
  <2>2. tokens' \in [Tokens -> Token]  BY <1>8, <2>1 DEF TokenAges, TypeOK
  <2> QED BY <1>8, <2>2 DEF TypeOK, TokenAges, admin, redis
<1> QED BY <1>1, <1>2, <1>3, <1>4, <1>5, <1>6, <1>7, <1>8

LEMMA TypeStep ==
  ASSUME TypeOK, \A p \in Procs : Asker(p), [Next]_vars
  PROVE  TypeOK'
<1>1. CASE UNCHANGED vars
  BY <1>1 DEF TypeOK, vars
<1>2. ASSUME NEW p \in Procs, Arrive(p) \/ Serve(p) \/ Abort(p)  PROVE TypeOK'
  BY <1>2, StartType, CodeMessageType, IssueType, PendingType, ReadType, CreateType, EndType,
     PasskeyStoreType, RedeemType, SweepDeleteType DEF Arrive, Serve
<1> QED BY <1>1, <1>2, RestType DEF Next

-----------------------------------------------------------------------------
(* Invite codes *)

\* The count of a code's users follows the step: one more for the user created
\* with it, otherwise none gained or lost.
LEMMA SameUsersSameCount ==
  ASSUME TypeOK, InvitesAccounted, UNCHANGED uses,
         \A u \in Users : /\ (users'[u].st = "free") <=> (users[u].st = "free")
                          /\ users'[u].code = users[u].code
  PROVE  InvitesAccounted'
<1>1. \A c \in Codes : RedeemedBy(c)' = RedeemedBy(c)  BY DEF RedeemedBy
<1> QED BY <1>1 DEF InvitesAccounted

LEMMA CreateAccounted ==
  ASSUME TypeOK, InvitesAccounted, NEW p \in Procs, CreateUser(p)
  PROVE  InvitesAccounted'
<1> DEFINE c == call[p].code
           i == call[p].ident
<1>1. CASE UNCHANGED <<uses, users>>
  BY <1>1, SameUsersSameCount
<1>2. ASSUME NEW u \in Users, users[u].st = "free", c # None => Redeemable(c),
             uses' = IF c = None THEN uses ELSE [uses EXCEPT ![c] = @ + 1],
             users' = [users EXCEPT ![u] = [NoUser EXCEPT !.st = "live", !.ident = i, !.code = c,
                                                          !.exempt = ~call[p].gated]]
      PROVE  InvitesAccounted'
  <2> DEFINE entry == [NoUser EXCEPT !.st = "live", !.ident = i, !.code = c, !.exempt = ~call[p].gated]
  <2>1. entry.st = "live" /\ entry.code = c  BY DEF NoUser
  <2>2. users' = [users EXCEPT ![u] = entry]  BY <1>2
  <2>3. c \in Codes \cup {None}  BY DEF TypeOK, Call
  <2> HIDE DEF entry, c
  <2>4. ASSUME NEW d \in Codes
        PROVE  /\ uses'[d] = Cardinality(RedeemedBy(d)')
               /\ uses'[d] <= MaxUses[d]
               /\ d \in Elevated => uses'[d] <= 1
    <3>1. uses[d] = Cardinality(RedeemedBy(d)) /\ uses[d] <= MaxUses[d]
          /\ (d \in Elevated => uses[d] <= 1)
      BY DEF InvitesAccounted
    <3>2. uses[d] \in Nat /\ MaxUses[d] \in Nat  BY RegistrationAssumption DEF TypeOK
    <3>3. CASE d # c
      <4>1. RedeemedBy(d)' = RedeemedBy(d)
        BY <1>2, <2>1, <2>2, <3>3 DEF TypeOK, RedeemedBy
      <4>2. uses'[d] = uses[d]  BY <1>2, <2>3, <3>3 DEF TypeOK, c
      <4> QED BY <3>1, <4>1, <4>2
    <3>4. CASE d = c
      <4>1. RedeemedBy(d)' = RedeemedBy(d) \cup {u}
        BY <2>1, <2>2, <3>4 DEF TypeOK, RedeemedBy
      <4>2. u \notin RedeemedBy(d)  BY <1>2 DEF RedeemedBy
      <4>3. IsFiniteSet(RedeemedBy(d))
        BY RegistrationAssumption, FS_Subset DEF RedeemedBy
      <4>4. Cardinality(RedeemedBy(d)') = Cardinality(RedeemedBy(d)) + 1
        BY <4>1, <4>2, <4>3, FS_AddElement
      <4>5. c # None  BY <3>4, RegistrationAssumption
      <4>6. Redeemable(d)  BY <1>2, <3>4, <4>5 DEF c
      <4>7. uses'[d] = uses[d] + 1  BY <1>2, <3>4, <4>5 DEF TypeOK, c
      <4> QED BY <3>1, <3>2, <4>4, <4>6, <4>7 DEF Redeemable
    <3> QED BY <3>3, <3>4
  <2> QED BY <2>4 DEF InvitesAccounted
<1> QED BY <1>1, <1>2 DEF CreateUser

\* Uses change with registrations alone; no other step creates a user or changes
\* the code of one, and the row of a deleted user counts on.
LEMMA AccountedStep ==
  ASSUME TypeOK, InvitesAccounted, [Next]_vars
  PROVE  InvitesAccounted'
<1>1. CASE UNCHANGED <<users, uses>>
  BY <1>1, SameUsersSameCount
<1>2. ASSUME NEW p \in Procs, CreateUser(p)  PROVE InvitesAccounted'
  BY <1>2, CreateAccounted
<1>3. ASSUME NEW p \in Procs, PasskeyStore(p) \/ Session(p)  PROVE InvitesAccounted'
  <2>1. ASSUME NEW v \in Users
        PROVE  /\ (users'[v].st = "free") <=> (users[v].st = "free")
               /\ users'[v].code = users[v].code
    <3>1. users \in [Users -> User] /\ users[v] \in User  BY DEF TypeOK
    <3>2. CASE PasskeyStore(p)  BY <3>1, <3>2 DEF PasskeyStore, User
    <3>3. CASE Session(p)  BY <3>1, <3>3 DEF Session, User
    <3> QED BY <1>3, <3>2, <3>3
  <2>2. UNCHANGED uses  BY <1>3 DEF PasskeyStore, Session
  <2> QED BY <2>1, <2>2, SameUsersSameCount
<1>4. ASSUME NEW p \in Procs, SweepDelete(p)  PROVE InvitesAccounted'
  <2>1. ASSUME NEW u \in Users
        PROVE  /\ (users'[u].st = "free") <=> (users[u].st = "free")
               /\ users'[u].code = users[u].code
    <3>1. [NoUser EXCEPT !.st = "deleted", !.code = users[u].code].st = "deleted"
          /\ [NoUser EXCEPT !.st = "deleted", !.code = users[u].code].code = users[u].code
      BY DEF NoUser
    <3> QED BY <1>4, <3>1 DEF SweepDelete, LiveUsers
  <2> QED BY <1>4, <2>1, SameUsersSameCount DEF SweepDelete
<1>5. ASSUME NEW u \in Users, EditPasskey(u) \/ UserAges(u)  PROVE InvitesAccounted'
  <2>1. ASSUME NEW v \in Users
        PROVE  /\ (users'[v].st = "free") <=> (users[v].st = "free")
               /\ users'[v].code = users[v].code
    <3>1. users \in [Users -> User] /\ users[v] \in User  BY DEF TypeOK
    <3>2. CASE EditPasskey(u)  BY <3>1, <3>2 DEF EditPasskey, User
    <3>3. CASE UserAges(u)  BY <3>1, <3>3 DEF UserAges, User
    <3> QED BY <1>5, <3>2, <3>3
  <2>2. UNCHANGED uses  BY <1>5 DEF EditPasskey, UserAges
  <2> QED BY <2>1, <2>2, SameUsersSameCount
<1>6. ASSUME NEW p \in Procs, Arrive(p)  PROVE UNCHANGED <<users, uses>>
  BY <1>6 DEF Arrive, Start, CodeMessage, RegisterRead, Redeem, FormRead, PasskeyRead, AdminLink, SweepBegin
<1>7. ASSUME NEW p \in Procs, Serve(p) \/ Abort(p)
      PROVE  UNCHANGED <<users, uses>> \/ CreateUser(p) \/ PasskeyStore(p) \/ Session(p) \/ SweepDelete(p)
  BY <1>7 DEF Serve, Abort, IssueBegin, IssueConsume, IssueEnd, PendingInvalidate, PendingInsert,
     Challenge, Attach, PasskeyClear, SweepSelect
<1>8. ASSUME NEW c \in Codes, ToggleCode(c)  PROVE UNCHANGED <<users, uses>>
  BY <1>8 DEF ToggleCode
<1>9. ASSUME ChangePolicy \/ RequirePasskey  PROVE UNCHANGED <<users, uses>>
  BY <1>9 DEF ChangePolicy, RequirePasskey, SetPolicy
<1>10. ASSUME NEW u \in Users, ChallengeExpires(u)  PROVE UNCHANGED <<users, uses>>
  BY <1>10 DEF ChallengeExpires
<1>11. ASSUME NEW k \in Tokens, TokenExpires(k) \/ TokenAges(k)  PROVE UNCHANGED <<users, uses>>
  BY <1>11 DEF TokenExpires, TokenAges
<1>12. ASSUME BotRestart \/ SweepLockExpires \/ UNCHANGED vars  PROVE UNCHANGED <<users, uses>>
  BY <1>12 DEF BotRestart, SweepLockExpires, vars
<1> QED BY <1>1, <1>2, <1>3, <1>4, <1>5, <1>6, <1>7, <1>8, <1>9, <1>10, <1>11, <1>12 DEF Next

-----------------------------------------------------------------------------
(* Login links *)

\* A call that a step leaves alone stays as it should be, if its lock is kept and
\* no token is issued to its user.
LEMMA OtherCall ==
  ASSUME TypeOK, NEW q \in Procs, CallOK(q), call'[q] = call[q],
         call[q].pc \in {"mint", "commit"} => issuing'[call[q].user] = issuing[call[q].user],
         \A k \in Tokens : tokens'[k].st = "live" =>
           \/ /\ tokens[k].st = "live" /\ tokens'[k].acct = tokens[k].acct
              /\ tokens'[k].user = tokens[k].user \/ tokens[k].acct # None
           \/ /\ tokens[k].st = "free"
              /\ tokens'[k].acct # None \/ tokens'[k].user # call[q].user \/ ~At(q, "commit"),
         \A k \in Tokens : tokens'[k].st = "free" => tokens[k].st = "free"
  PROVE  CallOK(q)'
<1>1. Asker(q)'  BY DEF CallOK, Asker
<1>2. Holder(q)'  BY DEF CallOK, Holder
<1>3. ASSUME At(q, "commit")', NEW k \in LiveTokens', tokens'[k].acct = None, tokens'[k].user = call'[q].user
      PROVE  k \in call'[q].rows
  <2>1. At(q, "commit")  BY <1>3 DEF At
  <2>2. k \in LiveTokens /\ tokens[k].acct = None /\ tokens[k].user = call[q].user
    BY <1>3, <2>1 DEF LiveTokens
  <2> QED BY <2>1, <2>2 DEF CallOK, Snapshot
<1>4. Registrar(q)'
  <2>1. call[q].token \in Tokens \cup {None}  BY DEF TypeOK, Call
  <2> QED BY <2>1 DEF CallOK, Registrar, At
<1> QED BY <1>1, <1>2, <1>3, <1>4 DEF CallOK, Snapshot

\* Tokens that die, are attached, or are asked for by an account do not add a link.
LEMMA LinksKept ==
  ASSUME OneIssuedLink,
         \A k \in Tokens : tokens'[k].st = "live" =>
           \/ /\ tokens[k].st = "live" /\ tokens'[k].acct = tokens[k].acct
              /\ tokens'[k].user = tokens[k].user \/ tokens[k].acct # None
           \/ tokens'[k].acct # None
  PROVE  OneIssuedLink'
<1> SUFFICES ASSUME NEW j \in LiveTokens', NEW k \in LiveTokens', tokens'[j].acct = None,
                    tokens'[k].acct = None, tokens'[j].user = tokens'[k].user
             PROVE  j = k
  BY DEF OneIssuedLink
<1> QED BY DEF OneIssuedLink, LiveTokens

\* Tokens that stay or die.
LEMMA DyingTokens ==
  ASSUME TypeOK, UNCHANGED tokens \/ \E S \in SUBSET Tokens : tokens' = Without(S)
  PROVE  /\ \A k \in Tokens : tokens'[k].st = "live" => tokens[k].st = "live" /\ tokens'[k] = tokens[k]
         /\ \A k \in Tokens : tokens'[k].st = "free" => tokens[k].st = "free"
<1>1. DeadToken.st = "dead"  BY DEF DeadToken, NoToken
<1> QED BY <1>1 DEF Without

\* The stages of a call that LinkInv speaks of.
Linking == {"issue", "mint", "commit", "invalidate", "insert", "create", "challenge", "attach"}

LEMMA NotLinking ==
  ASSUME NEW p \in Procs, call[p].pc \notin Linking
  PROVE  CallOK(p)
  BY DEF CallOK, Asker, Holder, Snapshot, Registrar, At, Linking

\* A step in which tokens at most die and the call p moves on.
LEMMA MoveStep ==
  ASSUME LinkInv, TypeOK', NEW p \in Procs, CallOK(p)',
         UNCHANGED tokens \/ \E S \in SUBSET Tokens : tokens' = Without(S),
         \A q \in Procs \ {p} :
           /\ call'[q] = call[q]
           /\ call[q].pc \in {"mint", "commit"} => issuing'[call[q].user] = issuing[call[q].user]
  PROVE  LinkInv'
<1>1. /\ \A k \in Tokens : tokens'[k].st = "live" => tokens[k].st = "live" /\ tokens'[k] = tokens[k]
      /\ \A k \in Tokens : tokens'[k].st = "free" => tokens[k].st = "free"
  BY DyingTokens DEF LinkInv
<1>2. OneIssuedLink'  BY <1>1, LinksKept DEF LinkInv
<1>3. ASSUME NEW q \in Procs \ {p}  PROVE CallOK(q)'
  BY <1>1, OtherCall DEF LinkInv
<1> QED BY <1>2, <1>3 DEF LinkInv

\* .. or no call does.
LEMMA NoCallStep ==
  ASSUME LinkInv, TypeOK', UNCHANGED <<call, issuing>>,
         UNCHANGED tokens \/ \E S \in SUBSET Tokens : tokens' = Without(S)
  PROVE  LinkInv'
<1>1. /\ \A k \in Tokens : tokens'[k].st = "live" => tokens[k].st = "live" /\ tokens'[k] = tokens[k]
      /\ \A k \in Tokens : tokens'[k].st = "free" => tokens[k].st = "free"
  BY DyingTokens DEF LinkInv
<1>2. OneIssuedLink'  BY <1>1, LinksKept DEF LinkInv
<1>3. ASSUME NEW q \in Procs  PROVE CallOK(q)'
  BY <1>1, OtherCall DEF LinkInv
<1> QED BY <1>2, <1>3 DEF LinkInv

\* At a step of p, the locks that the other calls hold are theirs still.
LEMMA LocksKept ==
  ASSUME LinkInv, NEW p \in Procs, NEW q \in Procs \ {p}, call[q].pc \in {"mint", "commit"},
         \/ UNCHANGED issuing
         \/ Abort(p)
         \/ IssueBegin(p)
         \/ IssueEnd(p)
  PROVE  issuing'[call[q].user] = issuing[call[q].user]
<1>1. issuing[call[q].user] = q /\ call[q].user \in Users /\ Holder(p)
  BY DEF LinkInv, CallOK, Holder
<1>2. issuing \in [Users -> Procs \cup {None}] /\ None \notin Procs
  BY RegistrationAssumption DEF LinkInv, TypeOK
<1>3. CASE Abort(p)  BY <1>1, <1>2, <1>3 DEF Abort
<1>4. CASE IssueBegin(p)  BY <1>1, <1>2, <1>4 DEF IssueBegin
<1>5. CASE IssueEnd(p)  BY <1>1, <1>2, <1>5 DEF IssueEnd, Holder, At
<1> QED BY <1>3, <1>4, <1>5

\* A step of p in which tokens at most die, to a stage without lock or registration.
EasyStages == {"issue", "invalidate", "insert", "idle", "store", "clear", "session", "select", "delete"}

LEMMA EasyMove ==
  ASSUME LinkInv, TypeOK', NEW p \in Procs, NEW h \in Call, Goto(p, h),
         h.pc \in EasyStages,
         h.pc = "issue" => h.user \in Users,
         h.pc \in {"invalidate", "insert"} => h.ident \in Accounts,
         UNCHANGED tokens \/ \E S \in SUBSET Tokens : tokens' = Without(S),
         UNCHANGED issuing \/ Abort(p)
  PROVE  LinkInv'
<1>1. call'[p] = h /\ \A q \in Procs \ {p} : call'[q] = call[q]
  BY DEF LinkInv, TypeOK, Goto
<1>2. CallOK(p)'
  BY <1>1 DEF EasyStages, CallOK, Asker, Holder, Snapshot, Registrar, At
<1>3. \A q \in Procs \ {p} :
        call[q].pc \in {"mint", "commit"} => issuing'[call[q].user] = issuing[call[q].user]
  BY LocksKept
<1> QED BY <1>1, <1>2, <1>3, MoveStep

\* .. of which the end of the call is one.
LEMMA DoneMove ==
  ASSUME LinkInv, TypeOK', NEW p \in Procs, Done(p),
         UNCHANGED tokens \/ \E S \in SUBSET Tokens : tokens' = Without(S),
         UNCHANGED issuing \/ Abort(p)
  PROVE  LinkInv'
<1>1. Idle \in Call /\ Idle.pc = "idle"  BY Records DEF Idle
<1>2. Goto(p, Idle)  BY DEF Done
<1> QED BY <1>1, <1>2, EasyMove DEF EasyStages

\* A registration begins or goes on.
LEMMA RegistrarMove ==
  ASSUME LinkInv, TypeOK', NEW p \in Procs, NEW h \in Call, Goto(p, h),
         h.pc \in {"create", "challenge", "attach"},
         IF h.token = None THEN h.pc = "create" /\ h.ident \in Emails
         ELSE /\ tokens[h.token].st # "free" /\ h.ident \in Accounts
              /\ tokens[h.token].st = "live" => tokens[h.token].acct # None,
         UNCHANGED <<tokens, issuing>>
  PROVE  LinkInv'
<1>1. call'[p] = h /\ \A q \in Procs \ {p} : call'[q] = call[q]
  BY DEF LinkInv, TypeOK, Goto
<1>2. Registrar(p)'  BY <1>1 DEF Registrar, At
<1>3. CallOK(p)'
  BY <1>1, <1>2 DEF CallOK, Asker, Holder, Snapshot, At
<1> QED BY <1>1, <1>3, MoveStep

-----------------------------------------------------------------------------
(* The steps *)

LEMMA BotLinks ==
  ASSUME LinkInv, TypeOK', NEW p \in Procs, NEW t \in Accounts,
         Start(p, t) \/ \E c \in Codes : CodeMessage(p, t, c)
  PROVE  LinkInv'
<1>1. UNCHANGED <<tokens, issuing>>  BY DEF Start, CodeMessage
<1>2. CASE UNCHANGED call
  BY <1>1, <1>2, NoCallStep
<1>3. ASSUME NEW u \in Users, Goto(p, [Idle EXCEPT !.pc = "issue", !.user = u])  PROVE LinkInv'
  <2> DEFINE h == [Idle EXCEPT !.pc = "issue", !.user = u]
  <2>1. h \in Call /\ h.pc = "issue" /\ h.user = u  BY DEF Idle, Call
  <2>2. Goto(p, h)  BY <1>3
  <2> HIDE DEF h
  <2> QED BY <1>1, <2>1, <2>2, EasyMove DEF EasyStages
<1>4. ASSUME Goto(p, [Idle EXCEPT !.pc = "invalidate", !.ident = t])  PROVE LinkInv'
  <2> DEFINE h == [Idle EXCEPT !.pc = "invalidate", !.ident = t]
  <2>1. h \in Call /\ h.pc = "invalidate" /\ h.ident = t  BY DEF Idle, Call
  <2>2. Goto(p, h)  BY <1>4
  <2> HIDE DEF h
  <2> QED BY <1>1, <2>1, <2>2, EasyMove DEF EasyStages
<1>5. ASSUME NEW c \in Codes, Goto(p, [Idle EXCEPT !.pc = "invalidate", !.ident = t, !.code = c])
      PROVE  LinkInv'
  <2> DEFINE h == [Idle EXCEPT !.pc = "invalidate", !.ident = t, !.code = c]
  <2>1. h \in Call /\ h.pc = "invalidate" /\ h.ident = t  BY DEF Idle, Call
  <2>2. Goto(p, h)  BY <1>5
  <2> HIDE DEF h
  <2> QED BY <1>1, <2>1, <2>2, EasyMove DEF EasyStages
<1> QED BY <1>2, <1>3, <1>4, <1>5 DEF Start, CodeMessage, Known, LiveUsers

LEMMA IssueBeginLinks ==
  ASSUME LinkInv, TypeOK', NEW p \in Procs, IssueBegin(p)
  PROVE  LinkInv'
<1>0. UNCHANGED tokens  BY DEF IssueBegin
<1>1. CASE UNCHANGED issuing /\ Done(p)
  BY <1>0, <1>1, DoneMove
<1>2. CASE /\ issuing' = [issuing EXCEPT ![call[p].user] = p]
           /\ Goto(p, [call[p] EXCEPT !.pc = "mint"])
  <2> DEFINE h == [call[p] EXCEPT !.pc = "mint"]
  <2>0. call[p] \in Call  BY DEF LinkInv, TypeOK
  <2>1. h.pc = "mint" /\ h.user = call[p].user  BY <2>0 DEF Call
  <2>2. Goto(p, h)  BY <1>2
  <2> HIDE DEF h
  <2>3. call'[p] = h /\ \A q \in Procs \ {p} : call'[q] = call[q]
    BY <2>2 DEF LinkInv, TypeOK, Goto
  <2>4. call[p].user \in Users  BY DEF LinkInv, CallOK, Holder, IssueBegin, At
  <2>5. issuing'[call[p].user] = p  BY <1>2, <2>4 DEF LinkInv, TypeOK
  <2>6. CallOK(p)'
    BY <2>1, <2>3, <2>4, <2>5 DEF CallOK, Asker, Holder, Snapshot, Registrar, At
  <2> QED BY <1>0, <2>3, <2>6, LocksKept, MoveStep
<1> QED BY <1>1, <1>2 DEF IssueBegin

LEMMA IssueConsumeLinks ==
  ASSUME LinkInv, TypeOK', NEW p \in Procs, IssueConsume(p)
  PROVE  LinkInv'
<1> DEFINE S == TokensOf(call[p].user)
           h == [call[p] EXCEPT !.pc = "commit", !.rows = S]
<1>0. call[p] \in Call  BY DEF LinkInv, TypeOK
<1>1. h.pc = "commit" /\ h.user = call[p].user /\ h.rows = S  BY <1>0 DEF Call
<1>2. Goto(p, h) /\ UNCHANGED <<tokens, issuing>>  BY DEF IssueConsume
<1>3. S = {k \in LiveTokens : tokens[k].user = call[p].user}  BY DEF TokensOf
<1> HIDE DEF h, S
<1>4. call'[p] = h /\ \A q \in Procs \ {p} : call'[q] = call[q]
  BY <1>2 DEF LinkInv, TypeOK, Goto
<1>5. Holder(p)'  BY <1>1, <1>2, <1>4 DEF LinkInv, CallOK, Holder, IssueConsume, At
<1>6. Snapshot(p)'  BY <1>1, <1>2, <1>3, <1>4 DEF Snapshot, LiveTokens
<1>7. CallOK(p)'  BY <1>1, <1>4, <1>5, <1>6 DEF CallOK, Asker, Registrar
<1> QED BY <1>2, <1>4, <1>7, MoveStep

\* The new link is its user's only one: the UPDATE has seen the others, and the
\* lock keeps everyone else from issuing one in between.
LEMMA IssueEndLinks ==
  ASSUME LinkInv, TypeOK', NEW p \in Procs, IssueEnd(p)
  PROVE  LinkInv'
<1> DEFINE u == call[p].user
           entry == [NoToken EXCEPT !.st = "live", !.fresh = TRUE, !.user = u]
<1>1. /\ \A q \in Procs \ {p} : call'[q] = call[q]
      /\ call'[p] = Idle
  BY DEF LinkInv, TypeOK, IssueEnd, Done, Goto
<1>2. CallOK(p)'
  BY <1>1 DEF Idle, CallOK, Asker, Holder, Snapshot, Registrar, At
<1>3. ASSUME NEW q \in Procs \ {p}, call[q].pc \in {"mint", "commit"}
      PROVE  issuing'[call[q].user] = issuing[call[q].user] /\ call[q].user # u
  <2>1. Holder(p) /\ Holder(q)  BY DEF LinkInv, CallOK
  <2>2. call[q].user # u  BY <1>3, <2>1 DEF Holder, IssueEnd, At
  <2> QED BY <1>3, <2>2, LocksKept
<1>4. CASE u \notin LiveUsers
  <2>1. UNCHANGED tokens  BY <1>4 DEF IssueEnd
  <2> QED BY <1>1, <1>2, <1>3, <2>1, MoveStep
<1>5. CASE u \in LiveUsers
  <2>1. entry.st = "live" /\ entry.user = u /\ entry.acct = None  BY DEF NoToken
  <2>2. Insert(Without(call[p].rows), entry)  BY <1>5 DEF IssueEnd
  <2> HIDE DEF entry
  <2>3. PICK n \in Tokens : /\ Without(call[p].rows)[n].st = "free"
                            /\ tokens' = [Without(call[p].rows) EXCEPT ![n] = entry]
    <3>1. \A k \in Tokens : k >= k  BY RegistrationAssumption DEF Tokens
    <3> QED BY <2>2, <3>1 DEF Insert
  <2>4. DeadToken.st = "dead"  BY DEF DeadToken, NoToken
  <2>5. tokens'[n] = entry /\ tokens[n].st = "free"
    BY <2>3, <2>4 DEF Without
  <2>6. ASSUME NEW k \in Tokens, k # n
        PROVE  tokens'[k] = IF k \in call[p].rows THEN DeadToken ELSE tokens[k]
    BY <2>3, <2>6 DEF Without
  <2>7. ASSUME NEW k \in Tokens, tokens'[k].st = "live", k # n
        PROVE  tokens[k].st = "live" /\ tokens'[k] = tokens[k] /\ k \notin call[p].rows
    BY <2>4, <2>6, <2>7
  <2>8. \A k \in Tokens : tokens'[k].st = "free" => tokens[k].st = "free"
    BY <2>4, <2>5, <2>6
  <2>9. ASSUME NEW q \in Procs \ {p}  PROVE CallOK(q)'
    <3>1. ASSUME NEW k \in Tokens, tokens'[k].st = "live"
          PROVE  \/ tokens[k].st = "live" /\ tokens'[k] = tokens[k]
                 \/ /\ tokens[k].st = "free"
                    /\ tokens'[k].user # call[q].user \/ ~At(q, "commit")
      BY <1>3, <2>1, <2>5, <2>7, <3>1 DEF At
    <3>2. TypeOK /\ CallOK(q)  BY DEF LinkInv
    <3> QED BY <1>1, <1>3, <2>8, <3>1, <3>2, OtherCall
  <2>10. ASSUME NEW k \in LiveTokens', tokens'[k].acct = None, tokens'[k].user = u
         PROVE  k = n
    <3>1. SUFFICES ASSUME k # n PROVE FALSE  OBVIOUS
    <3>2. k \in Tokens /\ tokens'[k].st = "live"  BY DEF LiveTokens
    <3>3. k \in LiveTokens /\ tokens[k].acct = None /\ tokens[k].user = u /\ k \notin call[p].rows
      BY <2>7, <2>10, <3>1, <3>2 DEF LiveTokens
    <3>4. Snapshot(p) /\ At(p, "commit")  BY DEF LinkInv, CallOK, IssueEnd
    <3> QED BY <3>3, <3>4 DEF Snapshot
  <2>11. OneIssuedLink'
    <3> SUFFICES ASSUME NEW j \in LiveTokens', NEW k \in LiveTokens', tokens'[j].acct = None,
                        tokens'[k].acct = None, tokens'[j].user = tokens'[k].user
                 PROVE  j = k
      BY DEF OneIssuedLink
    <3>1. j \in Tokens /\ k \in Tokens /\ tokens'[j].st = "live" /\ tokens'[k].st = "live"
      BY DEF LiveTokens
    <3>2. CASE tokens'[j].user = u  BY <2>10, <3>2
    <3>3. CASE tokens'[j].user # u
      <4>1. j # n /\ k # n  BY <2>1, <2>5, <3>3
      <4>2. j \in LiveTokens /\ k \in LiveTokens /\ tokens'[j] = tokens[j] /\ tokens'[k] = tokens[k]
        BY <2>7, <3>1, <4>1 DEF LiveTokens
      <4> QED BY <4>2 DEF LinkInv, OneIssuedLink
    <3> QED BY <3>2, <3>3
  <2> QED BY <1>2, <2>9, <2>11 DEF LinkInv
<1> QED BY <1>4, <1>5

LEMMA PendingLinks ==
  ASSUME LinkInv, TypeOK', NEW p \in Procs, PendingInvalidate(p) \/ PendingInsert(p)
  PROVE  LinkInv'
<1>0. call[p].ident \in Accounts
  BY DEF LinkInv, CallOK, Asker, PendingInvalidate, PendingInsert, At
<1>1. CASE PendingInvalidate(p)
  <2> DEFINE h == [call[p] EXCEPT !.pc = "insert"]
             S == {k \in LiveTokens : tokens[k].acct = call[p].ident /\ tokens[k].user = None}
  <2>1. h \in Call /\ h.pc = "insert" /\ h.ident = call[p].ident
    <3>1. call[p] \in Call  BY DEF LinkInv, TypeOK
    <3> QED BY <3>1 DEF Call
  <2>2. S \in SUBSET Tokens  BY DEF LiveTokens
  <2>3. Goto(p, h) /\ tokens' = Without(S) /\ UNCHANGED issuing  BY <1>1 DEF PendingInvalidate
  <2> HIDE DEF h, S
  <2> QED BY <1>0, <2>1, <2>2, <2>3, EasyMove DEF EasyStages
<1>2. CASE PendingInsert(p)
  <2> DEFINE entry == [NoToken EXCEPT !.st = "live", !.fresh = TRUE, !.acct = call[p].ident,
                                    !.code = call[p].code]
  <2>1. entry.st = "live" /\ entry.acct # None
    BY <1>0, RegistrationAssumption DEF NoToken
  <2>2. Insert(tokens, entry) /\ Done(p) /\ UNCHANGED issuing  BY <1>2 DEF PendingInsert
  <2> HIDE DEF entry
  <2>3. PICK n \in Tokens : tokens[n].st = "free" /\ tokens' = [tokens EXCEPT ![n] = entry]
    <3>1. \A k \in Tokens : k >= k  BY RegistrationAssumption DEF Tokens
    <3> QED BY <2>2, <3>1 DEF Insert
  <2>4. ASSUME NEW k \in Tokens
        PROVE  /\ tokens'[k].st = "free" => tokens[k].st = "free"
               /\ tokens'[k] = tokens[k] \/ (tokens[k].st = "free" /\ tokens'[k].acct # None)
    <3>1. CASE k = n  BY <2>1, <2>3, <3>1 DEF LinkInv, TypeOK
    <3>2. CASE k # n
      <4>1. tokens'[k] = tokens[k]  BY <2>3, <3>2 DEF LinkInv, TypeOK
      <4> QED BY <4>1
    <3> QED BY <3>1, <3>2
  <2>5. OneIssuedLink'  BY <2>4, LinksKept DEF LinkInv
  <2>6. /\ \A q \in Procs \ {p} : call'[q] = call[q]
        /\ call'[p] = Idle
    BY <2>2 DEF LinkInv, TypeOK, Done, Goto
  <2>7. ASSUME NEW q \in Procs \ {p}  PROVE CallOK(q)'
    <3>1. TypeOK /\ CallOK(q)  BY DEF LinkInv
    <3> QED BY <2>2, <2>4, <2>6, <3>1, OtherCall
  <2>8. CallOK(p)'
    BY <2>6 DEF Idle, CallOK, Asker, Holder, Snapshot, Registrar, At
  <2> QED BY <2>5, <2>7, <2>8 DEF LinkInv
<1> QED BY <1>1, <1>2

LEMMA RegistrationLinks ==
  ASSUME LinkInv, TypeOK', NEW p \in Procs,
         \/ \E k \in Tokens : RegisterRead(p, k)
         \/ \E e \in Emails, c \in Codes \cup {None} : FormRead(p, e, c)
         \/ CreateUser(p) \/ Challenge(p)
  PROVE  LinkInv'
<1>0. TypeOK  BY DEF LinkInv
<1>1. ASSUME NEW k \in Tokens, RegisterRead(p, k)  PROVE LinkInv'
  <2> DEFINE h == [Idle EXCEPT !.pc = "create", !.ident = tokens[k].acct, !.token = k,
                               !.code = tokens[k].code, !.gated = policy.passkey]
  <2>1. /\ h \in Call /\ h.pc = "create" /\ h.token = k
        /\ h.ident = tokens[k].acct
    BY <1>0 DEF TypeOK, Token, Idle, Call
  <2>2. Goto(p, h) /\ UNCHANGED <<tokens, issuing>>  BY <1>1 DEF RegisterRead
  <2>3. tokens[k].st = "live" /\ tokens[k].acct # None /\ tokens[k].acct \in Accounts
    BY <1>0, <1>1 DEF RegisterRead, LiveTokens, TypeOK, Token
  <2>4. k # None  BY RegistrationAssumption DEF Tokens
  <2> HIDE DEF h
  <2> QED BY <2>1, <2>2, <2>3, <2>4, RegistrarMove
<1>2. ASSUME NEW e \in Emails, NEW c \in Codes \cup {None}, FormRead(p, e, c)  PROVE LinkInv'
  <2> DEFINE h == [Idle EXCEPT !.pc = "create", !.ident = e, !.code = c]
  <2>1. h \in Call /\ h.pc = "create" /\ h.token = None /\ h.ident = e  BY DEF Idle, Call
  <2>2. Goto(p, h) /\ UNCHANGED <<tokens, issuing>>  BY <1>2 DEF FormRead
  <2> HIDE DEF h
  <2> QED BY <2>1, <2>2, RegistrarMove
<1>3. CASE CreateUser(p)
  <2> DEFINE s == IF call[p].ident \in Emails THEN "session"
                  ELSE IF call[p].gated THEN "challenge" ELSE "attach"
  <2>0. UNCHANGED <<tokens, issuing>>  BY <1>3 DEF CreateUser
  <2>1. CASE Done(p)  BY <2>0, <2>1, DoneMove
  <2>2. ASSUME NEW u \in Users, Goto(p, [call[p] EXCEPT !.user = u, !.pc = s])  PROVE LinkInv'
    <3>1. s \in {"session", "challenge", "attach"} /\ (s = "session" <=> call[p].ident \in Emails)
      OBVIOUS
    <3> HIDE DEF s
    <3> DEFINE h == [call[p] EXCEPT !.user = u, !.pc = s]
    <3>0. call[p] \in Call  BY <1>0 DEF TypeOK
    <3>2. h \in Call /\ h.pc = s /\ h.token = call[p].token /\ h.ident = call[p].ident
      BY <3>0, <3>1 DEF Call
    <3>3. Goto(p, h)  BY <2>2
    <3>4. Registrar(p) /\ At(p, "create")  BY <1>3 DEF LinkInv, CallOK, CreateUser
    <3> HIDE DEF h
    <3>5. CASE s = "session"
      BY <2>0, <3>2, <3>3, <3>5, EasyMove DEF EasyStages
    <3>6. CASE s # "session"
      <4>1. call[p].token # None  BY <3>1, <3>4, <3>6 DEF Registrar, At
      <4>2. /\ tokens[call[p].token].st # "free" /\ call[p].ident \in Accounts
            /\ tokens[call[p].token].st = "live" => tokens[call[p].token].acct # None
        BY <3>4, <4>1 DEF Registrar, At
      <4> QED BY <2>0, <3>1, <3>2, <3>3, <3>6, <4>1, <4>2, RegistrarMove
    <3> QED BY <3>5, <3>6
  <2> QED BY <1>3, <2>1, <2>2 DEF CreateUser
<1>4. CASE Challenge(p)
  BY <1>4, DoneMove DEF Challenge
<1> QED BY <1>1, <1>2, <1>3, <1>4

LEMMA AttachLinks ==
  ASSUME LinkInv, TypeOK', NEW p \in Procs, Attach(p)
  PROVE  LinkInv'
<1> DEFINE k == call[p].token
<1>1. /\ k # None => /\ tokens[k].st # "free"
                     /\ tokens[k].st = "live" => tokens[k].acct # None
      /\ k # None
  BY DEF LinkInv, CallOK, Registrar, Attach, At
<1>2. k \in Tokens  BY <1>1 DEF LinkInv, TypeOK, Call
<1>3. tokens[k] \in Token  BY <1>2 DEF LinkInv, TypeOK
<1>4. ASSUME NEW j \in Tokens
      PROVE  /\ tokens'[j].st = tokens[j].st /\ tokens'[j].acct = tokens[j].acct
             /\ tokens[j].st = "live" => tokens'[j].user = tokens[j].user \/ tokens[j].acct # None
  BY <1>1, <1>2, <1>3 DEF Attach, LinkInv, TypeOK, Token
<1>5. OneIssuedLink'  BY <1>4, LinksKept DEF LinkInv
<1>6. /\ \A q \in Procs \ {p} : call'[q] = call[q]
      /\ call'[p] = Idle
      /\ UNCHANGED issuing
  BY DEF LinkInv, TypeOK, Attach, Done, Goto
<1>7. ASSUME NEW q \in Procs \ {p}  PROVE CallOK(q)'
  <2>1. TypeOK /\ CallOK(q)  BY DEF LinkInv
  <2> QED BY <1>4, <1>6, <2>1, OtherCall
<1>8. CallOK(p)'
  BY <1>6 DEF Idle, CallOK, Asker, Holder, Snapshot, Registrar, At
<1> QED BY <1>5, <1>7, <1>8 DEF LinkInv

LEMMA SessionLinks ==
  ASSUME LinkInv, TypeOK', NEW p \in Procs,
         \/ \E u \in Users : PasskeyRead(p, u) \/ AdminLink(p, u)
         \/ \E k \in Tokens : Redeem(p, k)
         \/ PasskeyStore(p) \/ PasskeyClear(p) \/ Session(p)
  PROVE  LinkInv'
<1>0. TypeOK  BY DEF LinkInv
<1>1. ASSUME NEW u \in Users, PasskeyRead(p, u)  PROVE LinkInv'
  <2> DEFINE h == [Idle EXCEPT !.pc = "store", !.user = u, !.token = pending[u]]
  <2>1. h \in Call /\ h.pc = "store"  BY <1>0 DEF TypeOK, Idle, Call
  <2>2. Goto(p, h) /\ UNCHANGED <<tokens, issuing>>  BY <1>1 DEF PasskeyRead
  <2> HIDE DEF h
  <2> QED BY <2>1, <2>2, EasyMove DEF EasyStages
<1>2. ASSUME NEW u \in Users, AdminLink(p, u)  PROVE LinkInv'
  <2> DEFINE h == [Idle EXCEPT !.pc = "issue", !.user = u]
  <2>1. h \in Call /\ h.pc = "issue" /\ h.user = u  BY DEF Idle, Call
  <2>2. Goto(p, h) /\ UNCHANGED <<tokens, issuing>>  BY <1>2 DEF AdminLink
  <2> HIDE DEF h
  <2> QED BY <2>1, <2>2, EasyMove DEF EasyStages
<1>3. ASSUME NEW k \in Tokens, Redeem(p, k)  PROVE LinkInv'
  <2> DEFINE h == [Idle EXCEPT !.pc = "session", !.user = tokens[k].user, !.token = k]
  <2>1. h \in Call /\ h.pc = "session"  BY <1>0 DEF TypeOK, Token, Idle, Call
  <2>2. UNCHANGED call \/ Goto(p, h)  BY <1>3 DEF Redeem
  <2>3. UNCHANGED issuing /\ \E S \in SUBSET Tokens : tokens' = Without(S)  BY <1>3 DEF Redeem
  <2> HIDE DEF h
  <2> QED BY <2>1, <2>2, <2>3, EasyMove, NoCallStep DEF EasyStages
<1>4. CASE PasskeyStore(p)
  <2> DEFINE h == [call[p] EXCEPT !.pc = "clear", !.token = None]
             S == {call[p].token} \cap Tokens
  <2>0. call[p] \in Call  BY <1>0 DEF TypeOK
  <2>1. h \in Call /\ h.pc = "clear"  BY <2>0 DEF Call
  <2>2. Done(p) \/ Goto(p, h)  BY <1>4 DEF PasskeyStore
  <2>3. Without({call[p].token}) = Without(S)  BY DEF Without
  <2>4. UNCHANGED issuing /\ (UNCHANGED tokens \/ tokens' = Without(S))
    BY <1>4, <2>3 DEF PasskeyStore
  <2>5. S \in SUBSET Tokens  OBVIOUS
  <2> HIDE DEF h, S
  <2> QED BY <2>1, <2>2, <2>4, <2>5, EasyMove, DoneMove DEF EasyStages
<1>5. CASE PasskeyClear(p)
  <2> DEFINE h == [call[p] EXCEPT !.pc = "session"]
  <2>0. call[p] \in Call  BY <1>0 DEF TypeOK
  <2>1. h \in Call /\ h.pc = "session"  BY <2>0 DEF Call
  <2>2. Goto(p, h) /\ UNCHANGED <<tokens, issuing>>  BY <1>5 DEF PasskeyClear
  <2> HIDE DEF h
  <2> QED BY <2>1, <2>2, EasyMove DEF EasyStages
<1>6. CASE Session(p)
  BY <1>6, DoneMove DEF Session
<1> QED BY <1>1, <1>2, <1>3, <1>4, <1>5, <1>6

LEMMA SweepLinks ==
  ASSUME LinkInv, TypeOK', NEW p \in Procs,
         SweepBegin(p) \/ SweepSelect(p) \/ SweepDelete(p) \/ Abort(p)
  PROVE  LinkInv'
<1>1. CASE SweepBegin(p)
  <2> DEFINE h == [Idle EXCEPT !.pc = "select"]
  <2>1. h \in Call /\ h.pc = "select"  BY DEF Idle, Call
  <2>2. UNCHANGED call \/ Goto(p, h)  BY <1>1 DEF SweepBegin
  <2>3. UNCHANGED <<tokens, issuing>>  BY <1>1 DEF SweepBegin
  <2> HIDE DEF h
  <2> QED BY <2>1, <2>2, <2>3, EasyMove, NoCallStep DEF EasyStages
<1>2. CASE SweepSelect(p)
  <2> DEFINE S == {u \in LiveUsers : users[u].ident \in Accounts /\ ~users[u].passkey /\ users[u].old}
             h == [Idle EXCEPT !.pc = "delete", !.doomed = S]
  <2>1. S \subseteq Users  BY DEF LiveUsers
  <2>2. Goto(p, h) /\ UNCHANGED <<tokens, issuing>>  BY <1>2 DEF SweepSelect
  <2> HIDE DEF S
  <2>3. h \in Call /\ h.pc = "delete"  BY <2>1 DEF Idle, Call
  <2> HIDE DEF h
  <2> QED BY <2>2, <2>3, EasyMove DEF EasyStages
<1>3. CASE SweepDelete(p)
  <2>1. \E S \in SUBSET Tokens : tokens' = Without(S)  BY <1>3 DEF SweepDelete, LiveTokens
  <2> QED BY <1>3, <2>1, DoneMove DEF SweepDelete
<1>4. CASE Abort(p)
  BY <1>4, DoneMove DEF Abort
<1> QED BY <1>1, <1>2, <1>3, <1>4

LEMMA RestLinks ==
  ASSUME LinkInv, TypeOK',
         \/ BotRestart \/ SweepLockExpires
         \/ \E c \in Codes : ToggleCode(c)
         \/ ChangePolicy \/ RequirePasskey
         \/ \E u \in Users : EditPasskey(u) \/ ChallengeExpires(u) \/ UserAges(u)
         \/ \E k \in Tokens : TokenExpires(k) \/ TokenAges(k)
  PROVE  LinkInv'
<1>1. ASSUME NEW k \in Tokens, TokenAges(k)  PROVE LinkInv'
  <2>1. tokens[k] \in Token  BY DEF LinkInv, TypeOK
  <2>2. ASSUME NEW j \in Tokens
        PROVE  /\ tokens'[j].st = tokens[j].st /\ tokens'[j].acct = tokens[j].acct
               /\ tokens'[j].user = tokens[j].user
    BY <1>1, <2>1 DEF TokenAges, LinkInv, TypeOK, Token
  <2>3. OneIssuedLink'  BY <2>2, LinksKept DEF LinkInv
  <2>4. ASSUME NEW q \in Procs  PROVE CallOK(q)'
    <3>1. TypeOK /\ CallOK(q) /\ UNCHANGED <<call, issuing>>  BY <1>1 DEF LinkInv, TokenAges
    <3> QED BY <2>2, <3>1, OtherCall
  <2> QED BY <2>3, <2>4 DEF LinkInv
<1>2. ASSUME NEW k \in Tokens, TokenExpires(k)  PROVE LinkInv'
  <2>1. \E S \in SUBSET Tokens : tokens' = Without(S)  BY <1>2 DEF TokenExpires
  <2> QED BY <1>2, <2>1, NoCallStep DEF TokenExpires
<1>3. CASE BotRestart \/ SweepLockExpires
  BY <1>3, NoCallStep DEF BotRestart, SweepLockExpires
<1>4. CASE \/ \E c \in Codes : ToggleCode(c)
           \/ ChangePolicy \/ RequirePasskey
  BY <1>4, NoCallStep DEF ToggleCode, ChangePolicy, RequirePasskey, SetPolicy
<1>5. CASE \E u \in Users : EditPasskey(u) \/ ChallengeExpires(u) \/ UserAges(u)
  BY <1>5, NoCallStep DEF EditPasskey, ChallengeExpires, UserAges
<1> QED BY <1>1, <1>2, <1>3, <1>4, <1>5

LEMMA LinkInit == Init => LinkInv
<1> SUFFICES ASSUME Init PROVE LinkInv  OBVIOUS
<1>1. LiveTokens = {}  BY DEF Init, NoToken, LiveTokens
<1>2. \A p \in Procs : CallOK(p)
  BY DEF Init, Idle, CallOK, Asker, Holder, Snapshot, Registrar, At
<1>3. OneIssuedLink  BY <1>1 DEF OneIssuedLink
<1> QED BY <1>2, <1>3, TypeInit DEF LinkInv

LEMMA LinkStep ==
  ASSUME LinkInv, [Next]_vars
  PROVE  LinkInv'
<1>1. TypeOK'  BY TypeStep DEF LinkInv, CallOK
<1>2. CASE UNCHANGED vars
  BY <1>1, <1>2, NoCallStep DEF vars
<1>3. ASSUME NEW p \in Procs, Arrive(p) \/ Serve(p) \/ Abort(p)  PROVE LinkInv'
  BY <1>1, <1>3, BotLinks, IssueBeginLinks, IssueConsumeLinks, IssueEndLinks, PendingLinks,
     RegistrationLinks, AttachLinks, SessionLinks, SweepLinks DEF Arrive, Serve
<1> QED BY <1>1, <1>2, <1>3, RestLinks DEF Next

LEMMA AccountedInit == Init => InvitesAccounted
<1> SUFFICES ASSUME Init PROVE InvitesAccounted  OBVIOUS
<1>1. ASSUME NEW c \in Codes  PROVE RedeemedBy(c) = {}
  BY DEF Init, NoUser, RedeemedBy
<1>2. Cardinality({}) = 0  BY FS_EmptySet
<1>3. ASSUME NEW c \in Codes
      PROVE  /\ uses[c] = Cardinality(RedeemedBy(c))
             /\ uses[c] <= MaxUses[c] /\ uses[c] <= 1
  <2>1. uses[c] = 0  BY DEF Init
  <2>2. MaxUses[c] \in Nat  BY RegistrationAssumption
  <2>3. Cardinality(RedeemedBy(c)) = 0  BY <1>1, <1>2
  <2> QED BY <2>1, <2>2, <2>3
<1> QED BY <1>3 DEF InvitesAccounted

-----------------------------------------------------------------------------
\* The calls and the tables keep their types, and the locks their holders.
THEOREM TypeCorrect == Spec => []TypeOK
<1>1. Spec => []LinkInv  BY LinkInit, LinkStep, PTL DEF Spec
<1>2. LinkInv => TypeOK  BY DEF LinkInv
<1> QED BY <1>1, <1>2, PTL

\* issueLoginToken: of the links issued to a user, one is usable at a time, however
\* many requests and updates issue them at once.
THEOREM LinksSingle == Spec => []OneIssuedLink
<1>1. Spec => []LinkInv  BY LinkInit, LinkStep, PTL DEF Spec
<1>2. LinkInv => OneIssuedLink  BY DEF LinkInv
<1> QED BY <1>1, <1>2, PTL

\* An invite code is used as often as users were registered with it, within its
\* max_uses, and once if its role is elevated, whatever races for its last use.
THEOREM CodesAccounted == Spec => []InvitesAccounted
<1>1. TypeOK /\ InvitesAccounted /\ [Next]_vars => InvitesAccounted'
  BY AccountedStep
<1> QED BY <1>1, AccountedInit, TypeCorrect, PTL DEF Spec

-----------------------------------------------------------------------------
(* A link opens once *)

\* A request that has consumed a link and is about to mint a session for it.
Opener(p) == At(p, "session") /\ call[p].token # None

\* A link that was opened is dead: it has one opener, or one session.
MintInv ==
  /\ \A p \in Procs : At(p, "clear") => call[p].token = None
  /\ \A p \in Procs : Opener(p) =>
       /\ tokens[call[p].token].st = "dead" /\ minted[call[p].token] = 0
       /\ \A q \in Procs : Opener(q) /\ call[q].token = call[p].token => q = p
  /\ \A k \in Tokens : minted[k] # 0 => minted[k] = 1 /\ tokens[k].st = "dead"

DeadStay == \A k \in Tokens : tokens[k].st = "dead" => tokens'[k].st = "dead"

LEMMA WithoutStay ==
  ASSUME TypeOK, NEW S, tokens' = Without(S)
  PROVE  DeadStay
  BY DEF TypeOK, Without, DeadToken, NoToken, DeadStay

\* A new row takes a free id.
LEMMA InsertStay ==
  ASSUME NEW old \in [Tokens -> Token], NEW entry, Insert(old, entry),
         NEW k \in Tokens, old[k].st = "dead"
  PROVE  tokens'[k].st = "dead"
<1>1. PICK n \in Tokens :
        (\A j \in Tokens : old[j].st = "free" <=> j >= n) /\ tokens' = [old EXCEPT ![n] = entry]
  BY DEF Insert
<1>2. n >= n  BY DEF Tokens
<1>3. old[n].st = "free"  BY <1>1, <1>2
<1>4. k # n  BY <1>3
<1> QED BY <1>1, <1>4

LEMMA DeadStep ==
  ASSUME LinkInv, [Next]_vars
  PROVE  DeadStay
<1> USE DEF LinkInv
<1>1. CASE UNCHANGED tokens
  BY <1>1 DEF DeadStay
<1>2. CASE \E S : tokens' = Without(S)
  BY <1>2, WithoutStay
<1>3. ASSUME NEW p \in Procs, IssueEnd(p)  PROVE DeadStay
  <2> DEFINE u == call[p].user
             entry == [NoToken EXCEPT !.st = "live", !.fresh = TRUE, !.user = u]
  <2>1. CASE u \in LiveUsers
    <3>1. Insert(Without(call[p].rows), entry)  BY <1>3, <2>1 DEF IssueEnd
    <3>2. Without(call[p].rows) \in [Tokens -> Token]  BY WithoutType
    <3>3. ASSUME NEW k \in Tokens, tokens[k].st = "dead"
          PROVE  Without(call[p].rows)[k].st = "dead"
      BY <3>3 DEF Without, DeadToken, NoToken
    <3> HIDE DEF entry
    <3> QED BY <3>1, <3>2, <3>3, InsertStay DEF DeadStay
  <2>2. CASE u \notin LiveUsers
    BY <1>1, <1>3, <2>2 DEF IssueEnd
  <2> QED BY <2>1, <2>2
<1>4. ASSUME NEW p \in Procs, PendingInsert(p)  PROVE DeadStay
  <2> DEFINE entry == [NoToken EXCEPT !.st = "live", !.fresh = TRUE, !.acct = call[p].ident,
                                    !.code = call[p].code]
  <2>1. Insert(tokens, entry)  BY <1>4 DEF PendingInsert
  <2> HIDE DEF entry
  <2> QED BY <2>1, InsertStay DEF TypeOK, DeadStay
<1>5. ASSUME NEW p \in Procs, Attach(p)  PROVE DeadStay
  <2> DEFINE k == call[p].token
             v == IF tokens[k].st = "live" THEN call[p].user ELSE tokens[k].user
  <2>1. CASE call[p].user \in LiveUsers
    <3>1. tokens' = [tokens EXCEPT ![k].user = v]  BY <1>5, <2>1 DEF Attach
    <3> HIDE DEF v
    <3> QED BY <3>1 DEF TypeOK, Token, DeadStay
  <2>2. CASE call[p].user \notin LiveUsers
    BY <1>1, <1>5, <2>2 DEF Attach
  <2> QED BY <2>1, <2>2
<1>6. ASSUME NEW k \in Tokens, TokenAges(k)  PROVE DeadStay
  BY <1>6 DEF TokenAges, TypeOK, Token, DeadStay
<1>7. ASSUME NEW p \in Procs, NEW k \in Tokens, Redeem(p, k)  PROVE DeadStay
  BY <1>2, <1>7 DEF Redeem
<1>8. ASSUME NEW p \in Procs, PendingInvalidate(p) \/ PasskeyStore(p) \/ SweepDelete(p)
      PROVE  DeadStay
  BY <1>1, <1>2, <1>8 DEF PendingInvalidate, PasskeyStore, SweepDelete
<1>9. ASSUME NEW k \in Tokens, TokenExpires(k)  PROVE DeadStay
  BY <1>2, <1>9 DEF TokenExpires
<1>10. ASSUME NEW p \in Procs,
          \/ \E t \in Accounts : Start(p, t) \/ \E c \in Codes : CodeMessage(p, t, c)
          \/ \E k \in Tokens : RegisterRead(p, k)
          \/ \E e \in Emails, c \in Codes \cup {None} : FormRead(p, e, c)
          \/ \E u \in Users : PasskeyRead(p, u) \/ AdminLink(p, u)
          \/ SweepBegin(p) \/ Abort(p)
          \/ IssueBegin(p) \/ IssueConsume(p) \/ CreateUser(p) \/ Challenge(p)
          \/ PasskeyClear(p) \/ Session(p) \/ SweepSelect(p)
      PROVE  DeadStay
  BY <1>1, <1>10 DEF Start, CodeMessage, RegisterRead, FormRead, PasskeyRead, AdminLink, SweepBegin, Abort,
     IssueBegin, IssueConsume, CreateUser, Challenge, PasskeyClear, Session, SweepSelect
<1>11. CASE \/ \E c \in Codes : ToggleCode(c)
            \/ \E u \in Users : EditPasskey(u) \/ ChallengeExpires(u) \/ UserAges(u)
            \/ ChangePolicy \/ RequirePasskey \/ BotRestart \/ SweepLockExpires \/ UNCHANGED vars
  BY <1>1, <1>11 DEF ToggleCode, EditPasskey, ChallengeExpires, UserAges, ChangePolicy, RequirePasskey,
     SetPolicy, BotRestart, SweepLockExpires, vars
<1> QED
  BY <1>3, <1>4, <1>5, <1>6, <1>7, <1>8, <1>9, <1>10, <1>11 DEF Next, Arrive, Serve

\* A step that mints nothing and makes no opener.
LEMMA MintKept ==
  ASSUME MintInv, DeadStay, TypeOK, minted' = minted,
         NEW p \in Procs, NEW h \in Call, Goto(p, h),
         h.pc = "session" => h.token = None,
         h.pc = "clear" => h.token = None
  PROVE  MintInv'
<1>1. call'[p] = h /\ \A q \in Procs \ {p} : call'[q] = call[q]
  BY DEF TypeOK, Goto
<1>2. ~Opener(p)'  BY <1>1 DEF Opener, At
<1>3. ASSUME NEW q \in Procs, Opener(q)'
      PROVE  q # p /\ Opener(q) /\ call'[q] = call[q] /\ call[q].token \in Tokens
  BY <1>1, <1>2, <1>3 DEF Opener, At, TypeOK, Call
<1>4. \A q \in Procs : At(q, "clear")' => call'[q].token = None
  BY <1>1 DEF At, MintInv
<1>5. \A k \in Tokens : minted'[k] # 0 => minted'[k] = 1 /\ tokens'[k].st = "dead"
  BY DEF MintInv, DeadStay
<1>6. ASSUME NEW q \in Procs, Opener(q)'
      PROVE  /\ tokens'[call'[q].token].st = "dead" /\ minted'[call'[q].token] = 0
             /\ \A r \in Procs : Opener(r)' /\ call'[r].token = call'[q].token => r = q
  BY <1>3, <1>6 DEF MintInv, DeadStay
<1> QED BY <1>4, <1>5, <1>6 DEF MintInv

LEMMA MintRest ==
  ASSUME MintInv, DeadStay, TypeOK, UNCHANGED <<minted, call>>
  PROVE  MintInv'
<1>1. ASSUME NEW q \in Procs, Opener(q)'
      PROVE  Opener(q) /\ call[q].token \in Tokens
  BY <1>1 DEF Opener, At, TypeOK, Call
<1> QED BY <1>1 DEF MintInv, DeadStay, Opener, At

\* The link is consumed: its one opener is this request.
LEMMA RedeemMints ==
  ASSUME LinkInv, MintInv, DeadStay, NEW p \in Procs, NEW k \in Tokens, Redeem(p, k)
  PROVE  MintInv'
<1> USE DEF LinkInv
<1>1. CASE tokens[k].user = None
  BY <1>1, MintRest DEF Redeem
<1>2. CASE tokens[k].user # None
  <2> DEFINE h == [Idle EXCEPT !.pc = "session", !.user = tokens[k].user, !.token = k]
  <2>1. call'[p] = h /\ \A q \in Procs \ {p} : call'[q] = call[q]
    BY <1>2 DEF TypeOK, Goto, Redeem
  <2>2. h.pc = "session" /\ h.token = k
    BY DEF Idle
  <2>3. tokens[k].st = "live" /\ tokens'[k].st = "dead"
    BY DEF Redeem, Without, DeadToken, NoToken, LiveTokens
  <2>4. minted' = minted /\ minted[k] = 0
    BY <2>3 DEF Redeem, MintInv, TypeOK
  <2>5. \A q \in Procs : Opener(q) => call[q].token # k
    BY <2>3 DEF MintInv
  <2> HIDE DEF h
  <2>6. ASSUME NEW q \in Procs \ {p}, Opener(q)'
        PROVE  Opener(q) /\ call'[q] = call[q] /\ call[q].token \in Tokens /\ call[q].token # k
    BY <2>1, <2>5, <2>6 DEF Opener, At, TypeOK, Call
  <2>7. call'[p].token = k /\ ~At(p, "clear")'
    BY <2>1, <2>2 DEF At
  <2>8. \A q \in Procs : At(q, "clear")' => call'[q].token = None
    BY <2>1, <2>7 DEF At, MintInv
  <2>9. \A j \in Tokens : minted'[j] # 0 => minted'[j] = 1 /\ tokens'[j].st = "dead"
    BY <2>4 DEF MintInv, DeadStay
  <2>10. ASSUME NEW q \in Procs, Opener(q)'
         PROVE  /\ tokens'[call'[q].token].st = "dead" /\ minted'[call'[q].token] = 0
                /\ \A r \in Procs : Opener(r)' /\ call'[r].token = call'[q].token => r = q
    <3>1. CASE q = p
      BY <2>3, <2>4, <2>6, <2>7, <3>1
    <3>2. CASE q # p
      BY <2>4, <2>6, <2>7, <2>10, <3>2 DEF MintInv, DeadStay
    <3> QED BY <3>1, <3>2
  <2> QED BY <2>8, <2>9, <2>10 DEF MintInv
<1> QED BY <1>1, <1>2

\* The session is minted, and the request is over.
LEMMA SessionMints ==
  ASSUME LinkInv, MintInv, DeadStay, NEW p \in Procs, Session(p)
  PROVE  MintInv'
<1> USE DEF LinkInv
<1> DEFINE k == call[p].token
<1>1. CASE minted' = minted
  <2>1. Goto(p, Idle) /\ Idle.pc = "idle"  BY DEF Session, Done, Idle
  <2> QED BY <1>1, <2>1, MintKept, Records
<1>2. CASE minted' = [minted EXCEPT ![k] = @ + 1] /\ k # None
  <2>1. Opener(p) /\ k \in Tokens  BY <1>2 DEF Session, Opener, TypeOK, Call
  <2>2. minted[k] = 0 /\ tokens[k].st = "dead"  BY <2>1 DEF MintInv
  <2>3. minted'[k] = 1 /\ \A j \in Tokens \ {k} : minted'[j] = minted[j]
    BY <1>2, <2>1, <2>2 DEF TypeOK
  <2>4. call'[p].pc = "idle" /\ \A q \in Procs \ {p} : call'[q] = call[q]
    BY DEF Session, Done, Goto, Idle, TypeOK
  <2>5. ASSUME NEW q \in Procs, Opener(q)'
        PROVE  q # p /\ Opener(q) /\ call'[q] = call[q] /\ call[q].token \in Tokens \ {k}
    <3>1. q # p /\ Opener(q) /\ call'[q] = call[q]  BY <2>4, <2>5 DEF Opener, At
    <3>2. call[q].token # k  BY <2>1, <3>1 DEF MintInv
    <3> QED BY <3>1, <3>2 DEF Opener, TypeOK, Call
  <2>6. \A q \in Procs : At(q, "clear")' => call'[q].token = None
    BY <2>4 DEF At, MintInv
  <2>7. \A j \in Tokens : minted'[j] # 0 => minted'[j] = 1 /\ tokens'[j].st = "dead"
    BY <2>2, <2>3 DEF MintInv, DeadStay
  <2>8. ASSUME NEW q \in Procs, Opener(q)'
        PROVE  /\ tokens'[call'[q].token].st = "dead" /\ minted'[call'[q].token] = 0
               /\ \A r \in Procs : Opener(r)' /\ call'[r].token = call'[q].token => r = q
    BY <2>3, <2>5, <2>8 DEF MintInv, DeadStay
  <2> QED BY <2>6, <2>7, <2>8 DEF MintInv
<1> QED BY <1>1, <1>2 DEF Session

LEMMA MintStep ==
  ASSUME LinkInv, MintInv, [Next]_vars
  PROVE  MintInv'
<1> USE DEF LinkInv
<1>1. DeadStay  BY DeadStep
<1>2. ASSUME NEW p \in Procs, NEW h \in Call, Goto(p, h), h.pc \notin {"session", "clear"}, minted' = minted
      PROVE  MintInv'
  BY <1>1, <1>2, MintKept
<1>3. ASSUME NEW p \in Procs, Done(p), minted' = minted  PROVE MintInv'
  BY <1>2, <1>3, Records DEF Done, Idle
<1>4. ASSUME call' = call, minted' = minted  PROVE MintInv'
  BY <1>1, <1>4, MintRest
<1>5. ASSUME NEW p \in Procs, NEW t \in Accounts, NEW c \in Codes, CodeMessage(p, t, c)
      PROVE  MintInv'
  <2>2. [Idle EXCEPT !.pc = "invalidate", !.ident = t, !.code = c] \in Call
    BY DEF Idle, Call
  <2>3. \A u \in Users : [Idle EXCEPT !.pc = "issue", !.user = u] \in Call
    BY DEF Idle, Call
  <2>4. minted' = minted  BY <1>5 DEF CodeMessage
  <2>5. CASE \E u \in Users : Goto(p, [Idle EXCEPT !.pc = "issue", !.user = u])
    BY <1>2, <2>3, <2>4, <2>5 DEF Idle
  <2>7. CASE Goto(p, [Idle EXCEPT !.pc = "invalidate", !.ident = t, !.code = c])
    BY <1>2, <2>2, <2>4, <2>7 DEF Idle
  <2> QED BY <1>4, <1>5, <2>4, <2>5, <2>7 DEF CodeMessage, Known, LiveUsers
<1>6. ASSUME NEW p \in Procs, Abort(p) \/ IssueBegin(p) \/ IssueConsume(p) \/ IssueEnd(p) \/ PendingInvalidate(p)
               \/ PendingInsert(p) \/ Challenge(p) \/ Attach(p) \/ SweepSelect(p) \/ SweepDelete(p)
      PROVE  MintInv'
  <2>1. call[p] \in Call  BY DEF TypeOK
  <2>2. \A pc \in {"mint", "insert"} : [call[p] EXCEPT !.pc = pc] \in Call /\ [call[p] EXCEPT !.pc = pc].pc = pc
    BY <2>1 DEF Call
  <2> DEFINE T == TokensOf(call[p].user)
             D == {u \in LiveUsers : users[u].ident \in Accounts /\ ~users[u].passkey /\ users[u].old}
             h1 == [call[p] EXCEPT !.pc = "commit", !.rows = T]
             h2 == [Idle EXCEPT !.pc = "delete", !.doomed = D]
  <2>3. T \subseteq Tokens /\ D \subseteq Users  BY DEF TokensOf, LiveTokens, LiveUsers
  <2> HIDE DEF T, D
  <2>4. h1 \in Call /\ h1.pc = "commit"  BY <2>1, <2>3 DEF Call
  <2>5. h2 \in Call /\ h2.pc = "delete"  BY <2>3 DEF Call, Idle
  <2> HIDE DEF h1, h2
  <2>6. minted' = minted
    BY <1>6 DEF Abort, IssueBegin, IssueConsume, IssueEnd, PendingInvalidate, PendingInsert, Challenge, Attach,
       SweepSelect, SweepDelete
  <2>7. \/ Done(p)
        \/ \E pc \in {"mint", "insert"} : Goto(p, [call[p] EXCEPT !.pc = pc])
        \/ Goto(p, h1) \/ Goto(p, h2)
    BY <1>6 DEF h1, h2, T, D, Abort, IssueBegin, IssueConsume, IssueEnd, PendingInvalidate, PendingInsert, Challenge,
       Attach, SweepSelect, SweepDelete
  <2> QED BY <1>2, <1>3, <2>2, <2>4, <2>5, <2>6, <2>7
<1>7. ASSUME NEW p \in Procs, NEW k \in Tokens, RegisterRead(p, k)  PROVE MintInv'
  <2> DEFINE h == [Idle EXCEPT !.pc = "create", !.ident = tokens[k].acct, !.token = k,
                               !.code = tokens[k].code, !.gated = policy.passkey]
  <2>1. tokens[k] \in Token /\ policy.passkey \in BOOLEAN  BY DEF TypeOK
  <2>2. h \in Call /\ h.pc = "create"  BY <2>1 DEF Idle, Call, Token
  <2>3. Goto(p, h) /\ minted' = minted  BY <1>7 DEF RegisterRead
  <2> HIDE DEF h
  <2> QED BY <1>2, <2>2, <2>3
<1>8. ASSUME NEW p \in Procs, NEW e \in Emails, NEW c \in Codes \cup {None}, FormRead(p, e, c)  PROVE MintInv'
  <2>1. [Idle EXCEPT !.pc = "create", !.ident = e, !.code = c] \in Call  BY DEF Idle, Call
  <2> QED BY <1>2, <1>8, <2>1 DEF FormRead, Idle
<1>9. ASSUME NEW p \in Procs, NEW u \in Users, PasskeyRead(p, u) \/ AdminLink(p, u)  PROVE MintInv'
  <2>1. [Idle EXCEPT !.pc = "store", !.user = u, !.token = pending[u]] \in Call
    BY DEF Idle, Call, TypeOK
  <2>2. [Idle EXCEPT !.pc = "issue", !.user = u] \in Call
    BY DEF Idle, Call
  <2> QED BY <1>2, <1>9, <2>1, <2>2 DEF PasskeyRead, AdminLink, Idle
<1>10. ASSUME NEW p \in Procs, SweepBegin(p)  PROVE MintInv'
  <2>1. [Idle EXCEPT !.pc = "select"] \in Call  BY DEF Idle, Call
  <2> QED BY <1>2, <1>4, <1>10, <2>1 DEF SweepBegin, Idle
<1>11. ASSUME NEW p \in Procs, CreateUser(p)  PROVE MintInv'
  <2>1. CASE Done(p)
    BY <1>3, <1>11, <2>1 DEF CreateUser
  <2>2. CASE ~Done(p)
    <3> DEFINE pc == IF call[p].ident \in Emails THEN "session"
                     ELSE IF call[p].gated THEN "challenge" ELSE "attach"
    <3>1. PICK u \in Users : Goto(p, [call[p] EXCEPT !.user = u, !.pc = pc])
      BY <1>11, <2>2 DEF CreateUser
    <3> DEFINE h == [call[p] EXCEPT !.user = u, !.pc = pc]
    <3>2. call[p] \in Call  BY DEF TypeOK
    <3>3. h \in Call /\ h.pc = pc /\ h.token = call[p].token  BY <3>2 DEF Call
    <3>4. At(p, "create") /\ minted' = minted  BY <1>11 DEF CreateUser
    <3>5. pc = "session" => call[p].token = None
      BY <3>4, RegistrationAssumption DEF CallOK, Registrar, At
    <3>6. Goto(p, h)  BY <3>1
    <3>7. h.pc # "clear" /\ (h.pc = "session" => h.token = None)
      BY <3>3, <3>5
    <3> HIDE DEF h
    <3> QED BY <1>1, <3>3, <3>4, <3>6, <3>7, MintKept
  <2> QED BY <2>1, <2>2
<1>12. ASSUME NEW p \in Procs, PasskeyStore(p) \/ PasskeyClear(p)  PROVE MintInv'
  <2>1. call[p] \in Call /\ minted' = minted  BY <1>12 DEF TypeOK, PasskeyStore, PasskeyClear
  <2> DEFINE h1 == [call[p] EXCEPT !.pc = "clear", !.token = None]
             h2 == [call[p] EXCEPT !.pc = "session"]
  <2>2. h1 \in Call /\ h1.token = None  BY <2>1 DEF Call
  <2>3. h2 \in Call /\ h2.pc = "session" /\ h2.token = call[p].token  BY <2>1 DEF Call
  <2>4. Done(p) \/ Goto(p, h1) \/ (Goto(p, h2) /\ At(p, "clear"))
    BY <1>12 DEF PasskeyStore, PasskeyClear
  <2>5. At(p, "clear") => call[p].token = None  BY DEF MintInv
  <2> HIDE DEF h1, h2
  <2> QED BY <1>1, <1>3, <2>1, <2>2, <2>3, <2>4, <2>5, MintKept
<1>13. ASSUME NEW p \in Procs, NEW k \in Tokens, Redeem(p, k)  PROVE MintInv'
  BY <1>1, <1>13, RedeemMints
<1>14. ASSUME NEW p \in Procs, Session(p)  PROVE MintInv'
  BY <1>1, <1>14, SessionMints
<1>15. CASE \/ \E c \in Codes : ToggleCode(c)
            \/ \E u \in Users : EditPasskey(u) \/ ChallengeExpires(u) \/ UserAges(u)
            \/ \E k \in Tokens : TokenExpires(k) \/ TokenAges(k)
            \/ ChangePolicy \/ RequirePasskey \/ BotRestart \/ SweepLockExpires \/ UNCHANGED vars
  BY <1>4, <1>15 DEF ToggleCode, EditPasskey, ChallengeExpires, UserAges, TokenExpires, TokenAges, ChangePolicy,
     RequirePasskey, SetPolicy, BotRestart, SweepLockExpires, vars
<1>16. ASSUME NEW p \in Procs, NEW t \in Accounts, Start(p, t)  PROVE MintInv'
  <2>1. [Idle EXCEPT !.pc = "invalidate", !.ident = t] \in Call
    BY DEF Idle, Call
  <2>2. \A u \in Users : [Idle EXCEPT !.pc = "issue", !.user = u] \in Call
    BY DEF Idle, Call
  <2>3. minted' = minted  BY <1>16 DEF Start
  <2>4. CASE \E u \in Users : Goto(p, [Idle EXCEPT !.pc = "issue", !.user = u])
    BY <1>2, <2>2, <2>3, <2>4 DEF Idle
  <2>5. CASE Goto(p, [Idle EXCEPT !.pc = "invalidate", !.ident = t])
    BY <1>2, <2>1, <2>3, <2>5 DEF Idle
  <2> QED BY <1>4, <1>16, <2>3, <2>4, <2>5 DEF Start, Known, LiveUsers
<1> QED
  BY <1>5, <1>6, <1>7, <1>8, <1>9, <1>10, <1>11, <1>12, <1>13, <1>14, <1>15, <1>16 DEF Next, Arrive, Serve

\* redeemLoginToken's one conditional UPDATE: a link opens one session, whoever
\* opens it again, wherever, and whichever requests die in between.
THEOREM LinkOpensOnce == Spec => []LinkMintsOnce
<1>1. Init => MintInv
  BY DEF Init, MintInv, Opener, At, Idle
<1>2. LinkInv /\ MintInv /\ [Next]_vars => LinkInv' /\ MintInv'
  BY LinkStep, MintStep
<1>3. LinkInv /\ MintInv => LinkMintsOnce
  BY DEF LinkInv, TypeOK, MintInv, LinkMintsOnce
<1> QED BY <1>1, <1>2, <1>3, LinkInit, PTL DEF Spec

-----------------------------------------------------------------------------
(* Bots *)

\* Row and uploads have their fields; which values those have is not used.
Fields == {"pc", "dk", "dev", "keys", "seen", "n", "mine"}
Shapes ==
  /\ DOMAIN row = {"st", "dev", "active"}
  /\ DOMAIN up = Loops
  /\ \A w \in Loops : DOMAIN up[w] = Fields

Raced == "raced" \in odd

\* Upload w has read the row as pending and not yet written it.
Pends(w) == up[w].pc \in {"device", "state"} /\ up[w].seen = "pending"

UploadsOnFile == \A w \in Loops : Pends(w) /\ up[w].pc = "state" /\ ~Raced => up[w].dev \in devices
NoneDisabled == \A w \in Loops : Pends(w) /\ ~Raced => row.st # "disabled"

PairInv == Shapes /\ UploadsOnFile /\ NoneDisabled /\ ReadyHasDevice

-----------------------------------------------------------------------------

\* No upload is under way and no bot is ready at first.
LEMMA PairInit ==
  ASSUME BotsInit
  PROVE  PairInv
BY BotsAssumption DEF BotsInit, PairInv, Shapes, UploadsOnFile, NoneDisabled, ReadyHasDevice, Pends, NoUpload, Loops, Fields

\* Steps that keep the row, the devices and what the uploads have read;
\* "raced" is never taken back.
LEMMA PairUntouched ==
  ASSUME PairInv, UNCHANGED <<row, devices>>, odd \subseteq odd', Shapes',
         \A w \in Loops : Pends(w)' => Pends(w) /\ up'[w].pc = up[w].pc /\ up'[w].dev = up[w].dev
  PROVE  PairInv'
BY DEF PairInv, UploadsOnFile, NoneDisabled, ReadyHasDevice, Raced

\* A step that puts a body, an answer or nothing in the place of upload w.
LEMMA PairReplaced ==
  ASSUME PairInv, UNCHANGED <<row, devices>>, odd \subseteq odd', NEW w \in Loops,
         NEW u, Uploads(w, u), u.pc \in {"idle", "auth"}, DOMAIN u = Fields
  PROVE  PairInv'
<1>1. up'[w] = u /\ (\A v \in Loops \ {w} : up'[v] = up[v]) /\ DOMAIN up' = Loops
  BY DEF Uploads, PairInv, Shapes
<1>2. Shapes'
  BY <1>1 DEF PairInv, Shapes, Fields
<1>3. \A v \in Loops : Pends(v)' => v # w
  BY <1>1 DEF Pends
<1>4. QED
  BY <1>1, <1>2, <1>3, PairUntouched DEF Pends

LEMMA BodyShape ==
  ASSUME NEW m
  PROVE  /\ Body(m).pc = "auth" /\ DOMAIN Body(m) = Fields
         /\ NoUpload.pc = "idle" /\ DOMAIN NoUpload = Fields
BY DEF Body, NoUpload, Fields

-----------------------------------------------------------------------------

\* The handler of keys/upload.
LEMMA UploadPairs ==
  ASSUME PairInv, NEW w \in Loops, UpAuth(w) \/ UpDevice(w) \/ UpState(w) \/ UpKeys(w) \/ UpDrop(w)
  PROVE  PairInv'
<1>1. CASE UpAuth(w)
  <2>1. /\ DOMAIN up' = Loops /\ (\A v \in Loops \ {w} : up'[v] = up[v])
        /\ up'[w] = IF ~Auth \/ (~up[w].dk /\ row.dev = Nothing) THEN [up[w] EXCEPT !.pc = "failed"]
                    ELSE [up[w] EXCEPT !.pc = IF up[w].dk THEN "device" ELSE "keys",
                                       !.seen = row.st, !.dev = IF up[w].dk THEN up[w].dev ELSE row.dev]
        /\ UNCHANGED <<row, devices, odd>>
    BY <1>1 DEF UpAuth, Uploads, PairInv, Shapes, server, hist
  <2>2. Shapes' /\ \A v \in Loops \ {w} : up'[v] = up[v]
    <3>1. DOMAIN up'[w] = DOMAIN up[w]
      BY <2>1
    <3>2. QED
      BY <2>1, <3>1 DEF PairInv, Shapes
  <2>3. up'[w].pc # "state" /\ (Pends(w)' => row.st = "pending")
    BY <2>1 DEF PairInv, Shapes, Pends
  <2>4. QED
    BY <2>1, <2>2, <2>3 DEF PairInv, UploadsOnFile, NoneDisabled, ReadyHasDevice, Raced, Pends
<1>2. CASE UpDevice(w)
  <2>1. /\ up[w].pc = "device"
        /\ DOMAIN up' = Loops /\ (\A v \in Loops \ {w} : up'[v] = up[v]) /\ up'[w] = [up[w] EXCEPT !.pc = "state"]
        /\ devices' = devices \cup {up[w].dev}
        /\ UNCHANGED <<row, odd>>
    BY <1>2 DEF UpDevice, Uploads, PairInv, Shapes, hist
  <2>2. Shapes' /\ (\A v \in Loops \ {w} : up'[v] = up[v]) /\ up'[w].dev = up[w].dev /\ up'[w].seen = up[w].seen
    <3>1. DOMAIN up'[w] = DOMAIN up[w]
      BY <2>1
    <3>2. up'[w].dev = up[w].dev /\ up'[w].seen = up[w].seen
      BY <2>1 DEF PairInv, Shapes, Fields
    <3>3. QED
      BY <2>1, <3>1, <3>2 DEF PairInv, Shapes
  <2>3. \A v \in Loops : Pends(v)' => Pends(v) /\ up'[v].dev = up[v].dev
    BY <2>1, <2>2 DEF Pends
  <2>4. \A v \in Loops : up'[v].pc = "state" => v = w \/ up[v].pc = "state"
    BY <2>2
  <2>5. QED
    BY <2>1, <2>2, <2>3, <2>4 DEF PairInv, UploadsOnFile, NoneDisabled, ReadyHasDevice, Raced
<1>3. CASE UpState(w)
  <2>1. /\ up[w].pc = "state" /\ DOMAIN up' = Loops /\ (\A v \in Loops \ {w} : up'[v] = up[v]) /\ up'[w] = [up[w] EXCEPT !.pc = "keys"]
        /\ row' = IF up[w].seen = "pending" THEN [row EXCEPT !.st = "ready", !.dev = up[w].dev] ELSE row
        /\ UNCHANGED <<devices, odd>>
    BY <1>3 DEF UpState, Uploads, PairInv, Shapes, hist
  <2>2. Shapes' /\ (\A v \in Loops \ {w} : up'[v] = up[v]) /\ up'[w].pc = "keys"
    <3>1. DOMAIN up'[w] = DOMAIN up[w] /\ DOMAIN row' = DOMAIN row
      BY <2>1
    <3>2. up'[w].pc = "keys"
      BY <2>1 DEF PairInv, Shapes, Fields
    <3>3. QED
      BY <2>1, <3>1, <3>2 DEF PairInv, Shapes
  <2>3. IF up[w].seen = "pending" THEN row'.st = "ready" /\ row'.dev = up[w].dev ELSE row' = row
    BY <2>1 DEF PairInv, Shapes, Fields
  <2>4. \A v \in Loops : Pends(v)' => Pends(v) /\ up'[v] = up[v]
    BY <2>2 DEF Pends
  <2>5. UploadsOnFile' /\ NoneDisabled'
    BY <2>1, <2>3, <2>4 DEF PairInv, UploadsOnFile, NoneDisabled, Raced
  <2>6. up[w].seen = "pending" /\ ~Raced => up[w].dev \in devices
    BY <2>1 DEF PairInv, UploadsOnFile, Pends
  <2>7. QED
    BY <2>1, <2>2, <2>3, <2>5, <2>6 DEF PairInv, ReadyHasDevice, Raced
<1>4. CASE UpKeys(w)
  <2>1. DOMAIN up' = Loops /\ (\A v \in Loops \ {w} : up'[v] = up[v]) /\ up'[w] = [up[w] EXCEPT !.pc = "done"] /\ UNCHANGED <<row, devices, odd>>
    BY <1>4 DEF UpKeys, Uploads, PairInv, Shapes, hist
  <2>2. Shapes' /\ (\A v \in Loops \ {w} : up'[v] = up[v]) /\ up'[w].pc = "done"
    BY <2>1 DEF PairInv, Shapes, Fields
  <2>3. QED
    BY <2>1, <2>2, PairUntouched DEF Pends
<1>5. CASE UpDrop(w)
  BY <1>5, PairReplaced, BodyShape DEF UpDrop, server, hist
<1>6. QED
  BY <1>1, <1>2, <1>3, <1>4, <1>5

\* The process: what it starts as an upload, or takes the answer of.
LEMMA ProcessPairs ==
  ASSUME PairInv, Create \/ Paired \/ Crash \/ SyncReceive \/ SyncUploaded \/ ReplyDrain \/ ReplyUploaded
  PROVE  PairInv'
<1> USE DEF Flag
<1>1. CASE Create
  BY <1>1, PairReplaced, BodyShape DEF Create, server, hist, Loops
<1>2. CASE Paired
  BY <1>2, PairReplaced, BodyShape DEF Paired, server, Loops
<1>3. CASE Crash
  <2>1. /\ up' = [w \in Loops |-> IF up[w].pc = "idle" THEN up[w] ELSE [up[w] EXCEPT !.mine = FALSE]]
        /\ UNCHANGED <<row, devices>> /\ odd \subseteq odd'
    BY <1>3 DEF Crash, server
  <2>2. Shapes' /\ \A w \in Loops : up'[w].pc = up[w].pc /\ up'[w].dev = up[w].dev /\ up'[w].seen = up[w].seen
    BY <2>1 DEF PairInv, Shapes, Fields
  <2>3. QED
    BY <2>1, <2>2, PairUntouched DEF Pends
<1>4. CASE SyncReceive
  <2>1. PICK u \in {Body(mach'), up["sync"]} : Uploads("sync", u) /\ UNCHANGED <<row, devices, odd>> /\ up["sync"] = NoUpload
    BY <1>4 DEF SyncReceive, server, hist
  <2>2. QED
    BY <2>1, PairReplaced, BodyShape DEF Loops
<1>5. CASE SyncUploaded
  BY <1>5, PairReplaced, BodyShape DEF SyncUploaded, server, Loops
<1>6. CASE ReplyDrain
  <2>1. CASE Uploads("reply", Body(mach))
    BY <1>6, <2>1, PairReplaced, BodyShape DEF ReplyDrain, server, hist, Loops
  <2>2. CASE UNCHANGED up
    BY <1>6, <2>2, PairUntouched DEF ReplyDrain, server, hist, PairInv, Shapes, Pends
  <2>3. QED
    BY <1>6, <2>1, <2>2 DEF ReplyDrain, NoSend
<1>7. CASE ReplyUploaded
  BY <1>7, PairReplaced, BodyShape DEF ReplyUploaded, server, Loops
<1>8. QED
  BY <1>1, <1>2, <1>3, <1>4, <1>5, <1>6, <1>7

\* The administrator: a step that falls into an upload is noted as a race.
LEMMA AdminPairs ==
  ASSUME PairInv, Enable \/ Disable \/ Rotate \/ Suspend
  PROVE  PairInv'
<1>1. /\ UNCHANGED up
      /\ odd \subseteq odd' /\ ((\E w \in Loops : Pends(w)) => "raced" \in odd')
  BY DEF Enable, Disable, Rotate, Suspend, AdminDone, Flag, Pairing, Pends, process
<1>2. (\E w \in Loops : Pends(w)') => Raced'
  BY <1>1 DEF Pends, Raced
<1>3. \/ devices' = devices /\ row'.dev = row.dev /\ (row'.st = "ready" => row.st = "ready")
      \/ row'.st = "pending"
  <2>1. CASE Rotate
    BY <2>1 DEF Rotate, PairInv, Shapes
  <2>2. CASE ~Rotate
    BY <2>2 DEF Enable, Disable, Suspend, PairInv, Shapes
  <2>3. QED
    BY <2>1, <2>2
<1>4. Shapes'
  BY <1>1 DEF Enable, Disable, Rotate, Suspend, PairInv, Shapes
<1>5. QED
  BY <1>1, <1>2, <1>3, <1>4 DEF PairInv, UploadsOnFile, NoneDisabled, ReadyHasDevice, Raced

\* Everything else leaves the row, the devices and the uploads alone.
LEMMA OthersPair ==
  ASSUME PairInv, UNCHANGED <<row, devices, up>>, odd \subseteq odd'
  PROVE  PairInv'
BY PairUntouched DEF PairInv, Shapes, Pends

\* Every step of the system keeps PairInv.
LEMMA PairStep ==
  ASSUME PairInv, [BotsNext]_botVars
  PROVE  PairInv'
<1> USE DEF server, process, files, hist, Flag
<1>1. ASSUME NEW w \in Loops, UpAuth(w) \/ UpDevice(w) \/ UpState(w) \/ UpKeys(w) \/ UpDrop(w)
      PROVE  PairInv'
  BY <1>1, UploadPairs
<1>2. ASSUME NEW w \in Loops, Snap(w) \/ Open(w) \/ Write(w) \/ Rename(w)
      PROVE  PairInv'
  BY <1>2, OthersPair DEF Snap, Open, Write, Rename
<1>3. CASE StartBot \/ GetMe \/ Reload \/ Unreadable
  BY <1>3, OthersPair DEF StartBot, GetMe, Reload, Unreadable
<1>4. CASE Create \/ Paired \/ Crash \/ SyncReceive \/ SyncUploaded \/ ReplyDrain \/ ReplyUploaded
  BY <1>4, ProcessPairs
<1>5. CASE SyncAsk \/ SyncDrain \/ SyncFail \/ Orphan
  BY <1>5, OthersPair DEF SyncAsk, SyncDrain, SyncFail, Orphan
<1>6. ASSUME NEW s \in 1..2, Ask(s) \/ Read(s) \/ Pop(s) \/ Extra(s) \/ Trim(s) \/ Answer(s)
      PROVE  PairInv'
  BY <1>6, OthersPair DEF Ask, Read, Pop, Extra, Trim, Answer
<1>7. CASE Handle \/ ReplyPost
  BY <1>7, OthersPair DEF Handle, ReplyPost
<1>8. ASSUME NEW p \in Peers, Track(p) \/ Give(p) \/ Post(p)
      PROVE  PairInv'
  BY <1>8, OthersPair DEF Track, Give, Post
<1>9. CASE Expire \/ AdminRead
  BY <1>9, OthersPair DEF Expire, AdminRead
<1>10. CASE Enable \/ Disable \/ Rotate \/ Suspend
  BY <1>10, AdminPairs
<1>11. CASE UNCHANGED botVars
  BY <1>11, OthersPair DEF botVars
<1>12. QED
  BY <1>1, <1>2, <1>3, <1>4, <1>5, <1>6, <1>7, <1>8, <1>9, <1>10, <1>11 DEF BotsNext

-----------------------------------------------------------------------------

\* A ready bot's device is on file, unless an administrator's step fell into an
\* upload (upload/route.ts:125-175, e2ee/route.ts:54-66).
THEOREM ReadyOnFile == BotsSpec => []ReadyHasDevice
<1>1. BotsInit => PairInv
  BY PairInit
<1>2. PairInv /\ [BotsNext]_botVars => PairInv'
  BY PairStep
<1>3. PairInv => ReadyHasDevice
  BY DEF PairInv
<1>4. QED
  BY <1>1, <1>2, <1>3, PTL DEF BotsSpec

\* Nothing makes a disabled bot ready but an upload that had begun before
\* (upload/route.ts:161-175).
THEOREM DisabledStays == BotsSpec => DisableSticks
<1>1. BotsInit => PairInv
  BY PairInit
<1>2. PairInv /\ [BotsNext]_botVars => PairInv'
  BY PairStep
<1>3. ASSUME PairInv, [BotsNext]_botVars
      PROVE  row.st = "disabled" /\ row'.st = "ready" => "raced" \in odd
  <2>1. SUFFICES ASSUME row.st = "disabled", row'.st = "ready" PROVE Raced
    BY DEF Raced
  <2>2. PICK w \in Loops : UpState(w)
    <3> USE DEF server, process, files, hist
    <3>1. CASE Enable \/ Disable \/ Rotate \/ Suspend
      BY <1>3, <2>1, <3>1 DEF Enable, Disable, Rotate, Suspend, PairInv, Shapes
    <3>2. CASE row' = row
      BY <2>1, <3>2
    <3>3. ASSUME NEW w \in Loops, UpState(w)
          PROVE  \E v \in Loops : UpState(v)
      BY <3>3
    <3>4. ASSUME NEW w \in Loops, UpAuth(w) \/ UpDevice(w) \/ UpKeys(w) \/ UpDrop(w)
                   \/ Snap(w) \/ Open(w) \/ Write(w) \/ Rename(w)
          PROVE  row' = row
      BY <3>4 DEF UpAuth, UpDevice, UpKeys, UpDrop, Snap, Open, Write, Rename
    <3>5. CASE StartBot \/ GetMe \/ Reload \/ Unreadable \/ Create \/ Paired \/ Crash
      BY <3>2, <3>5 DEF StartBot, GetMe, Reload, Unreadable, Create, Paired, Crash
    <3>6. CASE SyncAsk \/ SyncDrain \/ SyncFail \/ Orphan \/ SyncReceive \/ SyncUploaded
      BY <3>2, <3>6 DEF SyncAsk, SyncDrain, SyncFail, Orphan, SyncReceive, SyncUploaded
    <3>7. ASSUME NEW s \in 1..2, Ask(s) \/ Read(s) \/ Pop(s) \/ Extra(s) \/ Trim(s) \/ Answer(s)
          PROVE  row' = row
      BY <3>7 DEF Ask, Read, Pop, Extra, Trim, Answer
    <3>8. CASE Handle \/ ReplyDrain \/ ReplyUploaded \/ ReplyPost
      BY <3>2, <3>8 DEF Handle, ReplyDrain, ReplyUploaded, ReplyPost
    <3>9. ASSUME NEW p \in Peers, Track(p) \/ Give(p) \/ Post(p)
          PROVE  row' = row
      BY <3>9 DEF Track, Give, Post
    <3>10. CASE Expire \/ AdminRead \/ UNCHANGED botVars
      BY <3>2, <3>10 DEF Expire, AdminRead, botVars
    <3>11. QED
      BY <1>3, <3>1, <3>2, <3>3, <3>4, <3>5, <3>6, <3>7, <3>8, <3>9, <3>10 DEF BotsNext
  <2>3. up[w].pc = "state" /\ up[w].seen = "pending"
    BY <2>1, <2>2 DEF UpState
  <2>4. QED
    BY <1>3, <2>1, <2>3 DEF PairInv, NoneDisabled, Pends, Raced
<1>4. QED
  BY <1>1, <1>2, <1>3, PTL DEF BotsSpec, DisableSticks

Nums(q) == {q[i].n : i \in DOMAIN q}
Climbs(q) == \A i, j \in DOMAIN q : i < j => q[i].n < q[j].n
Below(q, r) == \A i \in DOMAIN q, j \in DOMAIN r : q[i].n < r[j].n
\* Sequences of updates, whatever else an update carries.
List(q) == \E S : q \in Seq(S) /\ \A u \in S : u.n \in Nat

\* What is handled (h), on its way (m) and queued (q), in this order, are the
\* updates of all.
InLine(h, m, q, all) ==
  /\ List(h) /\ List(m) /\ List(q)
  /\ Climbs(h) /\ Climbs(m) /\ Climbs(q)
  /\ Below(h, m) /\ Below(h, q) /\ Below(m, q)
  /\ Nums(h) \cup Nums(m) \cup Nums(q) = all

LEMMA ListFacts ==
  ASSUME NEW q, List(q)
  PROVE  /\ Len(q) \in Nat /\ DOMAIN q = 1 .. Len(q)
         /\ \A i \in 1 .. Len(q) : q[i].n \in Nat
         /\ q # <<>> => Len(q) > 0
BY DEF List

\* The first k updates of the queue join those on their way.
LEMMA LineMoves ==
  ASSUME NEW h, NEW m, NEW q, NEW all, InLine(h, m, q, all), NEW k \in 0 .. Len(q)
  PROVE  InLine(h, m \o SubSeq(q, 1, k), SubSeq(q, k + 1, Len(q)), all)
<1> DEFINE f == SubSeq(q, 1, k)
           r == SubSeq(q, k + 1, Len(q))
           n == m \o f
<1>0. Len(q) \in Nat /\ k \in Nat /\ k <= Len(q)
  BY ListFacts DEF InLine
<1>1. /\ Len(q) \in Nat /\ Len(m) \in Nat /\ k \in Nat /\ k <= Len(q)
      /\ DOMAIN q = 1 .. Len(q) /\ DOMAIN m = 1 .. Len(m)
  BY ListFacts DEF InLine
<1>2. PICK S : q \in Seq(S) /\ \A u \in S : u.n \in Nat
  BY DEF InLine, List
<1>3. PICK R : m \in Seq(R) /\ \A u \in R : u.n \in Nat
  BY DEF InLine, List
<1>4. /\ f \in Seq(S) /\ Len(f) = k /\ DOMAIN f = 1 .. k /\ \A i \in 1 .. k : f[i] = q[i]
  BY <1>1, <1>2
<1>5. /\ r \in Seq(S) /\ Len(r) = Len(q) - k /\ DOMAIN r = 1 .. (Len(q) - k)
      /\ \A i \in 1 .. (Len(q) - k) : r[i] = q[k + i]
  <2>1. \A i \in k + 1 .. Len(q) : q[i] \in S
    BY <1>1, <1>2
  <2>0. k + 1 \in Int /\ Len(q) \in Int
    BY <1>1
  <2>2. /\ r \in Seq(S)
        /\ Len(r) = IF k + 1 <= Len(q) THEN Len(q) - (k + 1) + 1 ELSE 0
        /\ \A i \in 1 .. (Len(q) - (k + 1) + 1) : r[i] = q[(k + 1) + i - 1]
    BY <2>0, <2>1, SubSeqProperties
  <2> HIDE DEF r
  <2>3. Len(r) = Len(q) - k
    <3>1. CASE k = Len(q)
      BY <1>1, <2>2, <3>1
    <3>2. CASE k < Len(q)
      <4>1. k + 1 <= Len(q)
        BY <1>1, <3>2
      <4>2. QED
        BY <1>1, <2>2, <4>1
    <3>3. QED
      BY <1>0, <3>1, <3>2
  <2>4. \A i \in 1 .. (Len(q) - k) : r[i] = q[k + i]
    <3>1. Len(q) - (k + 1) + 1 = Len(q) - k
      BY <1>1
    <3>2. \A i \in 1 .. (Len(q) - k) : (k + 1) + i - 1 = k + i
      BY <1>1
    <3>3. QED
      BY <2>2, <3>1, <3>2, Zenon
  <2>5. DOMAIN r = 1 .. Len(r)
    BY <2>2
  <2>6. QED
    BY <2>2, <2>3, <2>4, <2>5
<1>6. m \in Seq(R \cup S) /\ f \in Seq(R \cup S)
  BY <1>1, <1>2, <1>3, <1>4
<1> HIDE DEF f, r
<1>7. /\ n \in Seq(R \cup S) /\ Len(n) = Len(m) + k /\ DOMAIN n = 1 .. (Len(m) + k)
      /\ \A i \in 1 .. Len(m) : n[i] = m[i]
      /\ \A i \in 1 .. k : n[Len(m) + i] = q[i]
  BY <1>1, <1>4, <1>6
<1> HIDE DEF n
<1>8. List(n) /\ List(r)
  BY <1>2, <1>3, <1>5, <1>7 DEF List
<1>9. \A i \in 1 .. (Len(m) + k) :
         \/ i \in 1 .. Len(m) /\ n[i] = m[i]
         \/ i - Len(m) \in 1 .. k /\ n[i] = q[i - Len(m)]
  BY <1>1, <1>7
<1>10. \A i \in 1 .. (Len(q) - k) : k + i \in 1 .. Len(q) /\ r[i] = q[k + i]
  BY <1>1, <1>5
<1>11. \A i \in 1 .. k : i \in 1 .. Len(q)
  BY <1>1
<1>12. Climbs(n)
  <2> SUFFICES ASSUME NEW i \in 1 .. (Len(m) + k), NEW j \in 1 .. (Len(m) + k), i < j
               PROVE  n[i].n < n[j].n
    BY <1>7 DEF Climbs
  <2>1. CASE i \in 1 .. Len(m) /\ n[i] = m[i]
    <3>1. CASE j \in 1 .. Len(m) /\ n[j] = m[j]
      BY <1>1, <2>1, <3>1 DEF InLine, Climbs
    <3>2. CASE j - Len(m) \in 1 .. k /\ n[j] = q[j - Len(m)]
      BY <1>1, <1>11, <2>1, <3>2 DEF InLine, Below
    <3>3. QED
      BY <1>9, <3>1, <3>2
  <2>2. CASE i - Len(m) \in 1 .. k /\ n[i] = q[i - Len(m)]
    <3>1. j - Len(m) \in 1 .. k /\ n[j] = q[j - Len(m)]
      <4>1. Len(m) \in Nat /\ i - Len(m) >= 1
        BY <1>1, <2>2
      <4>2. j \notin 1 .. Len(m)
        BY <4>1
      <4>3. QED
        BY <1>9, <4>2
    <3>2. i - Len(m) < j - Len(m)
      BY <1>1
    <3>3. i - Len(m) \in DOMAIN q /\ j - Len(m) \in DOMAIN q
      BY <1>1, <1>11, <2>2, <3>1
    <3>4. QED
      BY <2>2, <3>1, <3>2, <3>3 DEF InLine, Climbs
  <2>3. QED
    BY <1>9, <2>1, <2>2
<1>13. Climbs(r)
  <2> SUFFICES ASSUME NEW i \in 1 .. (Len(q) - k), NEW j \in 1 .. (Len(q) - k), i < j
               PROVE  r[i].n < r[j].n
    BY <1>5 DEF Climbs
  <2>1. k + i < k + j
    BY <1>1
  <2>2. QED
    BY <1>1, <1>10, <2>1 DEF InLine, Climbs
<1>14. Below(h, n)
  BY <1>1, <1>7, <1>9, <1>11 DEF InLine, Below
<1>15. Below(h, r)
  BY <1>1, <1>5, <1>10 DEF InLine, Below
<1>16. Below(n, r)
  <2> SUFFICES ASSUME NEW i \in 1 .. (Len(m) + k), NEW j \in 1 .. (Len(q) - k)
               PROVE  n[i].n < r[j].n
    BY <1>5, <1>7 DEF Below
  <2>1. k + j \in DOMAIN q /\ r[j] = q[k + j]
    BY <1>1, <1>10
  <2>2. CASE i \in 1 .. Len(m) /\ n[i] = m[i]
    BY <1>1, <2>1, <2>2 DEF InLine, Below
  <2>3. CASE i - Len(m) \in 1 .. k /\ n[i] = q[i - Len(m)]
    <3>1. i - Len(m) < k + j /\ i - Len(m) \in DOMAIN q
      BY <1>1, <1>11, <2>3
    <3>2. QED
      BY <2>1, <2>3, <3>1 DEF InLine, Climbs
  <2>4. QED
    BY <1>9, <2>2, <2>3
<1>17. Nums(n) \cup Nums(r) = Nums(m) \cup Nums(q)
  <2>1. Nums(n) \subseteq Nums(m) \cup Nums(q)
    <3>1. ASSUME NEW i \in 1 .. (Len(m) + k)
          PROVE  n[i].n \in Nums(m) \cup Nums(q)
      <4>1. CASE i \in 1 .. Len(m) /\ n[i] = m[i]
        BY <1>1, <4>1 DEF Nums
      <4>2. CASE i - Len(m) \in 1 .. k /\ n[i] = q[i - Len(m)]
        BY <1>1, <1>11, <4>2 DEF Nums
      <4>3. QED
        BY <1>9, <4>1, <4>2
    <3>2. QED
      BY <1>7, <3>1 DEF Nums
  <2>2. Nums(r) \subseteq Nums(q)
    <3>1. ASSUME NEW i \in 1 .. (Len(q) - k)
          PROVE  r[i].n \in Nums(q)
      <4>1. k + i \in DOMAIN q /\ r[i] = q[k + i]
        BY <1>1, <1>10
      <4>2. QED
        BY <4>1 DEF Nums
    <3>2. DOMAIN r = 1 .. (Len(q) - k)
      BY <1>5
    <3>3. QED
      BY <3>1, <3>2 DEF Nums
  <2>3. Nums(m) \subseteq Nums(n)
    <3>1. \A i \in 1 .. Len(m) : i \in 1 .. (Len(m) + k)
      BY <1>1
    <3>2. QED
      BY <1>1, <1>7, <3>1 DEF Nums
  <2>4. ASSUME NEW i \in 1 .. Len(q)
        PROVE  q[i].n \in Nums(n) \cup Nums(r)
    <3>1. CASE i <= k
      <4>1. i \in 1 .. k /\ Len(m) + i \in 1 .. (Len(m) + k)
        BY <1>1, <3>1
      <4>2. QED
        BY <1>7, <4>1 DEF Nums
    <3>2. CASE i > k
      <4>1. i - k \in 1 .. (Len(q) - k) /\ k + (i - k) = i
        BY <1>1, <3>2
      <4>2. QED
        BY <1>5, <4>1 DEF Nums
    <3>3. QED
      BY <1>1, <3>1, <3>2
  <2>5. QED
    BY <1>1, <2>1, <2>2, <2>3, <2>4 DEF Nums
<1>18. InLine(h, n, r, all)
  BY <1>8, <1>12, <1>13, <1>14, <1>15, <1>16, <1>17 DEF InLine
<1>19. QED
  BY <1>18 DEF n, f, r

\* The first update on its way is handled.
LEMMA LineHandles ==
  ASSUME NEW h, NEW m, NEW q, NEW all, InLine(h, m, q, all), m # <<>>, NEW x, x.n = Head(m).n
  PROVE  InLine(Append(h, x), Tail(m), q, all)
<1> DEFINE g == Append(h, x)
           r == Tail(m)
<1>1. Len(h) \in Nat /\ Len(m) \in Nat /\ Len(m) > 0 /\ Len(q) \in Nat
  BY ListFacts DEF InLine
<1>2. DOMAIN h = 1 .. Len(h) /\ DOMAIN m = 1 .. Len(m) /\ DOMAIN q = 1 .. Len(q)
  BY ListFacts DEF InLine
<1>3. PICK S : h \in Seq(S) /\ \A u \in S : u.n \in Nat
  BY DEF InLine, List
<1>4. PICK R : m \in Seq(R) /\ \A u \in R : u.n \in Nat
  BY DEF InLine, List
<1>5. x.n = m[1].n /\ m[1] \in R /\ x.n \in Nat
  BY <1>1, <1>4
<1>6. /\ g \in Seq(S \cup {x}) /\ Len(g) = Len(h) + 1 /\ DOMAIN g = 1 .. (Len(h) + 1)
      /\ \A i \in 1 .. Len(h) : g[i] = h[i]
      /\ g[Len(h) + 1] = x
  <2>1. h \in Seq(S \cup {x})
    BY <1>3
  <2>2. QED
    BY <2>1
<1>7. /\ r \in Seq(R) /\ Len(r) = Len(m) - 1 /\ DOMAIN r = 1 .. (Len(m) - 1)
      /\ \A i \in 1 .. (Len(m) - 1) : r[i] = m[i + 1]
  BY <1>1, <1>4
<1> HIDE DEF g, r
<1>8. List(g) /\ List(r)
  BY <1>3, <1>4, <1>5, <1>6, <1>7 DEF List
<1>9. \A i \in 1 .. (Len(h) + 1) : (i \in 1 .. Len(h) /\ g[i] = h[i]) \/ (i = Len(h) + 1 /\ g[i] = x)
  BY <1>1, <1>6
<1>10. 1 \in DOMAIN m /\ \A i \in 1 .. (Len(m) - 1) : i + 1 \in DOMAIN m /\ 1 < i + 1 /\ r[i] = m[i + 1]
  BY <1>1, <1>2, <1>7
<1>11. Climbs(g)
  <2> SUFFICES ASSUME NEW i \in 1 .. (Len(h) + 1), NEW j \in 1 .. (Len(h) + 1), i < j
               PROVE  g[i].n < g[j].n
    BY <1>6 DEF Climbs
  <2>1. i \in 1 .. Len(h) /\ g[i] = h[i]
    BY <1>1, <1>9
  <2>2. CASE j \in 1 .. Len(h) /\ g[j] = h[j]
    BY <1>2, <2>1, <2>2 DEF InLine, Climbs
  <2>3. CASE g[j] = x
    BY <1>2, <1>5, <1>10, <2>1, <2>3 DEF InLine, Below
  <2>4. QED
    BY <1>9, <2>2, <2>3
<1>12. Climbs(r)
  <2> SUFFICES ASSUME NEW i \in 1 .. (Len(m) - 1), NEW j \in 1 .. (Len(m) - 1), i < j
               PROVE  r[i].n < r[j].n
    BY <1>7 DEF Climbs
  <2>1. i + 1 < j + 1
    BY <1>1
  <2>2. QED
    BY <1>10, <2>1 DEF InLine, Climbs
<1>13. Below(g, r)
  <2> SUFFICES ASSUME NEW i \in 1 .. (Len(h) + 1), NEW j \in 1 .. (Len(m) - 1)
               PROVE  g[i].n < r[j].n
    BY <1>6, <1>7 DEF Below
  <2>1. CASE i \in 1 .. Len(h) /\ g[i] = h[i]
    BY <1>2, <1>10, <2>1 DEF InLine, Below
  <2>2. CASE g[i] = x
    BY <1>5, <1>10, <2>2 DEF InLine, Climbs
  <2>3. QED
    BY <1>9, <2>1, <2>2
<1>14. Below(g, q)
  <2> SUFFICES ASSUME NEW i \in 1 .. (Len(h) + 1), NEW j \in DOMAIN q
               PROVE  g[i].n < q[j].n
    BY <1>6 DEF Below
  <2>1. CASE i \in 1 .. Len(h) /\ g[i] = h[i]
    BY <1>2, <2>1 DEF InLine, Below
  <2>2. CASE g[i] = x
    BY <1>5, <1>10, <2>2 DEF InLine, Below
  <2>3. QED
    BY <1>9, <2>1, <2>2
<1>15. Below(r, q)
  BY <1>7, <1>10 DEF InLine, Below
<1>16. Nums(g) \cup Nums(r) = Nums(h) \cup Nums(m)
  <2>1. ASSUME NEW i \in 1 .. (Len(h) + 1)
        PROVE  g[i].n \in Nums(h) \cup Nums(m)
    <3>1. CASE i \in 1 .. Len(h) /\ g[i] = h[i]
      BY <1>2, <3>1 DEF Nums
    <3>2. CASE g[i] = x
      BY <1>5, <1>10, <3>2 DEF Nums
    <3>3. QED
      BY <1>9, <3>1, <3>2
  <2>2. Nums(r) \subseteq Nums(m)
    BY <1>7, <1>10 DEF Nums
  <2>3. Nums(h) \subseteq Nums(g)
    <3>1. \A i \in 1 .. Len(h) : i \in 1 .. (Len(h) + 1)
      BY <1>1
    <3>2. QED
      BY <1>2, <1>6, <3>1 DEF Nums
  <2>4. ASSUME NEW i \in 1 .. Len(m)
        PROVE  m[i].n \in Nums(g) \cup Nums(r)
    <3>1. CASE i = 1
      <4>1. Len(h) + 1 \in 1 .. (Len(h) + 1)
        BY <1>1
      <4>2. QED
        BY <1>5, <1>6, <3>1, <4>1 DEF Nums
    <3>2. CASE i # 1
      <4>1. i - 1 \in 1 .. (Len(m) - 1) /\ (i - 1) + 1 = i
        BY <1>1, <3>2
      <4>2. QED
        BY <1>7, <4>1 DEF Nums
    <3>3. QED
      BY <3>1, <3>2
  <2>5. Nums(g) \subseteq Nums(h) \cup Nums(m)
    BY <1>6, <2>1 DEF Nums
  <2>6. Nums(m) \subseteq Nums(g) \cup Nums(r)
    BY <1>2, <2>4 DEF Nums
  <2>7. QED
    BY <2>2, <2>3, <2>5, <2>6
<1>17. InLine(g, r, q, all)
  BY <1>8, <1>11, <1>12, <1>13, <1>14, <1>15, <1>16 DEF InLine
<1>18. QED
  BY <1>17 DEF g, r

LEMMA EmptyList == List(<<>>) /\ Climbs(<<>>) /\ Nums(<<>>) = {} /\ \A q : Below(<<>>, q) /\ Below(q, <<>>)
<1>1. <<>> \in Seq({}) /\ DOMAIN <<>> = {}
  OBVIOUS
<1>2. QED
  BY <1>1 DEF List, Climbs, Nums, Below

\* What is on its way, or what is queued, is lost.
LEMMA LineLoses ==
  ASSUME NEW h, NEW m, NEW q, NEW all, InLine(h, m, q, all)
  PROVE  /\ InLine(h, <<>>, q, all \ Nums(m))
         /\ InLine(h, m, <<>>, all \ Nums(q))
<1>1. ASSUME NEW x \in Nums(h)
      PROVE  x \notin Nums(m) /\ x \notin Nums(q)
  BY <1>1, ListFacts DEF InLine, Below, Nums
<1>2. ASSUME NEW x \in Nums(m)
      PROVE  x \notin Nums(q)
  BY <1>2, ListFacts DEF InLine, Below, Nums
<1>3. QED
  BY <1>1, <1>2, EmptyList DEF InLine

\* An update with a higher number than all others joins the queue.
LEMMA LineGrows ==
  ASSUME NEW h, NEW m, NEW q, NEW all, InLine(h, m, q, all),
         NEW u, u.n \in Nat, \A x \in all : x < u.n
  PROVE  InLine(h, m, Append(q, u), all \cup {u.n})
<1> DEFINE r == Append(q, u)
<1>1. Len(q) \in Nat
  BY ListFacts DEF InLine
<1>2. DOMAIN q = 1 .. Len(q) /\ DOMAIN h = 1 .. Len(h) /\ DOMAIN m = 1 .. Len(m)
  BY ListFacts DEF InLine
<1>3. PICK S : q \in Seq(S) /\ \A v \in S : v.n \in Nat
  BY DEF InLine, List
<1>4. /\ r \in Seq(S \cup {u}) /\ Len(r) = Len(q) + 1 /\ DOMAIN r = 1 .. (Len(q) + 1)
      /\ \A i \in 1 .. Len(q) : r[i] = q[i]
      /\ r[Len(q) + 1] = u
  <2>1. q \in Seq(S \cup {u})
    BY <1>3
  <2>2. QED
    BY <2>1
<1> HIDE DEF r
<1>5. List(r)
  BY <1>3, <1>4 DEF List
<1>6. \A i \in 1 .. (Len(q) + 1) : (i \in 1 .. Len(q) /\ r[i] = q[i]) \/ (i = Len(q) + 1 /\ r[i] = u)
  BY <1>1, <1>4
<1>7. /\ \A i \in DOMAIN h : h[i].n < u.n
      /\ \A i \in DOMAIN m : m[i].n < u.n
      /\ \A i \in DOMAIN q : q[i].n < u.n
  BY DEF InLine, Nums
<1>8. Climbs(r)
  <2> SUFFICES ASSUME NEW i \in 1 .. (Len(q) + 1), NEW j \in 1 .. (Len(q) + 1), i < j
               PROVE  r[i].n < r[j].n
    BY <1>4 DEF Climbs
  <2>1. i \in 1 .. Len(q) /\ r[i] = q[i]
    BY <1>1, <1>6
  <2>2. CASE j \in 1 .. Len(q) /\ r[j] = q[j]
    BY <1>2, <2>1, <2>2 DEF InLine, Climbs
  <2>3. CASE r[j] = u
    BY <1>2, <1>7, <2>1, <2>3
  <2>4. QED
    BY <1>6, <2>2, <2>3
<1>9. Below(h, r) /\ Below(m, r)
  BY <1>2, <1>4, <1>6, <1>7 DEF InLine, Below
<1>10. Nums(r) = Nums(q) \cup {u.n}
  <2>1. Nums(r) \subseteq Nums(q) \cup {u.n}
    BY <1>2, <1>4, <1>6 DEF Nums
  <2>2. Nums(q) \subseteq Nums(r)
    <3>1. \A i \in 1 .. Len(q) : i \in 1 .. (Len(q) + 1)
      BY <1>1
    <3>2. QED
      BY <1>2, <1>4, <3>1 DEF Nums
  <2>3. u.n \in Nums(r)
    <3>1. Len(q) + 1 \in DOMAIN r
      BY <1>1, <1>4
    <3>2. QED
      BY <1>4, <3>1 DEF Nums
  <2>4. QED
    BY <2>1, <2>2, <2>3
<1>11. InLine(h, m, r, all \cup {u.n})
  BY <1>5, <1>8, <1>9, <1>10 DEF InLine
<1>12. QED
  BY <1>11 DEF r

\* A line in three parts is one line.
Ascends(q, S) == q \in Seq(Nat) /\ Rising(q) /\ {q[i] : i \in DOMAIN q} = S

LEMMA NumsAscend ==
  ASSUME NEW q, List(q), Climbs(q)
  PROVE  Ascends(Ns(q), Nums(q))
<1>1. Len(q) \in Nat /\ DOMAIN q = 1 .. Len(q) /\ \A i \in 1 .. Len(q) : q[i].n \in Nat
  BY ListFacts
<1>2. Ns(q) = [i \in 1 .. Len(q) |-> q[i].n]
  BY <1>1 DEF Ns
<1>3. Ns(q) \in Seq(Nat)
  BY <1>1, <1>2, IsASeq
<1>4. DOMAIN Ns(q) = DOMAIN q /\ \A i \in DOMAIN q : Ns(q)[i] = q[i].n
  BY <1>1, <1>2
<1>5. QED
  BY <1>3, <1>4 DEF Ascends, Rising, Climbs, Nums

LEMMA LinesJoin ==
  ASSUME NEW a, NEW b, NEW S, NEW T, Ascends(a, S), Ascends(b, T), \A x \in S, y \in T : x < y
  PROVE  Ascends(a \o b, S \cup T)
<1> DEFINE c == a \o b
<1>1. a \in Seq(Nat) /\ b \in Seq(Nat) /\ Len(a) \in Nat /\ Len(b) \in Nat
  BY DEF Ascends
<1>2. DOMAIN a = 1 .. Len(a) /\ DOMAIN b = 1 .. Len(b)
  BY <1>1
<1>3. /\ c \in Seq(Nat) /\ DOMAIN c = 1 .. (Len(a) + Len(b))
      /\ \A i \in 1 .. Len(a) : c[i] = a[i]
      /\ \A i \in 1 .. Len(b) : c[Len(a) + i] = b[i]
  BY <1>1
<1> HIDE DEF c
<1>4. \A i \in DOMAIN c : (i \in DOMAIN a /\ c[i] = a[i])
                       \/ (i - Len(a) \in DOMAIN b /\ c[i] = b[i - Len(a)])
  BY <1>1, <1>2, <1>3
<1>5. Rising(c)
  <2> SUFFICES ASSUME NEW i \in DOMAIN c, NEW j \in DOMAIN c, i < j
               PROVE  c[i] < c[j]
    BY DEF Rising
  <2>0. i \in Nat /\ j \in Nat
    BY <1>1, <1>3
  <2>1. CASE i \in DOMAIN a /\ c[i] = a[i]
    BY <1>4, <2>1 DEF Ascends, Rising
  <2>2. CASE i - Len(a) \in DOMAIN b /\ c[i] = b[i - Len(a)]
    <3>1. j - Len(a) \in DOMAIN b /\ c[j] = b[j - Len(a)]
      BY <1>1, <1>2, <1>4, <2>0, <2>2
    <3>2. i - Len(a) < j - Len(a)
      BY <1>1, <2>0
    <3>3. QED
      BY <2>2, <3>1, <3>2 DEF Ascends, Rising
  <2>3. QED
    BY <1>4, <2>1, <2>2
<1>6. {c[i] : i \in DOMAIN c} = S \cup T
  <2>1. {c[i] : i \in DOMAIN c} \subseteq S \cup T
    BY <1>4 DEF Ascends
  <2>2. \A i \in DOMAIN a : i \in DOMAIN c
    BY <1>1, <1>2, <1>3
  <2>3. \A i \in DOMAIN b : Len(a) + i \in DOMAIN c
    BY <1>1, <1>2, <1>3
  <2>4. S \subseteq {c[i] : i \in DOMAIN c}
    BY <1>2, <1>3, <2>2 DEF Ascends
  <2>5. T \subseteq {c[i] : i \in DOMAIN c}
    BY <1>2, <1>3, <2>3 DEF Ascends
  <2>6. QED
    BY <2>1, <2>4, <2>5
<1>7. QED
  BY <1>3, <1>5, <1>6 DEF Ascends, c

Busy(s) == poll[s].pc # "idle"
OnWay == IF hand # <<>> THEN hand ELSE IF Busy(1) THEN Answered(1) ELSE Answered(2)
FromTo == 1 .. Len(pushed) \ gone

\* What the answer holds of the queue's head is still there, to be trimmed.
Trims(s) == \E pre : /\ List(pre) /\ poll[s].n \in 0 .. Len(queue)
                     /\ poll[s].got = pre \o SubSeq(queue, 1, poll[s].n)

PollShape ==
  /\ DOMAIN poll = 1 .. 2
  /\ \A s \in 1 .. 2 : DOMAIN poll[s] = {"pc", "got", "n", "mine"}
  /\ \E S : pushed \in Seq(S)

\* While one request drains the queue.
Steady ==
  /\ \A s, o \in 1 .. 2 : Busy(s) /\ Busy(o) => s = o
  /\ \A s \in 1 .. 2 : Busy(s) => hand = <<>>
  /\ \A s \in 1 .. 2 : poll[s].pc \in {"idle", "read", "block"} => poll[s].got = <<>>
  /\ \A s \in 1 .. 2 : poll[s].pc = "trim" => Trims(s)
  /\ gone \subseteq 1 .. Len(pushed)
  /\ InLine(heard, OnWay, queue, FromTo)

FeedInv == PollShape /\ ("twice" \notin odd => Steady)

-----------------------------------------------------------------------------

\* What an answer holds beyond its first part can be told from its length.
LEMMA AnswerParts ==
  ASSUME NEW pre, NEW q, List(pre), List(q), NEW k \in 0 .. Len(q)
  PROVE  /\ Len(SubSeq(q, 1, k)) = k
         /\ List(SubSeq(q, 1, k))
         /\ List(pre \o SubSeq(q, 1, k))
         /\ SubSeq(pre \o SubSeq(q, 1, k), 1, Len(pre \o SubSeq(q, 1, k)) - k) = pre
<1> DEFINE f == SubSeq(q, 1, k)
<1>1. PICK S : q \in Seq(S) /\ \A u \in S : u.n \in Nat
  BY DEF List
<1>2. PICK R : pre \in Seq(R) /\ \A u \in R : u.n \in Nat
  BY DEF List
<1>3. Len(q) \in Nat /\ k \in Nat /\ k <= Len(q) /\ Len(pre) \in Nat
  BY ListFacts
<1>4. f \in Seq(S) /\ Len(f) = k
  BY <1>1, <1>3
<1>5. pre \in Seq(R \cup S) /\ f \in Seq(R \cup S)
  BY <1>2, <1>4
<1> HIDE DEF f
<1>6. pre \o f \in Seq(R \cup S) /\ Len(pre \o f) = Len(pre) + k
  BY <1>4, <1>5
<1>7. Len(pre \o f) - k = Len(pre)
  BY <1>3, <1>6
<1>8. SubSeq(pre \o f, 1, Len(pre)) = pre
  <2>1. CASE pre = <<>>
    BY <2>1, SubSeqEmpty
  <2>2. CASE pre # <<>>
    <3>1. 1 \in 1 .. Len(pre) /\ Len(pre) \in 1 .. Len(pre)
      BY <1>2, <1>3, <2>2
    <3>2. SubSeq(pre \o f, 1, Len(pre)) = SubSeq(pre, 1, Len(pre))
      BY <1>5, <3>1, SubSeqOfConcat1
    <3>3. QED
      BY <1>2, <3>2, SubSeqFull
  <2>3. QED
    BY <2>1, <2>2
<1>9. List(f) /\ List(pre \o f)
  BY <1>1, <1>2, <1>4, <1>6 DEF List
<1>10. QED
  BY <1>4, <1>7, <1>8, <1>9 DEF f

\* Of the three places on the way, two are empty.
LEMMA WayIs ==
  ASSUME PollShape, Steady, NEW s \in 1 .. 2, Busy(s)
  PROVE  /\ hand = <<>> /\ OnWay = Answered(s)
         /\ \A o \in 1 .. 2 : o # s => poll[o].pc = "idle" /\ poll[o].got = <<>>
<1>1. hand = <<>> /\ \A o \in 1 .. 2 : o # s => ~ Busy(o)
  BY DEF Steady
<1>2. s = 1 \/ (s = 2 /\ ~ Busy(1))
  BY <1>1
<1>3. OnWay = Answered(s)
  BY <1>1, <1>2 DEF OnWay
<1>4. QED
  BY <1>1, <1>3 DEF Steady, Busy

\* A poll step of the one request that runs.
LEMMA PollStepFeed ==
  ASSUME FeedInv, NEW s \in 1 .. 2, Busy(s), UNCHANGED <<hand, pushed, heard, gone, odd>>,
         NEW p, Polls(s, p), DOMAIN p = {"pc", "got", "n", "mine"}, p.pc # "idle",
         "twice" \notin odd =>
           /\ p.pc \in {"read", "block"} => p.got = <<>>
           /\ p.pc = "trim" => \E pre : /\ List(pre) /\ p.n \in 0 .. Len(queue')
                                        /\ p.got = pre \o SubSeq(queue', 1, p.n)
           /\ LET w == IF p.pc = "trim" THEN SubSeq(p.got, 1, Len(p.got) - p.n) ELSE p.got
              IN InLine(heard, w, queue', FromTo)
  PROVE  FeedInv'
<1>1. /\ DOMAIN poll' = 1 .. 2 /\ poll'[s] = p /\ \A o \in 1 .. 2 : o # s => poll'[o] = poll[o]
  BY DEF Polls, FeedInv, PollShape
<1>2. PollShape'
  BY <1>1 DEF FeedInv, PollShape
<1>3. SUFFICES ASSUME "twice" \notin odd'
               PROVE  Steady'
  BY <1>2 DEF FeedInv
<1>4. Steady /\ PollShape
  BY <1>3 DEF FeedInv
<1>5. /\ hand = <<>> /\ hand' = <<>>
      /\ \A o \in 1 .. 2 : o # s => poll'[o] = poll[o] /\ poll[o].pc = "idle" /\ poll[o].got = <<>>
  BY <1>1, <1>4, WayIs
<1>6. /\ \A r, o \in 1 .. 2 : Busy(r)' /\ Busy(o)' => r = o
      /\ \A r \in 1 .. 2 : poll'[r].pc \in {"idle", "read", "block"} => poll'[r].got = <<>>
  BY <1>1, <1>3, <1>5 DEF Busy
<1>7. \A r \in 1 .. 2 : poll'[r].pc = "trim" => Trims(r)'
  BY <1>1, <1>3, <1>5 DEF Trims
<1>8. OnWay' = IF p.pc = "trim" THEN SubSeq(p.got, 1, Len(p.got) - p.n) ELSE p.got
  <2>1. Answered(s)' = IF p.pc = "trim" THEN SubSeq(p.got, 1, Len(p.got) - p.n) ELSE p.got
    BY <1>1 DEF Answered
  <2>2. s = 1 \/ (s = 2 /\ ~ Busy(1)')
    BY <1>5 DEF Busy
  <2>3. Busy(s)'
    BY <1>1 DEF Busy
  <2>4. QED
    BY <1>5, <2>1, <2>2, <2>3 DEF OnWay
<1>9. InLine(heard', OnWay', queue', FromTo')
  BY <1>3, <1>8 DEF FromTo
<1>10. QED
  BY <1>4, <1>5, <1>6, <1>7, <1>9 DEF Steady

\* The front of the queue that an answer takes.
LEMMA FrontIs ==
  ASSUME List(queue), NEW n \in Nat
  PROVE  \E k \in 0 .. Len(queue) : Front(n) = SubSeq(queue, 1, k) /\ Len(Front(n)) = k /\ (n = 1 /\ queue # <<>> => k = 1)
<1>1. Len(queue) \in Nat /\ (queue # <<>> => Len(queue) > 0)
  BY ListFacts
<1> DEFINE k == IF n < Len(queue) THEN n ELSE Len(queue)
<1>2. k \in 0 .. Len(queue) /\ (n = 1 /\ queue # <<>> => k = 1)
  <2>1. CASE n < Len(queue)
    <3>1. k = n
      BY <2>1
    <3> HIDE DEF k
    <3>2. QED
      BY <1>1, <2>1, <3>1
  <2>2. CASE ~ (n < Len(queue))
    <3>1. k = Len(queue)
      BY <2>2
    <3>2. ASSUME n = 1, queue # <<>>
          PROVE  Len(queue) = 1
      <4>1. Len(queue) \in Nat /\ Len(queue) > 0
        BY <1>1, <3>2
      <4>2. ~ (1 < Len(queue))
        BY <2>2, <3>2
      <4>3. QED
        BY <4>1, <4>2
    <3> HIDE DEF k
    <3>3. k \in 0 .. Len(queue)
      BY <1>1, <3>1
    <3>4. QED
      BY <3>1, <3>2, <3>3
  <2>3. QED
    BY <2>1, <2>2
<1>3. Front(n) = SubSeq(queue, 1, k)
  BY DEF Front
<1> HIDE DEF k
<1>4. Len(SubSeq(queue, 1, k)) = k
  BY <1>2, EmptyList, AnswerParts
<1>5. QED
  BY <1>2, <1>3, <1>4

\* getUpdates: reading, popping and trimming move updates along the line.
LEMMA PollsFeed ==
  ASSUME FeedInv, NEW s \in 1 .. 2, Read(s) \/ Pop(s) \/ Extra(s) \/ Trim(s)
  PROVE  FeedInv'
<1>1. /\ Busy(s) /\ poll[s].pc \in {"read", "block", "extra", "trim"}
      /\ UNCHANGED <<hand, pushed, heard, gone, odd>>
      /\ DOMAIN poll[s] = {"pc", "got", "n", "mine"}
  BY DEF Read, Pop, Extra, Trim, Busy, hist, FeedInv, PollShape
<1>2. "twice" \notin odd =>
        /\ Steady /\ OnWay = Answered(s) /\ InLine(heard, Answered(s), queue, FromTo) /\ List(queue)
        /\ List(Answered(s))
  <2> SUFFICES ASSUME "twice" \notin odd
               PROVE  Steady /\ OnWay = Answered(s) /\ InLine(heard, OnWay, queue, FromTo) /\ List(queue)
                      /\ List(OnWay)
    BY Zenon
  <2>1. Steady /\ PollShape
    BY DEF FeedInv
  <2>2. QED
    BY <2>1, <1>1, WayIs DEF Steady, InLine
<1>3. CASE Read(s)
  <2>1. poll[s].pc = "read" /\ queue' = queue
    BY <1>3 DEF Read, server
  <2>2. "twice" \notin odd => poll[s].got = <<>> /\ Answered(s) = <<>>
    BY <1>1, <1>2, <2>1 DEF Steady, Answered
  <2>3. CASE ~ Auth
    <3> DEFINE p == [poll[s] EXCEPT !.pc = "answer"]
    <3>1. DOMAIN p = {"pc", "got", "n", "mine"} /\ p.pc = "answer" /\ p.got = poll[s].got
      BY <1>1
    <3>2. Polls(s, p)
      BY <1>3, <2>3 DEF Read
    <3> HIDE DEF p
    <3>3. QED
      BY <1>1, <1>2, <2>1, <2>2, <3>1, <3>2, PollStepFeed
  <2>4. CASE Auth
    <3> DEFINE p == [poll[s] EXCEPT !.pc = IF queue = <<>> THEN "block" ELSE "trim",
                                    !.got = Front(Batch), !.n = Len(Front(Batch))]
    <3>1. /\ DOMAIN p = {"pc", "got", "n", "mine"} /\ p.pc = IF queue = <<>> THEN "block" ELSE "trim"
          /\ p.got = Front(Batch) /\ p.n = Len(Front(Batch))
      BY <1>1
    <3>2. Polls(s, p)
      BY <1>3, <2>4 DEF Read
    <3> HIDE DEF p
    <3>3. ASSUME "twice" \notin odd
          PROVE  /\ p.pc = "block" => p.got = <<>>
                 /\ p.pc = "trim" => /\ p.n \in 0 .. Len(queue)
                                     /\ p.got = <<>> \o SubSeq(queue, 1, p.n)
                                     /\ SubSeq(p.got, 1, Len(p.got) - p.n) = <<>>
      <4>1. PICK k \in 0 .. Len(queue) : Front(Batch) = SubSeq(queue, 1, k) /\ Len(Front(Batch)) = k
        BY <1>2, <3>3, FrontIs, BotsAssumption
      <4>2. p.got = SubSeq(queue, 1, k) /\ p.n = k
        BY <3>1, <4>1
      <4>3. List(queue) /\ List(<<>>)
        BY <1>2, <3>3, EmptyList
      <4>4. SubSeq(queue, 1, k) = <<>> \o SubSeq(queue, 1, k)
        <5>1. PICK S : SubSeq(queue, 1, k) \in Seq(S)
          BY <4>3, AnswerParts DEF List
        <5>2. QED
          BY <5>1
      <4>5. SubSeq(<<>> \o SubSeq(queue, 1, k), 1, Len(<<>> \o SubSeq(queue, 1, k)) - k) = <<>>
        BY <4>3, AnswerParts
      <4>6. p.pc = "block" => p.got = <<>>
        <5> SUFFICES ASSUME queue = <<>>
                     PROVE  SubSeq(queue, 1, k) = <<>>
          BY <3>1, <4>2
        <5>1. k = 0
          OBVIOUS
        <5>2. QED
          BY <5>1, SubSeqEmpty
      <4>7. QED
        BY <4>2, <4>4, <4>5, <4>6
    <3>4. QED
      BY <1>1, <1>2, <2>1, <2>2, <3>1, <3>2, <3>3, EmptyList, PollStepFeed
  <2>5. QED
    BY <2>3, <2>4
<1>4. CASE Pop(s)
  <2>1. poll[s].pc = "block" /\ ("twice" \notin odd => poll[s].got = <<>> /\ Answered(s) = <<>>)
    BY <1>1, <1>2, <1>4 DEF Pop, Steady, Answered
  <2>2. CASE queue = <<>>
    <3> DEFINE p == [poll[s] EXCEPT !.pc = "answer"]
    <3>1. DOMAIN p = {"pc", "got", "n", "mine"} /\ p.pc = "answer" /\ p.got = poll[s].got
      BY <1>1
    <3>2. Polls(s, p) /\ queue' = queue
      BY <1>4, <2>2 DEF Pop
    <3> HIDE DEF p
    <3>3. QED
      BY <1>1, <1>2, <2>1, <3>1, <3>2, PollStepFeed
  <2>3. CASE queue # <<>>
    <3> DEFINE p == [poll[s] EXCEPT !.pc = "extra", !.got = Front(1)]
    <3>1. DOMAIN p = {"pc", "got", "n", "mine"} /\ p.pc = "extra" /\ p.got = Front(1)
      BY <1>1
    <3>2. Polls(s, p) /\ queue' = Tail(queue)
      BY <1>4, <2>3 DEF Pop
    <3> HIDE DEF p
    <3>3. ASSUME "twice" \notin odd
          PROVE  InLine(heard, p.got, queue', FromTo)
      <4>1. Front(1) = SubSeq(queue, 1, 1) /\ 1 \in 0 .. Len(queue)
        BY <1>2, <2>3, <3>3, FrontIs
      <4>2. PICK S : queue \in Seq(S)
        BY <1>2, <3>3 DEF List
      <4>3. Tail(queue) = SubSeq(queue, 2, Len(queue))
        BY <2>3, <4>2, TailIsSubSeq
      <4>4. InLine(heard, <<>> \o SubSeq(queue, 1, 1), SubSeq(queue, 1 + 1, Len(queue)), FromTo)
        BY <1>2, <2>1, <3>3, <4>1, LineMoves
      <4>5. <<>> \o SubSeq(queue, 1, 1) = SubSeq(queue, 1, 1)
        <5>1. PICK R : SubSeq(queue, 1, 1) \in Seq(R)
          BY <1>2, <3>3, <4>1, EmptyList, AnswerParts DEF List
        <5>2. QED
          BY <5>1
      <4>6. 1 + 1 = 2
        OBVIOUS
      <4>7. InLine(heard, SubSeq(queue, 1, 1), SubSeq(queue, 2, Len(queue)), FromTo)
        BY <4>4, <4>5, <4>6
      <4>8. p.got = SubSeq(queue, 1, 1) /\ queue' = SubSeq(queue, 2, Len(queue))
        BY <3>1, <3>2, <4>1, <4>3
      <4>9. QED
        BY <4>7, <4>8
    <3>4. QED
      BY <1>1, <3>1, <3>2, <3>3, PollStepFeed
  <2>4. QED
    BY <2>2, <2>3
<1>5. CASE Extra(s)
  <2> DEFINE p == [poll[s] EXCEPT !.pc = "trim", !.got = poll[s].got \o Front(Batch - 1), !.n = Len(Front(Batch - 1))]
  <2>1. /\ DOMAIN p = {"pc", "got", "n", "mine"} /\ p.pc = "trim"
        /\ p.got = poll[s].got \o Front(Batch - 1) /\ p.n = Len(Front(Batch - 1))
    BY <1>1
  <2>2. Polls(s, p) /\ queue' = queue
    BY <1>5 DEF Extra, server
  <2> HIDE DEF p
  <2>3. ASSUME "twice" \notin odd
        PROVE  /\ List(poll[s].got) /\ p.n \in 0 .. Len(queue)
               /\ p.got = poll[s].got \o SubSeq(queue, 1, p.n)
               /\ SubSeq(p.got, 1, Len(p.got) - p.n) = poll[s].got
               /\ InLine(heard, poll[s].got, queue, FromTo)
    <3>1. Answered(s) = poll[s].got
      BY <1>5 DEF Extra, Answered
    <3>2. Batch - 1 \in Nat
      BY BotsAssumption
    <3>3. PICK k \in 0 .. Len(queue) : Front(Batch - 1) = SubSeq(queue, 1, k) /\ Len(Front(Batch - 1)) = k
      BY <1>2, <2>3, <3>2, FrontIs
    <3>4. p.n = k /\ p.got = poll[s].got \o SubSeq(queue, 1, k)
      BY <2>1, <3>3
    <3>5. List(poll[s].got) /\ List(queue) /\ InLine(heard, poll[s].got, queue, FromTo)
      BY <1>2, <2>3, <3>1
    <3>6. SubSeq(p.got, 1, Len(p.got) - k) = poll[s].got
      <4> DEFINE g == poll[s].got
      <4>1. List(g) /\ p.got = g \o SubSeq(queue, 1, k)
        BY <3>4, <3>5
      <4> HIDE DEF g
      <4>2. SubSeq(g \o SubSeq(queue, 1, k), 1, Len(g \o SubSeq(queue, 1, k)) - k) = g
        BY <3>5, <4>1, AnswerParts
      <4>3. SubSeq(p.got, 1, Len(p.got) - k) = g
        BY <4>1, <4>2
      <4>4. QED
        BY <4>3 DEF g
    <3>7. QED
      BY <3>4, <3>5, <3>6
  <2>4. QED
    BY <1>1, <2>1, <2>2, <2>3, PollStepFeed
<1>6. CASE Trim(s)
  <2> DEFINE p == [poll[s] EXCEPT !.pc = "answer", !.n = 0]
  <2>1. DOMAIN p = {"pc", "got", "n", "mine"} /\ p.pc = "answer" /\ p.got = poll[s].got
    BY <1>1
  <2>2. Polls(s, p) /\ queue' = SubSeq(queue, poll[s].n + 1, Len(queue)) /\ poll[s].pc = "trim"
    BY <1>6 DEF Trim
  <2> HIDE DEF p
  <2>3. ASSUME "twice" \notin odd
        PROVE  InLine(heard, p.got, queue', FromTo)
    <3>1. PICK pre : /\ List(pre) /\ poll[s].n \in 0 .. Len(queue)
                     /\ poll[s].got = pre \o SubSeq(queue, 1, poll[s].n)
      BY <1>2, <2>2, <2>3 DEF Steady, Trims
    <3> DEFINE k == poll[s].n
               g == poll[s].got
    <3>2. Answered(s) = SubSeq(g, 1, Len(g) - k) /\ List(queue) /\ k \in 0 .. Len(queue)
      BY <1>2, <2>2, <2>3, <3>1 DEF Answered
    <3>3. g = pre \o SubSeq(queue, 1, k)
      BY <3>1
    <3>4. p.got = g /\ queue' = SubSeq(queue, k + 1, Len(queue))
      BY <2>1, <2>2
    <3>5. InLine(heard, Answered(s), queue, FromTo)
      BY <1>2, <2>3
    <3> HIDE DEF k, g
    <3>6. SubSeq(g, 1, Len(g) - k) = pre
      BY <3>1, <3>2, <3>3, AnswerParts
    <3>7. InLine(heard, pre, queue, FromTo)
      BY <3>2, <3>5, <3>6
    <3>8. QED
      BY <3>2, <3>3, <3>4, <3>7, LineMoves
  <2>4. QED
    BY <1>1, <2>1, <2>2, <2>3, PollStepFeed
<1>7. QED
  BY <1>3, <1>4, <1>5, <1>6

\* A line and what is on its way in one of three places is one ascending line.
LEMMA LineAscends ==
  ASSUME NEW h, NEW m, NEW q, NEW all, InLine(h, m, q, all), NEW a, NEW b, NEW c,
         \/ a = m /\ b = <<>> /\ c = <<>>
         \/ a = <<>> /\ b = m /\ c = <<>>
         \/ a = <<>> /\ b = <<>> /\ c = m
  PROVE  Ascends(Ns(h) \o Ns(a) \o Ns(b) \o Ns(c) \o Ns(q), all)
<1>1. /\ Ascends(Ns(h), Nums(h)) /\ Ascends(Ns(q), Nums(q))
      /\ Ascends(Ns(a), Nums(a)) /\ Ascends(Ns(b), Nums(b)) /\ Ascends(Ns(c), Nums(c))
  BY NumsAscend, EmptyList DEF InLine
<1>2. Nums(<<>>) = {}
  BY EmptyList
<1>3. /\ \A x \in Nums(h), y \in Nums(m) : x < y
      /\ \A x \in Nums(h), y \in Nums(q) : x < y
      /\ \A x \in Nums(m), y \in Nums(q) : x < y
  BY DEF InLine, Below, Nums
<1>4. Nums(h) \cup Nums(m) \cup Nums(q) = all
  BY DEF InLine
<1> DEFINE A == Nums(h) \cup Nums(a)
           B == A \cup Nums(b)
           C == B \cup Nums(c)
<1>5. Ascends(Ns(h) \o Ns(a), A)
  <2>1. \A x \in Nums(h), y \in Nums(a) : x < y
    BY <1>2, <1>3
  <2>2. QED
    BY <1>1, <2>1, LinesJoin
<1>6. Ascends(Ns(h) \o Ns(a) \o Ns(b), B)
  <2>1. \A x \in A, y \in Nums(b) : x < y
    BY <1>2, <1>3
  <2> HIDE DEF A
  <2>2. QED
    BY <1>1, <1>5, <2>1, LinesJoin
<1>7. Ascends(Ns(h) \o Ns(a) \o Ns(b) \o Ns(c), C)
  <2>1. \A x \in B, y \in Nums(c) : x < y
    BY <1>2, <1>3
  <2> HIDE DEF B
  <2>2. QED
    BY <1>1, <1>6, <2>1, LinesJoin
<1>8. Ascends(Ns(h) \o Ns(a) \o Ns(b) \o Ns(c) \o Ns(q), C \cup Nums(q))
  <2>1. \A x \in C, y \in Nums(q) : x < y
    BY <1>2, <1>3
  <2> HIDE DEF C
  <2>2. QED
    BY <1>1, <1>7, <2>1, LinesJoin
<1>9. C \cup Nums(q) = all
  BY <1>2, <1>4
<1>10. QED
  BY <1>8, <1>9

\* The three places: the process's updates or one answer.
LEMMA WayPlaces ==
  ASSUME PollShape, Steady
  PROVE  \/ hand = OnWay /\ Answered(1) = <<>> /\ Answered(2) = <<>>
         \/ hand = <<>> /\ Answered(1) = OnWay /\ Answered(2) = <<>>
         \/ hand = <<>> /\ Answered(1) = <<>> /\ Answered(2) = OnWay
<1>1. \A s \in 1 .. 2 : ~ Busy(s) => Answered(s) = <<>>
  BY DEF Steady, Busy, Answered
<1>2. CASE hand # <<>>
  BY <1>1, <1>2 DEF Steady, OnWay
<1>3. CASE hand = <<>> /\ Busy(1)
  BY <1>1, <1>3 DEF Steady, OnWay
<1>4. CASE hand = <<>> /\ ~ Busy(1)
  BY <1>1, <1>4 DEF OnWay
<1>5. QED
  BY <1>2, <1>3, <1>4

\* While no request runs, what is on its way is what the process has.
LEMMA Quiet ==
  ASSUME \A s \in 1 .. 2 : poll[s].pc = "idle" /\ poll[s].got = <<>>
  PROVE  OnWay = hand
BY DEF OnWay, Busy, Answered

LEMMA FeedSays ==
  ASSUME FeedInv
  PROVE  HeardInOrder
<1> SUFFICES ASSUME "twice" \notin odd
             PROVE  LET line == Ns(heard) \o Ns(hand) \o Ns(Answered(1)) \o Ns(Answered(2)) \o Ns(queue)
                    IN Rising(line) /\ {line[i] : i \in DOMAIN line} = 1 .. Len(pushed) \ gone
  BY DEF HeardInOrder
<1>1. PollShape /\ Steady
  BY DEF FeedInv
<1> DEFINE line == Ns(heard) \o Ns(hand) \o Ns(Answered(1)) \o Ns(Answered(2)) \o Ns(queue)
<1>2. InLine(heard, OnWay, queue, FromTo)
  BY <1>1 DEF Steady
<1>3. Ascends(line, FromTo)
  BY <1>1, <1>2, WayPlaces, LineAscends
<1>4. QED
  BY <1>3 DEF Ascends, FromTo

LEMMA FeedInit ==
  ASSUME BotsInit
  PROVE  FeedInv
<1>1. /\ poll = [s \in 1 .. 2 |-> NoPoll] /\ hand = <<>> /\ heard = <<>> /\ queue = <<>> /\ pushed = <<>> /\ gone = {}
  BY DEF BotsInit
<1>2. PollShape
  <2>1. pushed \in Seq({})
    BY <1>1
  <2>2. QED
    BY <1>1, <2>1 DEF PollShape, NoPoll
<1>3. \A s \in 1 .. 2 : poll[s].pc = "idle" /\ poll[s].got = <<>>
  BY <1>1 DEF NoPoll
<1>4. OnWay = <<>>
  BY <1>1, <1>3, Quiet
<1>5. FromTo = {}
  BY <1>1 DEF FromTo
<1>6. InLine(heard, OnWay, queue, FromTo)
  BY <1>1, <1>4, <1>5, EmptyList DEF InLine
<1>7. Steady
  BY <1>1, <1>3, <1>6 DEF Steady, Busy
<1>8. QED
  BY <1>2, <1>7 DEF FeedInv

\* Steps outside the feed.
LEMMA FeedUntouched ==
  ASSUME FeedInv, UNCHANGED <<hand, poll, queue, pushed, heard, gone>>, odd \subseteq odd'
  PROVE  FeedInv'
BY DEF FeedInv, PollShape, Steady, Busy, OnWay, FromTo, Trims, Answered

\* Steps of the feed after which no request runs.
LEMMA FeedQuiet ==
  ASSUME FeedInv, PollShape', odd \subseteq odd',
         "twice" \notin odd =>
           /\ \A s \in 1 .. 2 : poll'[s].pc = "idle" /\ poll'[s].got = <<>>
           /\ gone' \subseteq 1 .. Len(pushed')
           /\ InLine(heard', hand', queue', FromTo')
  PROVE  FeedInv'
<1> SUFFICES ASSUME "twice" \notin odd'
             PROVE  Steady'
  BY DEF FeedInv
<1>1. \A s \in 1 .. 2 : poll'[s].pc = "idle" /\ poll'[s].got = <<>>
  OBVIOUS
<1>2. OnWay' = hand'
  BY <1>1 DEF OnWay, Busy, Answered
<1>3. QED
  BY <1>1, <1>2 DEF Steady, Busy

\* A request begins, the only one unless "twice" is noted.
LEMMA AskFeed ==
  ASSUME FeedInv, NEW s \in 1 .. 2, Ask(s)
  PROVE  FeedInv'
<1>1. /\ UNCHANGED <<hand, queue, pushed, heard, gone>> /\ hand = <<>> /\ odd \subseteq odd'
  BY DEF Ask, Flag, server
<1> DEFINE p == [NoPoll EXCEPT !.pc = "read"]
<1>2. /\ p.pc = "read" /\ p.got = <<>> /\ DOMAIN p = {"pc", "got", "n", "mine"}
  BY DEF NoPoll
<1>3. Polls(s, p)
  BY DEF Ask
<1> HIDE DEF p
<1>4. poll'[s] = p /\ DOMAIN poll' = 1 .. 2 /\ \A o \in 1 .. 2 : o # s => poll'[o] = poll[o]
  BY <1>3 DEF Polls, FeedInv, PollShape
<1>5. PollShape'
  BY <1>1, <1>2, <1>4 DEF FeedInv, PollShape
<1> SUFFICES ASSUME "twice" \notin odd'
             PROVE  Steady'
  BY <1>5 DEF FeedInv
<1>6. Steady
  BY <1>1 DEF FeedInv
<1>7. \A o \in 1 .. 2 : poll[o].pc = "idle" /\ poll[o].got = <<>>
  BY <1>6 DEF Ask, Flag, Steady
<1>8. OnWay = <<>>
  BY <1>1, <1>7, Quiet
<1>9. OnWay' = <<>>
  <2>1. \A o \in 1 .. 2 : poll'[o].got = <<>> /\ poll'[o].pc # "trim"
    BY <1>2, <1>4, <1>7
  <2>2. Answered(1)' = <<>> /\ Answered(2)' = <<>>
    BY <2>1 DEF Answered
  <2>3. QED
    BY <1>1, <2>2 DEF OnWay
<1>10. InLine(heard', OnWay', queue', FromTo')
  BY <1>1, <1>6, <1>8, <1>9 DEF Steady, FromTo
<1>11. QED
  BY <1>1, <1>2, <1>4, <1>6, <1>7, <1>10 DEF Steady, Busy

\* The answer reaches the process, or is lost.
LEMMA AnswerFeed ==
  ASSUME FeedInv, NEW s \in 1 .. 2, Answer(s)
  PROVE  FeedInv'
<1>1. UNCHANGED <<queue, pushed, heard, odd>> /\ Polls(s, NoPoll) /\ poll[s].pc = "answer"
  BY DEF Answer, server
<1>2. poll'[s] = NoPoll /\ DOMAIN poll' = 1 .. 2 /\ \A o \in 1 .. 2 : o # s => poll'[o] = poll[o]
  BY <1>1 DEF Polls, FeedInv, PollShape
<1>3. NoPoll.pc = "idle" /\ NoPoll.got = <<>> /\ DOMAIN NoPoll = {"pc", "got", "n", "mine"}
  BY DEF NoPoll
<1>4. PollShape'
  BY <1>1, <1>2, <1>3 DEF FeedInv, PollShape
<1>5. ASSUME "twice" \notin odd
      PROVE  /\ \A o \in 1 .. 2 : poll'[o].pc = "idle" /\ poll'[o].got = <<>>
             /\ gone' \subseteq 1 .. Len(pushed')
             /\ InLine(heard', hand', queue', FromTo')
  <2>1. PollShape /\ Steady /\ Busy(s)
    BY <1>1, <1>5 DEF FeedInv, Busy
  <2>2. /\ hand = <<>> /\ OnWay = poll[s].got
        /\ \A o \in 1 .. 2 : o # s => poll[o].pc = "idle" /\ poll[o].got = <<>>
    BY <1>1, <2>1, WayIs DEF Answered
  <2>3. InLine(heard, poll[s].got, queue, FromTo) /\ gone \subseteq 1 .. Len(pushed)
    BY <2>1, <2>2 DEF Steady
  <2>4. \A o \in 1 .. 2 : poll'[o].pc = "idle" /\ poll'[o].got = <<>>
    BY <1>2, <1>3, <2>2
  <2>5. CASE hand' = poll[s].got /\ UNCHANGED gone
    BY <1>1, <2>3, <2>4, <2>5 DEF FromTo
  <2>6. CASE gone' = gone \cup {poll[s].got[i].n : i \in DOMAIN poll[s].got} /\ UNCHANGED hand
    <3>1. gone' = gone \cup Nums(poll[s].got)
      BY <2>6 DEF Nums
    <3>2. Nums(poll[s].got) \subseteq FromTo
      BY <2>3 DEF InLine
    <3>3. FromTo' = FromTo \ Nums(poll[s].got) /\ gone' \subseteq 1 .. Len(pushed')
      BY <1>1, <2>3, <3>1, <3>2 DEF FromTo
    <3>4. InLine(heard, <<>>, queue, FromTo \ Nums(poll[s].got))
      BY <2>3, LineLoses
    <3>5. QED
      BY <1>1, <2>2, <2>4, <2>6, <3>3, <3>4
  <2>7. QED
    BY <2>5, <2>6 DEF Answer
<1>6. QED
  BY <1>1, <1>4, <1>5, FeedQuiet

\* A handler gets the first of the updates the process has.
LEMMA HandleFeed ==
  ASSUME FeedInv, Handle
  PROVE  FeedInv'
<1>1. UNCHANGED <<poll, queue, pushed, gone, odd>> /\ hand # <<>> /\ hand' = Tail(hand)
  BY DEF Handle, server
<1>2. PICK o : heard' = Append(heard, [n |-> Head(hand).n, out |-> o])
  BY DEF Handle
<1>3. PollShape'
  BY <1>1 DEF FeedInv, PollShape
<1>4. ASSUME "twice" \notin odd
      PROVE  /\ \A s \in 1 .. 2 : poll'[s].pc = "idle" /\ poll'[s].got = <<>>
             /\ gone' \subseteq 1 .. Len(pushed')
             /\ InLine(heard', hand', queue', FromTo')
  <2>1. PollShape /\ Steady
    BY <1>4 DEF FeedInv
  <2>2. \A s \in 1 .. 2 : poll[s].pc = "idle" /\ poll[s].got = <<>>
    BY <1>1, <2>1 DEF Steady, Busy
  <2>3. InLine(heard, hand, queue, FromTo)
    BY <2>1, <2>2, Quiet DEF Steady
  <2> DEFINE x == [n |-> Head(hand).n, out |-> o]
  <2>4. x.n = Head(hand).n
    OBVIOUS
  <2>5. heard' = Append(heard, x)
    BY <1>2
  <2> HIDE DEF x
  <2>6. InLine(Append(heard, x), Tail(hand), queue, FromTo)
    BY <1>1, <2>3, <2>4, LineHandles
  <2>7. QED
    BY <1>1, <2>1, <2>2, <2>5, <2>6 DEF FromTo, Steady
<1>5. QED
  BY <1>1, <1>3, <1>4, FeedQuiet

\* The process ends: what it has not handled is lost, a request goes on.
LEMMA CrashFeed ==
  ASSUME FeedInv, Crash
  PROVE  FeedInv'
<1>1. /\ UNCHANGED <<queue, pushed, heard>> /\ hand' = <<>> /\ odd \subseteq odd'
      /\ gone' = gone \cup Nums(hand)
      /\ poll' = [s \in 1 .. 2 |-> [poll[s] EXCEPT !.mine = poll[s].pc = "idle"]]
  BY DEF Crash, Flag, server, Nums
<1>2. DOMAIN poll' = 1 .. 2 /\ \A s \in 1 .. 2 : DOMAIN poll'[s] = DOMAIN poll[s]
  BY <1>1
<1>3. \A s \in 1 .. 2 : poll'[s].pc = poll[s].pc /\ poll'[s].got = poll[s].got /\ poll'[s].n = poll[s].n
  BY <1>1 DEF FeedInv, PollShape
<1>4. PollShape'
  BY <1>1, <1>2 DEF FeedInv, PollShape
<1> SUFFICES ASSUME "twice" \notin odd'
             PROVE  Steady'
  BY <1>4 DEF FeedInv
<1>5. PollShape /\ Steady
  BY <1>1 DEF FeedInv
<1>6. \A s \in 1 .. 2 : Answered(s)' = Answered(s) /\ Busy(s)' = Busy(s) /\ Trims(s)' = Trims(s)
  <2> SUFFICES ASSUME NEW s \in 1 .. 2
               PROVE  Answered(s)' = Answered(s) /\ Busy(s)' = Busy(s) /\ Trims(s)' = Trims(s)
    OBVIOUS
  <2>1. poll'[s].pc = poll[s].pc /\ poll'[s].got = poll[s].got /\ poll'[s].n = poll[s].n /\ queue' = queue
    BY <1>1, <1>3
  <2>2. Answered(s)' = Answered(s)
    BY <2>1 DEF Answered
  <2>3. Busy(s)' = Busy(s)
    BY <2>1 DEF Busy
  <2>4. Trims(s)' = Trims(s)
    BY <2>1 DEF Trims
  <2>5. QED
    BY <2>2, <2>3, <2>4
<1>7. CASE hand = <<>>
  <2>1. gone' = gone
    BY <1>1, <1>7, EmptyList
  <2>2. OnWay' = OnWay /\ FromTo' = FromTo
    BY <1>1, <1>6, <1>7, <2>1 DEF OnWay, FromTo
  <2>3. QED
    BY <1>1, <1>3, <1>5, <1>6, <1>7, <2>1, <2>2 DEF Steady
<1>8. CASE hand # <<>>
  <2>1. \A s \in 1 .. 2 : poll[s].pc = "idle" /\ poll[s].got = <<>>
    BY <1>5, <1>8 DEF Steady, Busy
  <2>2. InLine(heard, hand, queue, FromTo) /\ gone \subseteq 1 .. Len(pushed)
    BY <1>5, <2>1, Quiet DEF Steady
  <2>3. Nums(hand) \subseteq FromTo
    BY <2>2 DEF InLine
  <2>4. FromTo' = FromTo \ Nums(hand) /\ gone' \subseteq 1 .. Len(pushed')
    BY <1>1, <2>2, <2>3 DEF FromTo
  <2>5. InLine(heard, <<>>, queue, FromTo \ Nums(hand))
    BY <2>2, LineLoses
  <2>6. OnWay' = <<>>
    BY <1>1, <1>3, <2>1 DEF OnWay, Busy, Answered
  <2>7. InLine(heard', OnWay', queue', FromTo')
    BY <1>1, <2>4, <2>5, <2>6
  <2>8. QED
    BY <1>1, <1>3, <2>1, <2>4, <2>7 DEF Steady, Busy
<1>9. QED
  BY <1>7, <1>8

\* A new update joins the queue, or is dropped for a suspended bot.
LEMMA PostFeed ==
  ASSUME FeedInv, NEW b \in Peers, Post(b)
  PROVE  FeedInv'
<1> DEFINE u == [n |-> Len(pushed) + 1, by |-> b, room |-> IF load.enc THEN b ELSE Nothing]
<1>1. /\ UNCHANGED <<hand, poll, heard, odd>> /\ pushed' = Append(pushed, u)
      /\ queue' = IF row.active THEN Append(queue, u) ELSE queue
      /\ gone' = IF row.active THEN gone ELSE gone \cup {u.n}
  BY DEF Post, process
<1>2. u.n = Len(pushed) + 1
  OBVIOUS
<1> HIDE DEF u
<1>3. PICK S : pushed \in Seq(S)
  BY DEF FeedInv, PollShape
<1>4. /\ Len(pushed) \in Nat /\ Len(pushed') = Len(pushed) + 1
      /\ pushed' \in Seq(S \cup {u})
  <2>1. pushed \in Seq(S \cup {u})
    BY <1>3
  <2>2. QED
    BY <1>1, <2>1
<1>5. PollShape'
  BY <1>1, <1>4 DEF FeedInv, PollShape
<1> SUFFICES ASSUME "twice" \notin odd'
             PROVE  Steady'
  BY <1>5 DEF FeedInv
<1>6. Steady
  BY <1>1 DEF FeedInv
<1>7. gone \subseteq 1 .. Len(pushed) /\ InLine(heard, OnWay, queue, FromTo) /\ List(queue)
  BY <1>6 DEF Steady, InLine
<1>8. OnWay' = OnWay
  BY <1>1 DEF OnWay, Busy, Answered
<1>9. \A i : i \in 1 .. (Len(pushed) + 1) <=> i \in 1 .. Len(pushed) \/ i = Len(pushed) + 1
  BY <1>4
<1>10. Len(pushed) + 1 \notin 1 .. Len(pushed)
  BY <1>4
<1>11. gone' \subseteq 1 .. Len(pushed')
  BY <1>1, <1>2, <1>4, <1>7, <1>9
<1>12. InLine(heard', OnWay', queue', FromTo')
  <2>1. CASE row.active
    <3>1. FromTo' = FromTo \cup {u.n}
      BY <1>1, <1>2, <1>4, <1>7, <1>9, <1>10, <2>1 DEF FromTo
    <3>2. u.n \in Nat /\ \A x \in FromTo : x < u.n
      BY <1>2, <1>4 DEF FromTo
    <3>3. InLine(heard, OnWay, Append(queue, u), FromTo \cup {u.n})
      BY <1>7, <3>2, LineGrows
    <3>4. QED
      BY <1>1, <1>8, <2>1, <3>1, <3>3
  <2>2. CASE ~ row.active
    <3>1. FromTo' = FromTo
      BY <1>1, <1>2, <1>4, <1>7, <1>9, <1>10, <2>2 DEF FromTo
    <3>2. QED
      BY <1>1, <1>7, <1>8, <2>2, <3>1
  <2>3. QED
    BY <2>1, <2>2
<1>13. ASSUME NEW s \in 1 .. 2, poll[s].pc = "trim"
       PROVE  Trims(s)'
  <2>1. PICK pre : /\ List(pre) /\ poll[s].n \in 0 .. Len(queue)
                   /\ poll[s].got = pre \o SubSeq(queue, 1, poll[s].n)
    BY <1>6, <1>13 DEF Steady, Trims
  <2>2. poll[s].n \in 0 .. Len(queue') /\ SubSeq(queue', 1, poll[s].n) = SubSeq(queue, 1, poll[s].n)
    <3> DEFINE k == poll[s].n
    <3>1. k \in 0 .. Len(queue)
      BY <2>1
    <3> HIDE DEF k
    <3>2. PICK R : queue \in Seq(R)
      BY <1>7 DEF List
    <3>3. Len(queue) \in Nat /\ k \in Nat /\ k <= Len(queue)
      BY <3>1, <3>2
    <3>4. CASE row.active
      <4>1. queue' = Append(queue, u) /\ queue \in Seq(R \cup {u})
        BY <1>1, <3>2, <3>4
      <4>2. Len(queue') = Len(queue) + 1 /\ \A i \in 1 .. Len(queue) : queue'[i] = queue[i]
        BY <4>1
      <4>3. k \in 0 .. Len(queue')
        BY <3>3, <4>2
      <4>4. SubSeq(queue', 1, k) = SubSeq(queue, 1, k)
        <5>1. \A i \in 1 .. k : i \in 1 .. Len(queue)
          BY <3>3
        <5>2. \A i \in 1 .. k : queue'[i] = queue[i]
          BY <4>2, <5>1
        <5>3. queue' \in Seq(R \cup {u})
          BY <4>1
        <5>4. /\ SubSeq(queue', 1, k) = [i \in 1 .. k |-> queue'[i]]
              /\ SubSeq(queue, 1, k) = [i \in 1 .. k |-> queue[i]]
          BY <3>2, <3>3, <4>2, <5>3
        <5>5. QED
          BY <5>2, <5>4
      <4>5. QED
        BY <4>3, <4>4 DEF k
    <3>5. CASE ~ row.active
      BY <1>1, <3>1, <3>5 DEF k
    <3>6. QED
      BY <3>4, <3>5
  <2>3. QED
    BY <1>1, <2>1, <2>2 DEF Trims
<1>14. QED
  BY <1>1, <1>6, <1>11, <1>12, <1>13 DEF Steady, Busy

\* The queue expires while no request runs.
LEMMA ExpireFeed ==
  ASSUME FeedInv, Expire
  PROVE  FeedInv'
<1>1. /\ UNCHANGED <<hand, poll, pushed, heard, odd>> /\ queue' = <<>> /\ gone' = gone \cup Nums(queue)
      /\ \A s \in 1 .. 2 : poll[s].pc = "idle"
  BY DEF Expire, process, Nums
<1>2. PollShape'
  BY <1>1 DEF FeedInv, PollShape
<1>3. ASSUME "twice" \notin odd
      PROVE  /\ \A s \in 1 .. 2 : poll'[s].pc = "idle" /\ poll'[s].got = <<>>
             /\ gone' \subseteq 1 .. Len(pushed')
             /\ InLine(heard', hand', queue', FromTo')
  <2>1. Steady
    BY <1>3 DEF FeedInv
  <2>2. \A s \in 1 .. 2 : poll[s].pc = "idle" /\ poll[s].got = <<>>
    BY <1>1, <2>1 DEF Steady
  <2>3. InLine(heard, hand, queue, FromTo) /\ gone \subseteq 1 .. Len(pushed)
    BY <2>1, <2>2, Quiet DEF Steady
  <2>4. Nums(queue) \subseteq FromTo
    BY <2>3 DEF InLine
  <2>5. FromTo' = FromTo \ Nums(queue) /\ gone' \subseteq 1 .. Len(pushed')
    BY <1>1, <2>3, <2>4 DEF FromTo
  <2>6. InLine(heard, hand, <<>>, FromTo \ Nums(queue))
    BY <2>3, LineLoses
  <2>7. QED
    BY <1>1, <2>2, <2>5, <2>6
<1>4. QED
  BY <1>1, <1>2, <1>3, FeedQuiet

LEMMA FeedStep ==
  ASSUME FeedInv, [BotsNext]_botVars
  PROVE  FeedInv'
<1>1. ASSUME NEW s \in 1 .. 2, Ask(s) \/ Read(s) \/ Pop(s) \/ Extra(s) \/ Trim(s) \/ Answer(s)
      PROVE  FeedInv'
  BY <1>1, AskFeed, PollsFeed, AnswerFeed
<1>2. CASE Crash \/ Handle \/ Expire \/ \E b \in Peers : Post(b)
  BY <1>2, CrashFeed, HandleFeed, ExpireFeed, PostFeed
<1>3. ASSUME UNCHANGED <<hand, poll, queue, pushed, heard, gone>> /\ odd \subseteq odd'
      PROVE  FeedInv'
  BY <1>3, FeedUntouched
<1> USE DEF server, process, files, hist, Flag
<1>4. ASSUME NEW w \in Loops, UpAuth(w) \/ UpDevice(w) \/ UpState(w) \/ UpKeys(w) \/ UpDrop(w)
      PROVE  FeedInv'
  BY <1>3, <1>4 DEF UpAuth, UpDevice, UpState, UpKeys, UpDrop
<1>5. ASSUME NEW w \in Loops, Snap(w) \/ Open(w) \/ Write(w) \/ Rename(w)
      PROVE  FeedInv'
  BY <1>3, <1>5 DEF Snap, Open, Write, Rename
<1>6. CASE StartBot \/ GetMe \/ Reload \/ Unreadable \/ Create \/ Paired
  BY <1>3, <1>6 DEF StartBot, GetMe, Reload, Unreadable, Create, Paired
<1>7. CASE SyncAsk \/ SyncDrain \/ SyncFail \/ Orphan \/ SyncReceive \/ SyncUploaded
  BY <1>3, <1>7 DEF SyncAsk, SyncDrain, SyncFail, Orphan, SyncReceive, SyncUploaded
<1>8. CASE ReplyDrain \/ ReplyUploaded \/ ReplyPost
  BY <1>3, <1>8 DEF ReplyDrain, ReplyUploaded, ReplyPost
<1>9. ASSUME NEW b \in Peers, Track(b) \/ Give(b)
      PROVE  FeedInv'
  BY <1>3, <1>9 DEF Track, Give
<1>10. CASE AdminRead \/ Enable \/ Disable \/ Rotate \/ Suspend
  BY <1>3, <1>10 DEF AdminRead, Enable, Disable, Rotate, Suspend, AdminDone
<1>11. CASE UNCHANGED botVars
  BY <1>3, <1>11 DEF botVars
<1>12. QED
  BY <1>1, <1>2, <1>4, <1>5, <1>6, <1>7, <1>8, <1>9, <1>10, <1>11 DEF BotsNext

\* Updates reach the handlers in the order they were queued, each once, apart
\* from those lost with an answer, a process or the queue's expiry, while one
\* request drains the queue (bot-updates.ts, getUpdates/route.ts, bot.ts).
THEOREM UpdatesInOrder == BotsSpec => []HeardInOrder
<1>1. BotsInit => FeedInv
  BY FeedInit
<1>2. FeedInv /\ [BotsNext]_botVars => FeedInv'
  BY FeedStep
<1>3. FeedInv => HeardInOrder
  BY FeedSays
<1>4. QED
  BY <1>1, <1>2, <1>3, PTL DEF BotsSpec

-----------------------------------------------------------------------------
(* The snapshot *)

\* Nothing happened that the snapshot does not answer for.
Calm == odd \cap {"unsaved", "lapped", "refused"} = {}

\* The machine that lives, or that the next start will make live.
Cur == IF mach = Nothing THEN disk.data ELSE mach

Writes(w) == save[w].pc \in {"write", "rename"}
Copied(w) == save[w].pc \in {"open", "write", "rename"}

\* A copy of the machine as it is, and one that is still to be taken.
Current(w) == Copied(w) /\ save[w].data = mach
Owes(w) ==
  \/ save[w].pc = "snap"
  \/ w = "sync" /\ sync.pc = "up"
  \/ w = "reply" /\ reply.pc \in {"up", "post"}

\* A machine holds the keys it has yet to publish.
Good(m) == m \in OlmMachine /\ m.unpub \subseteq m.own /\ IsFiniteSet(m.unpub)
Holds(f) == f = Nothing \/ (f \in SnapshotFile /\ (f.data = Nothing \/ Good(f.data)))

KeepTypes ==
  /\ starts \in Nat
  /\ mach = Nothing \/ Good(mach)
  /\ Holds(disk) /\ Holds(tmp)
  /\ DOMAIN save = Loops
  /\ \A w \in Loops : DOMAIN save[w] = {"pc", "data"} /\ (save[w].data = Nothing \/ Good(save[w].data))
  /\ DOMAIN sync = {"pc", "rows", "n", "late"} /\ sync.n \in Nat
  /\ DOMAIN reply = {"pc", "of"}
  /\ DOMAIN up = Loops
  /\ \A w \in Loops : DOMAIN up[w] = Fields /\ up[w].keys \subseteq Nat \X Nat /\ IsFiniteSet(up[w].keys)
  /\ IsFiniteSet(otks) /\ \A o \in otks : DOMAIN o = {"dev", "key", "claimed"}
  /\ \E S : box \in Seq(S)
  /\ \A r \in Rows \cup sync.rows : r.room \in Peers
  /\ DOMAIN tab = Peers /\ \A p \in Peers : DOMAIN tab[p] = {"known", "gave"}

\* What runs has a machine, and only what runs asks, replies or saves.
Stage ==
  /\ boot \in {"off", "getMe", "open"} => mach = Nothing
  /\ boot = "pair" => mach # Nothing /\ disk # Nothing
  /\ boot # "run" => sync.pc = "poll" /\ reply = NoReply /\ \A w \in Loops : save[w] = NoSave
  /\ sync.pc # "poll" => mach # Nothing
  /\ reply # NoReply => mach # Nothing
  /\ sync.pc # "got" => sync.rows = {}
  /\ save["sync"].pc # "idle" => sync.pc = "save"
  /\ save["reply"].pc # "idle" => reply.pc = "save"
  /\ disk = Nothing => /\ mach = Nothing /\ tmp = Nothing /\ otks = {} /\ box = <<>> /\ \A w \in Loops : up[w].keys = {}
                       /\ \A p \in Peers : tab[p].gave = {}

\* One writer of .tmp, and the file is whole when it is renamed.
FileWhole ==
  /\ disk.data # Nothing /\ disk.by = {}
  /\ \A v, w \in Loops : Writes(v) /\ Writes(w) => v = w
  /\ \A w \in Loops : Copied(w) => save[w].data # Nothing
  /\ \A w \in Loops : save[w].pc = "write" => tmp # Nothing /\ tmp.by = {w} /\ ~ tmp.mix
  /\ \A w \in Loops : save[w].pc = "rename" => tmp # Nothing /\ tmp.by = {} /\ tmp.data = save[w].data
  /\ (\A w \in Loops : ~ Writes(w)) => tmp = Nothing \/ tmp.by = {}

\* What the file does not have yet, somebody is about to save; and who is about
\* to save an older copy does not come last.
Saved ==
  /\ boot = "run" /\ mach # Nothing => disk.data = mach \/ \E w \in Loops : Owes(w) \/ Current(w)
  /\ \A w \in Loops : Copied(w) =>
       Current(w) \/ \E v \in Loops \ {w} : Owes(v) \/ (save[v].pc = "open" /\ Current(v))

\* The machine has its half of each key that is or will be on the server, and the
\* rooms of which the server holds no more word.
Halves ==
  /\ \A o \in otks : o.key \in Cur.own
  /\ \A w \in Loops : up[w].keys \subseteq Cur.own
RoomTold(p) ==
  \/ p \in Cur.rooms
  \/ \E r \in Rows \cup sync.rows : r.room = p /\ r.dev = Cur.dev /\ r.key \in Cur.own
RoomsHeard == "lostRows" \notin odd => \A p \in Peers : Cur.dev \in tab[p].gave => RoomTold(p)

KeepInv == KeepTypes /\ Stage /\ (Calm /\ disk # Nothing => FileWhole /\ Saved /\ Halves /\ RoomsHeard)

LEMMA Exists == /\ \A m : Good(m) => m # Nothing
                /\ \A f \in SnapshotFile : f # Nothing
BY BotsAssumption DEF Good

LEMMA GoodFields ==
  ASSUME NEW m, Good(m)
  PROVE  /\ m.dev \in Devs /\ m.shared \in BOOLEAN /\ m.next \in Nat
         /\ m.own \subseteq Nat \X Nat /\ m.unpub \subseteq m.own /\ m.rooms \subseteq Peers
         /\ IsFiniteSet(m.unpub)
         /\ m = [dev |-> m.dev, shared |-> m.shared, next |-> m.next, own |-> m.own, unpub |-> m.unpub, rooms |-> m.rooms]
BY DEF Good, OlmMachine

\* The image of a finite set is finite.
LEMMA FiniteImage ==
  ASSUME NEW S, IsFiniteSet(S), NEW f
  PROVE  IsFiniteSet({f[x] : x \in S})
<1>1. PICK T : T = {f[x] : x \in S}
  OBVIOUS
<1>2. PICK g : g = [x \in S |-> f[x]]
  OBVIOUS
<1>3. g \in [S -> T] /\ \A y \in T : \E x \in S : g[x] = y
  BY <1>1, <1>2
<1>4. g \in Surjection(S, T)
  BY <1>3 DEF Surjection
<1>5. QED
  BY <1>1, <1>4, FS_Surjection

\* What the calls of an Olm machine leave of it.
LEMMA MachineFresh ==
  ASSUME NEW d \in Devs
  PROVE  Good(Fresh(d)) /\ Fresh(d).dev = d /\ Fresh(d).rooms = {}
<1>1. IsFiniteSet({})
  BY FS_EmptySet
<1>2. QED
  BY <1>1 DEF Fresh, Good, OlmMachine

LEMMA MachineSent ==
  ASSUME NEW m, Good(m)
  PROVE  Good(Sent(m)) /\ Sent(m).dev = m.dev /\ Sent(m).own = m.own /\ Sent(m).rooms = m.rooms
<1>1. PICK s : s = Sent(m)
  OBVIOUS
<1>2. s = [m EXCEPT !.shared = TRUE, !.unpub = {}]
  BY <1>1 DEF Sent
<1>3. s \in OlmMachine /\ s.unpub = {} /\ s.dev = m.dev /\ s.own = m.own /\ s.rooms = m.rooms
  BY <1>2 DEF OlmMachine, Good
<1>4. QED
  BY <1>1, <1>3, FS_EmptySet DEF Good

LEMMA MachineReceives ==
  ASSUME NEW m, Good(m), NEW rows, \A r \in rows : r.room \in Peers
  PROVE  /\ Good(Receive(m, rows)) /\ Receive(m, rows).dev = m.dev /\ Receive(m, rows).own = m.own
         /\ Receive(m, rows).rooms = m.rooms \cup {r.room : r \in {x \in rows : x.dev = m.dev /\ x.key \in m.own}}
<1>1. PICK s : s = Receive(m, rows)
  OBVIOUS
<1>2. PICK more : more = {r.room : r \in {x \in rows : x.dev = m.dev /\ x.key \in m.own}}
  OBVIOUS
<1>3. s = [m EXCEPT !.rooms = m.rooms \cup more]
  BY <1>1, <1>2 DEF Receive
<1>4. more \subseteq Peers
  BY <1>2
<1>5. s \in OlmMachine /\ s.unpub = m.unpub /\ s.dev = m.dev /\ s.own = m.own /\ s.rooms = m.rooms \cup more
  BY <1>3, <1>4 DEF OlmMachine, Good
<1>6. QED
  BY <1>1, <1>2, <1>5, GoodFields DEF Good

LEMMA MachineGenerates ==
  ASSUME NEW m, Good(m), NEW n \in Nat, starts \in Nat
  PROVE  /\ Good(Generate(m, n)) /\ Generate(m, n).dev = m.dev /\ m.own \subseteq Generate(m, n).own
         /\ Generate(m, n).rooms = m.rooms
<1>1. PICK s : s = Generate(m, n)
  OBVIOUS
<1>2. CASE n >= Pool \/ m.unpub # {} \/ m.next + (Pool - n) - 1 > MaxKeys
  <2>1. s = m
    BY <1>1, <1>2 DEF Generate
  <2>2. QED
    BY <1>1, <2>1
<1>3. CASE ~ (n >= Pool \/ m.unpub # {} \/ m.next + (Pool - n) - 1 > MaxKeys)
  <2>1. PICK new : new = {<<starts, k>> : k \in m.next .. (m.next + (Pool - n) - 1)}
    OBVIOUS
  <2>2. Pool - n \in Nat /\ m.next + (Pool - n) \in Nat
    BY <1>3, GoodFields, BotsAssumption
  <2>3. s = [m EXCEPT !.next = m.next + (Pool - n), !.own = m.own \cup new, !.unpub = new]
    BY <1>1, <1>3, <2>1 DEF Generate
  <2>4. new \subseteq Nat \X Nat
    BY <2>1, <2>2, GoodFields
  <2>5. IsFiniteSet(new)
    <3>1. m.next \in Int /\ m.next + (Pool - n) - 1 \in Int
      BY <2>2, GoodFields
    <3>2. PICK I : I = m.next .. (m.next + (Pool - n) - 1)
      OBVIOUS
    <3>3. IsFiniteSet(I)
      BY <3>1, <3>2, FS_Interval
    <3>7. PICK f : f = [k \in I |-> <<starts, k>>]
      OBVIOUS
    <3>4. IsFiniteSet({<<starts, k>> : k \in I})
      <4>1. {f[k] : k \in I} = {<<starts, k>> : k \in I}
        BY <3>7
      <4>2. QED
        BY <4>1, <3>3, FiniteImage
    <3>5. QED
      BY <2>1, <3>2, <3>4
  <2>6. s \in OlmMachine /\ s.unpub = new /\ s.own = m.own \cup new /\ s.dev = m.dev /\ s.rooms = m.rooms
    BY <2>2, <2>3, <2>4 DEF OlmMachine, Good
  <2>7. QED
    BY <1>1, <2>5, <2>6 DEF Good
<1>4. QED
  BY <1>2, <1>3

LEMMA BodyKeys ==
  ASSUME NEW m, Good(m)
  PROVE  /\ Body(m).keys = m.unpub /\ DOMAIN Body(m) = Fields
         /\ Body(m).keys \subseteq m.own /\ Body(m).keys \subseteq Nat \X Nat /\ IsFiniteSet(Body(m).keys)
         /\ NoUpload.keys = {} /\ DOMAIN NoUpload = Fields
<1>1. Body(m).keys = m.unpub /\ NoUpload.keys = {}
  BY DEF Body, NoUpload
<1>2. QED
  BY <1>1, BodyShape, GoodFields

-----------------------------------------------------------------------------

\* Of a step that leaves machine, files and what is to be saved: nothing is lost.
LEMMA CalmStays == ASSUME odd \subseteq odd' PROVE Calm' => Calm
BY DEF Calm

\* Keys and rooms, when the machine only learns.
LEMMA HalvesKeep ==
  ASSUME Halves, Cur.own \subseteq Cur'.own,
         \A o \in otks' : (\E b \in otks : b.key = o.key) \/ o.key \in Cur'.own,
         \A w \in Loops : up'[w].keys \subseteq up[w].keys \cup Cur'.own
  PROVE  Halves'
BY DEF Halves

LEMMA RoomsKeep ==
  ASSUME RoomsHeard, odd \subseteq odd', Cur'.dev = Cur.dev, Cur.own \subseteq Cur'.own, Cur.rooms \subseteq Cur'.rooms,
         "lostRows" \in odd' \/ Rows \cup sync.rows \subseteq Rows' \cup sync'.rows,
         \A p \in Peers : tab'[p].gave \subseteq tab[p].gave
  PROVE  RoomsHeard'
BY DEF RoomsHeard, RoomTold

\* A step beside the machine: it starts no loop, saves nothing and takes no key.
LEMMA Beside ==
  ASSUME KeepInv, UNCHANGED <<mach, disk, tmp, save, sync, reply, otks, box>>, odd \subseteq odd', starts' \in Nat,
         boot' = boot \/ (boot \in {"off", "getMe", "open"} /\ boot' \in {"off", "getMe", "open", "run"}),
         DOMAIN up' = Loops, \A w \in Loops : DOMAIN up'[w] = Fields /\ up'[w].keys \subseteq up[w].keys,
         DOMAIN tab' = Peers, \A p \in Peers : DOMAIN tab'[p] = {"known", "gave"} /\ tab'[p].gave = tab[p].gave
  PROVE  KeepInv'
<1>1. KeepTypes'
  <2>1. \A w \in Loops : up'[w].keys \subseteq Nat \X Nat /\ IsFiniteSet(up'[w].keys)
    BY FS_Subset DEF KeepInv, KeepTypes
  <2>2. Rows' = Rows
    BY DEF Rows
  <2>3. QED
    BY <2>1, <2>2 DEF KeepInv, KeepTypes, Good, Holds
<1>2. Stage'
  BY DEF KeepInv, Stage
<1>3. ASSUME Calm', disk' # Nothing
      PROVE  FileWhole' /\ Saved' /\ Halves' /\ RoomsHeard'
  <2>1. FileWhole /\ Saved /\ Halves /\ RoomsHeard /\ Cur' = Cur /\ Rows' = Rows
    BY <1>3, CalmStays DEF KeepInv, Cur, Rows
  <2>2. FileWhole'
    BY <2>1 DEF FileWhole, Writes, Copied
  <2>3. Saved'
    BY <2>1 DEF Saved, KeepInv, Stage, Copied, Current, Owes, NoSave
  <2>4. Halves'
    BY <2>1, HalvesKeep
  <2>5. RoomsHeard'
    BY <2>1, RoomsKeep
  <2>6. QED
    BY <2>2, <2>3, <2>4, <2>5
<1>4. QED
  BY <1>1, <1>2, <1>3 DEF KeepInv

Untouched == UNCHANGED <<mach, disk, tmp, save, sync, reply, otks, box>>

LEMMA OddGrows == ASSUME NEW f, Flag(f) PROVE odd \subseteq odd'
BY DEF Flag

\* The steps in which neither the machine nor what is stored of it takes part.
LEMMA BesideUploads ==
  ASSUME KeepInv, NEW w \in Loops, UpAuth(w) \/ UpDevice(w) \/ UpState(w) \/ UpDrop(w)
  PROVE  KeepInv'
<1>1. Untouched /\ odd' = odd /\ starts' = starts /\ boot' = boot /\ tab' = tab
  BY DEF Untouched, UpAuth, UpDevice, UpState, UpDrop, files, hist, server
<1>2. PICK u : Uploads(w, u) /\ DOMAIN u = Fields /\ u.keys \subseteq up[w].keys
  <2>1. CASE UpAuth(w)
    <3>1. PICK u : /\ u = IF ~Auth \/ (~up[w].dk /\ row.dev = Nothing) THEN [up[w] EXCEPT !.pc = "failed"]
                          ELSE [up[w] EXCEPT !.pc = IF @ = "auth" /\ up[w].dk THEN "device" ELSE "keys",
                                       !.seen = row.st, !.dev = IF up[w].dk THEN @ ELSE row.dev]
      OBVIOUS
    <3>2. Uploads(w, u)
      BY <2>1, <3>1 DEF UpAuth
    <3>3. DOMAIN u = Fields /\ u.keys = up[w].keys
      BY <3>1 DEF KeepInv, KeepTypes, Fields
    <3>4. QED
      BY <3>2, <3>3
  <2>2. CASE UpDevice(w) \/ UpState(w)
    <3>1. PICK pc : Uploads(w, [up[w] EXCEPT !.pc = pc])
      BY <2>2 DEF UpDevice, UpState
    <3>2. PICK u : u = [up[w] EXCEPT !.pc = pc]
      OBVIOUS
    <3>3. DOMAIN u = Fields /\ u.keys = up[w].keys
      BY <3>2 DEF KeepInv, KeepTypes, Fields
    <3>4. QED
      BY <3>1, <3>2, <3>3
  <2>3. CASE UpDrop(w)
    <3>1. Uploads(w, NoUpload) /\ DOMAIN NoUpload = Fields /\ NoUpload.keys = {}
      BY <2>3 DEF UpDrop, NoUpload, Fields
    <3>2. QED
      BY <3>1
  <2>4. QED
    BY <2>1, <2>2, <2>3
<1>3. DOMAIN up' = Loops /\ \A v \in Loops : DOMAIN up'[v] = Fields /\ up'[v].keys \subseteq up[v].keys
  BY <1>2 DEF Uploads, KeepInv, KeepTypes
<1>4. QED
  BY <1>1, <1>3, Beside DEF Untouched, KeepInv, KeepTypes

LEMMA BesideOthers ==
  ASSUME KeepInv,
         \/ \E s \in 1..2 : Ask(s) \/ Read(s) \/ Pop(s) \/ Extra(s) \/ Trim(s) \/ Answer(s)
         \/ \E p \in Peers : Post(p)
         \/ Expire \/ AdminRead \/ Enable \/ Disable \/ Suspend
  PROVE  KeepInv'
<1>1. Untouched /\ starts' = starts /\ boot' = boot /\ tab' = tab /\ up' = up
  BY DEF Untouched, Ask, Read, Pop, Extra, Trim, Answer, Post, Expire, AdminRead, Enable, Disable, Suspend, AdminDone,
     files, hist, server, process
<1>2. odd \subseteq odd'
  BY DEF Ask, Read, Pop, Extra, Trim, Answer, Post, Expire, AdminRead, Enable, Disable, Suspend, AdminDone, Flag, hist
<1>3. QED
  BY <1>1, <1>2, Beside DEF Untouched, KeepInv, KeepTypes

LEMMA BesideStart ==
  ASSUME KeepInv, StartBot \/ GetMe \/ Unreadable
  PROVE  KeepInv'
<1>1. Untouched /\ starts' \in Nat /\ odd' = odd /\ tab' = tab /\ up' = up
  BY DEF Untouched, StartBot, GetMe, Unreadable, files, hist, server, KeepInv, KeepTypes
<1>2. boot \in {"off", "getMe", "open"} /\ boot' \in {"off", "getMe", "open", "run"}
  BY DEF StartBot, GetMe, Unreadable
<1>3. QED
  BY <1>1, <1>2, Beside DEF Untouched, KeepInv, KeepTypes

LEMMA BesideTrack ==
  ASSUME KeepInv, NEW p \in Peers, Track(p)
  PROVE  KeepInv'
<1>1. Untouched /\ starts' = starts /\ odd' = odd /\ boot' = boot /\ up' = up /\ tab' = [tab EXCEPT ![p].known = devices]
  BY DEF Untouched, Track, files, hist, process
<1>2. DOMAIN tab' = Peers /\ \A q \in Peers : DOMAIN tab'[q] = {"known", "gave"} /\ tab'[q].gave = tab[q].gave
  BY <1>1 DEF KeepInv, KeepTypes
<1>3. QED
  BY <1>1, <1>2, Beside DEF Untouched, KeepInv, KeepTypes

\* Nothing is said of the machine when none is on file.
LEMMA NoneYet ==
  ASSUME KeepInv, Calm', odd \subseteq odd', mach # Nothing \/ disk # Nothing
  PROVE  FileWhole /\ Saved /\ Halves /\ RoomsHeard
BY CalmStays DEF KeepInv, Stage

\* keys/upload stores keys of which the machine has the other half.
LEMMA UpKeysKeeps ==
  ASSUME KeepInv, NEW w \in Loops, UpKeys(w)
  PROVE  KeepInv'
<1> DEFINE new == {k \in up[w].keys : \A o \in otks : o.dev # up[w].dev \/ o.key[2] # k[2]}
           add == {[dev |-> up[w].dev, key |-> k, claimed |-> FALSE] : k \in new}
<1>1. /\ UNCHANGED <<mach, disk, tmp, save, sync, reply, box, tab, starts, odd, boot>>
      /\ otks' = otks \cup add /\ Uploads(w, [up[w] EXCEPT !.pc = "done"])
  BY DEF UpKeys, files, hist
<1>2. DOMAIN up' = Loops /\ \A v \in Loops : DOMAIN up'[v] = Fields /\ up'[v].keys = up[v].keys
  BY <1>1 DEF Uploads, KeepInv, KeepTypes, Fields
<1>3. IsFiniteSet(add)
  <2>1. PICK d : d = up[w].dev
    OBVIOUS
  <2>2. PICK f : f = [k \in new |-> [dev |-> d, key |-> k, claimed |-> FALSE]]
    OBVIOUS
  <2>3. add = {f[k] : k \in new}
    BY <2>1, <2>2
  <2>4. IsFiniteSet(new)
    BY FS_Subset DEF KeepInv, KeepTypes
  <2> HIDE DEF new, add
  <2>5. QED
    BY <2>3, <2>4, FiniteImage
<1>4. \A o \in add : DOMAIN o = {"dev", "key", "claimed"} /\ o.key \in up[w].keys
  OBVIOUS
<1> HIDE DEF add
<1>5. KeepTypes'
  <2>1. IsFiniteSet(otks')
    BY <1>1, <1>3, FS_Union DEF KeepInv, KeepTypes
  <2>2. Rows' = Rows
    BY <1>1 DEF Rows
  <2>3. QED
    BY <1>1, <1>2, <1>4, <2>1, <2>2 DEF KeepInv, KeepTypes, Good, Holds
<1>6. Stage'
  BY <1>1, <1>2, <1>4 DEF KeepInv, Stage
<1>7. ASSUME Calm', disk' # Nothing
      PROVE  FileWhole' /\ Saved' /\ Halves' /\ RoomsHeard'
  <2>1. FileWhole /\ Saved /\ Halves /\ RoomsHeard /\ Cur' = Cur /\ Rows' = Rows
    BY <1>1, <1>7, NoneYet DEF Cur, Rows
  <2>2. FileWhole' /\ Saved'
    BY <1>1, <2>1 DEF FileWhole, Writes, Copied, Saved, Current, Owes
  <2>3. Halves'
    BY <1>1, <1>2, <1>4, <2>1, HalvesKeep DEF Halves
  <2>4. RoomsHeard'
    BY <1>1, <2>1, RoomsKeep
  <2>5. QED
    BY <2>2, <2>3, <2>4
<1>8. QED
  BY <1>5, <1>6, <1>7 DEF KeepInv

\* Whoever saves has a machine.
LEMMA SaversRun ==
  ASSUME KeepInv, NEW w \in Loops, save[w].pc # "idle"
  PROVE  /\ mach # Nothing /\ Good(mach) /\ disk # Nothing /\ boot = "run"
         /\ w = "sync" => sync.pc = "save"
         /\ w = "reply" => reply.pc = "save"
BY DEF KeepInv, Stage, KeepTypes, Loops, NoReply, NoSave

\* A step of a save that is not its last.
LEMMA SaveGoesOn ==
  ASSUME KeepInv, NEW w \in Loops, save[w].pc # "idle", NEW s, Saves(w, s), s.pc # "idle",
         DOMAIN s = {"pc", "data"}, s.data = Nothing \/ Good(s.data),
         UNCHANGED <<boot, mach, sync, reply, up, otks, box, tab, starts>>, odd \subseteq odd',
         Holds(disk') /\ disk' # Nothing, Holds(tmp'),
         Calm' => disk' = disk /\ FileWhole' /\ Saved'
  PROVE  KeepInv'
<1>1. DOMAIN save' = Loops /\ save'[w] = s /\ \A v \in Loops : v # w => save'[v] = save[v]
  BY DEF Saves, KeepInv, KeepTypes
<1>2. Rows' = Rows
  BY DEF Rows
<1>3. KeepTypes'
  BY <1>1, <1>2 DEF KeepInv, KeepTypes, Good, Holds
<1>4. Stage'
  BY <1>1, SaversRun DEF KeepInv, Stage, NoSave, Loops
<1>5. ASSUME Calm'
      PROVE  FileWhole' /\ Saved' /\ Halves' /\ RoomsHeard'
  <2>1. Halves /\ RoomsHeard /\ Cur' = Cur
    BY <1>5, SaversRun, NoneYet DEF Cur
  <2>2. Halves'
    BY <2>1, HalvesKeep
  <2>3. RoomsHeard'
    BY <1>2, <2>1, RoomsKeep
  <2>4. QED
    BY <1>5, <2>2, <2>3
<1>6. QED
  BY <1>3, <1>4, <1>5 DEF KeepInv

LEMMA SnapKeeps ==
  ASSUME KeepInv, NEW w \in Loops, Snap(w)
  PROVE  KeepInv'
<1>1. /\ save[w].pc = "snap" /\ Saves(w, [pc |-> "open", data |-> mach])
      /\ UNCHANGED <<boot, mach, disk, tmp, sync, reply, up, otks, box, tab, starts, odd>>
  BY DEF Snap, files, hist, server
<1>2. DOMAIN save' = Loops /\ save'[w] = [pc |-> "open", data |-> mach] /\ \A v \in Loops : v # w => save'[v] = save[v]
  BY <1>1 DEF Saves, KeepInv, KeepTypes
<1>3. mach # Nothing /\ Good(mach) /\ disk # Nothing
  BY <1>1, SaversRun
<1>4. ASSUME Calm'
      PROVE  FileWhole' /\ Saved'
  <2>1. FileWhole /\ Saved
    BY <1>1, <1>3, <1>4, NoneYet
  <2>2. FileWhole'
    BY <1>1, <1>2, <1>3, <2>1 DEF FileWhole, Writes, Copied
  <2>3. Current(w)'
    BY <1>1, <1>2 DEF Current, Copied
  <2>4. \A v \in Loops : v # w => (Copied(v)' <=> Copied(v)) /\ (Current(v)' <=> Current(v)) /\ (Owes(v)' <=> Owes(v))
    BY <1>1, <1>2 DEF Current, Copied, Owes
  <2>5. Saved'
    BY <1>2, <2>1, <2>3, <2>4 DEF Saved
  <2>6. QED
    BY <2>2, <2>5
<1>5. QED
  BY <1>1, <1>2, <1>3, <1>4, SaveGoesOn DEF KeepInv, KeepTypes, Holds, Good

LEMMA OpenKeeps ==
  ASSUME KeepInv, NEW w \in Loops, Open(w)
  PROVE  KeepInv'
<1> DEFINE f == IF tmp = Nothing THEN [data |-> Nothing, by |-> {w}, mix |-> FALSE]
                ELSE [data |-> Nothing, by |-> tmp.by \cup {w}, mix |-> tmp.by # {}]
           s == [save[w] EXCEPT !.pc = "write"]
<1>1. /\ save[w].pc = "open" /\ Saves(w, s) /\ tmp' = f
      /\ UNCHANGED <<boot, mach, disk, sync, reply, up, otks, box, tab, starts>>
      /\ odd' = odd \cup (IF \E v \in Loops \ {w} : save[v].pc # "idle" THEN {"lapped"} ELSE {})
  BY DEF Open, Flag, server
<1>2. s.pc = "write" /\ s.data = save[w].data /\ DOMAIN s = {"pc", "data"}
  BY DEF KeepInv, KeepTypes
<1>3. DOMAIN save' = Loops /\ save'[w] = s /\ \A v \in Loops : v # w => save'[v] = save[v]
  BY <1>1 DEF Saves, KeepInv, KeepTypes
<1>4. f \in SnapshotFile /\ f.data = Nothing /\ f # Nothing
  <2>1. tmp = Nothing \/ tmp.by \subseteq {"sync", "reply"}
    BY DEF KeepInv, KeepTypes, Holds, SnapshotFile
  <2>2. f \in SnapshotFile /\ f.data = Nothing
    BY <2>1 DEF SnapshotFile, Loops
  <2>3. QED
    BY <2>2, Exists
<1> HIDE DEF s
<1>5. ASSUME Calm'
      PROVE  FileWhole' /\ Saved'
  <2>1. FileWhole /\ Saved
    BY <1>1, <1>5, SaversRun, NoneYet
  <2>2. \A v \in Loops : v # w => save[v].pc = "idle"
    BY <1>1, <1>5 DEF Calm
  <2>3. ~ Writes(w) /\ \A v \in Loops : ~ Writes(v)
    BY <1>1, <2>2 DEF Writes
  <2>4. f.by = {w} /\ ~ f.mix
    BY <2>1, <2>3 DEF FileWhole
  <2>5. FileWhole'
    BY <1>1, <1>2, <1>3, <1>4, <2>1, <2>2, <2>4 DEF FileWhole, Writes, Copied
  <2>6. \A v \in Loops : (Copied(v)' <=> Copied(v)) /\ (Current(v)' <=> Current(v)) /\ (Owes(v)' <=> Owes(v))
    BY <1>1, <1>2, <1>3 DEF Current, Copied, Owes
  <2>7. \A v \in Loops \ {w} : save'[v].pc # "open" /\ save[v].pc # "open" /\ ~ Copied(v)
    BY <1>3, <2>2 DEF Copied
  <2>8. Saved'
    BY <1>1, <2>1, <2>6, <2>7 DEF Saved
  <2>9. QED
    BY <2>5, <2>8
<1> HIDE DEF f
<1>6. Holds(disk') /\ disk' # Nothing /\ Holds(tmp')
  BY <1>1, <1>4, SaversRun DEF KeepInv, KeepTypes, Holds, Good
<1>7. s.data = Nothing \/ Good(s.data)
  BY <1>2 DEF KeepInv, KeepTypes
<1>8. odd \subseteq odd'
  BY <1>1
<1>9. QED
  BY <1>1, <1>2, <1>5, <1>6, <1>7, <1>8, SaveGoesOn

\* What a write leaves in a file.
LEMMA ClosedFile ==
  ASSUME KeepInv, NEW w \in Loops, NEW f \in SnapshotFile, NEW g \in Closed(f, w)
  PROVE  /\ Holds(g) /\ g # Nothing /\ g.by = f.by \ {w} /\ g.mix = f.mix
         /\ ~ f.mix => g.data = save[w].data
<1>1. PICK d \in {save[w].data} \cup (IF f.mix THEN {Nothing} ELSE {}) : g = [f EXCEPT !.data = d, !.by = f.by \ {w}]
  BY DEF Closed
<1>2. d = Nothing \/ Good(d)
  BY DEF KeepInv, KeepTypes
<1>3. g \in SnapshotFile /\ g.data = d /\ g.by = f.by \ {w} /\ g.mix = f.mix
  BY <1>1, <1>2 DEF SnapshotFile, Good
<1>4. QED
  BY <1>1, <1>2, <1>3, Exists DEF Holds

LEMMA WriteKeeps ==
  ASSUME KeepInv, NEW w \in Loops, Write(w)
  PROVE  KeepInv'
<1> DEFINE s == [save[w] EXCEPT !.pc = "rename"]
<1>1. /\ save[w].pc = "write" /\ Saves(w, s)
      /\ UNCHANGED <<boot, mach, sync, reply, up, otks, box, tab, starts, odd>>
      /\ \/ tmp # Nothing /\ tmp' \in Closed(tmp, w) /\ disk' = disk
         \/ disk # Nothing /\ w \in disk.by /\ disk' \in Closed(disk, w) /\ tmp' = tmp
  BY DEF Write, hist, server
<1>2. s.pc = "rename" /\ s.data = save[w].data /\ DOMAIN s = {"pc", "data"}
  BY DEF KeepInv, KeepTypes
<1>3. DOMAIN save' = Loops /\ save'[w] = s /\ \A v \in Loops : v # w => save'[v] = save[v]
  BY <1>1 DEF Saves, KeepInv, KeepTypes
<1> HIDE DEF s
<1>4. Holds(disk') /\ disk' # Nothing /\ Holds(tmp')
  <2>1. Holds(disk) /\ disk # Nothing /\ Holds(tmp)
    BY <1>1, SaversRun DEF KeepInv, KeepTypes
  <2>2. CASE tmp # Nothing /\ tmp' \in Closed(tmp, w) /\ disk' = disk
    <3>1. tmp \in SnapshotFile
      BY <2>1, <2>2 DEF Holds
    <3>2. QED
      BY <2>1, <2>2, <3>1, ClosedFile DEF Holds, Good
  <2>3. CASE disk # Nothing /\ disk' \in Closed(disk, w) /\ tmp' = tmp
    <3>1. disk \in SnapshotFile
      BY <2>1, <2>3 DEF Holds
    <3>2. QED
      BY <2>1, <2>3, <3>1, ClosedFile DEF Holds, Good
  <2>4. QED
    BY <1>1, <2>2, <2>3
<1>5. ASSUME Calm'
      PROVE  disk' = disk /\ FileWhole' /\ Saved'
  <2>1. FileWhole /\ Saved
    BY <1>1, <1>5, SaversRun, NoneYet
  <2>2. tmp # Nothing /\ tmp.by = {w} /\ ~ tmp.mix /\ disk.by = {}
    BY <1>1, <2>1 DEF FileWhole
  <2>3. tmp' \in Closed(tmp, w) /\ disk' = disk /\ tmp \in SnapshotFile
    BY <1>1, <2>2 DEF KeepInv, KeepTypes, Holds
  <2>4. tmp' # Nothing /\ tmp'.by = {} /\ tmp'.data = save[w].data
    BY <2>2, <2>3, ClosedFile
  <2>5. \A v \in Loops : (Writes(v)' <=> Writes(v)) /\ (Copied(v)' <=> Copied(v)) /\ (Current(v)' <=> Current(v))
                         /\ (Owes(v)' <=> Owes(v))
    BY <1>1, <1>2, <1>3 DEF Writes, Current, Copied, Owes
  <2>6. Writes(w) /\ \A v \in Loops : v # w => ~ Writes(v)
    BY <1>1, <2>1 DEF FileWhole, Writes
  <2>7. FileWhole'
    <3>1. \A v \in Loops : v # w => save'[v].pc \notin {"write", "rename"}
      BY <1>3, <2>6 DEF Writes
    <3>2. \A v \in Loops : Copied(v)' => save'[v].data # Nothing
      BY <1>2, <1>3, <2>1, <2>5 DEF FileWhole
    <3>3. QED
      BY <1>2, <1>3, <2>1, <2>3, <2>4, <2>5, <2>6, <3>1, <3>2 DEF FileWhole
  <2>8. Saved'
    <3>1. \A v \in Loops \ {w} : save'[v] = save[v]
      BY <1>3
    <3>2. ASSUME NEW v \in Loops, Copied(v)', ~ Current(v)'
          PROVE  \E u \in Loops \ {v} : Owes(u)' \/ (save'[u].pc = "open" /\ Current(u)')
      <4>1. PICK u \in Loops \ {v} : Owes(u) \/ (save[u].pc = "open" /\ Current(u))
        BY <2>1, <2>5, <3>2 DEF Saved
      <4>2. save[u].pc = "open" => save'[u].pc = "open"
        BY <1>1, <1>3
      <4>3. QED
        BY <2>5, <4>1, <4>2
    <3>3. boot' = "run" /\ mach' # Nothing => disk'.data = mach' \/ \E v \in Loops : Owes(v)' \/ Current(v)'
      BY <1>1, <2>1, <2>3, <2>5 DEF Saved
    <3>4. QED
      BY <3>2, <3>3 DEF Saved
  <2>9. QED
    BY <2>3, <2>7, <2>8
<1>6. s.data = Nothing \/ Good(s.data)
  BY <1>2 DEF KeepInv, KeepTypes
<1>7. QED
  BY <1>1, <1>2, <1>4, <1>5, <1>6, SaveGoesOn

LEMMA RenameKeeps ==
  ASSUME KeepInv, NEW w \in Loops, Rename(w)
  PROVE  KeepInv'
<1>1. /\ save[w].pc = "rename" /\ Saves(w, NoSave) /\ tmp' = Nothing
      /\ disk' = IF tmp = Nothing THEN disk ELSE tmp
      /\ UNCHANGED <<boot, mach, up, otks, box, tab, starts, odd>>
      /\ IF w = "sync" THEN sync' = [NoSync EXCEPT !.late = sync.late] /\ reply' = reply
         ELSE reply' = NoReply /\ sync' = sync
  BY DEF Rename, hist, server
<1>2. DOMAIN save' = Loops /\ save'[w] = NoSave /\ \A v \in Loops : v # w => save'[v] = save[v]
  BY <1>1 DEF Saves, KeepInv, KeepTypes
<1>3. NoSave.pc = "idle" /\ NoSave.data = Nothing /\ DOMAIN NoSave = {"pc", "data"}
  BY DEF NoSave
<1>4. /\ DOMAIN sync' = {"pc", "rows", "n", "late"} /\ sync'.n \in Nat /\ sync'.rows \subseteq sync.rows
      /\ DOMAIN reply' = {"pc", "of"}
  BY <1>1 DEF NoSync, NoReply, KeepInv, KeepTypes
<1>5. mach # Nothing /\ boot = "run" /\ disk # Nothing /\ (w = "sync" => sync.pc = "save") /\ (w = "reply" => reply.pc = "save")
  BY <1>1, SaversRun
<1>6. Rows' = Rows
  BY <1>1 DEF Rows
<1>7. Holds(disk') /\ Holds(tmp') /\ disk' # Nothing
  BY <1>1, <1>5 DEF KeepInv, KeepTypes, Holds, Good
<1>8. KeepTypes'
  BY <1>1, <1>2, <1>3, <1>4, <1>6, <1>7 DEF KeepInv, KeepTypes, Good, Holds
<1>9. sync'.pc # "got" => sync'.rows = {}
  BY <1>1 DEF NoSync, KeepInv, Stage
<1>10. Stage'
  BY <1>1, <1>2, <1>3, <1>5, <1>7, <1>9 DEF KeepInv, Stage, Loops, NoSync, NoReply
<1>11. ASSUME Calm'
       PROVE  FileWhole' /\ Saved' /\ Halves' /\ RoomsHeard'
  <2>1. FileWhole /\ Saved /\ Halves /\ RoomsHeard /\ Cur' = Cur
    BY <1>1, <1>5, <1>11, NoneYet DEF Cur
  <2>2. tmp # Nothing /\ tmp.by = {} /\ tmp.data = save[w].data /\ save[w].data # Nothing /\ disk' = tmp
    BY <1>1, <2>1 DEF FileWhole, Copied
  <2>3. \A v \in Loops : v # w => (Copied(v)' <=> Copied(v)) /\ (Current(v)' <=> Current(v)) /\ (Owes(v)' <=> Owes(v))
    BY <1>1, <1>2 DEF Copied, Current, Owes, Loops
  <2>4. ~ Copied(w)' /\ ~ Owes(w)
    BY <1>1, <1>2, <1>3, <1>5 DEF Copied, Owes
  <2>5. FileWhole'
    BY <1>1, <1>2, <1>3, <2>1, <2>2 DEF FileWhole, Writes, Copied
  <2>6. Saved'
    <3>1. ASSUME NEW v \in Loops, Copied(v)'
          PROVE  Current(v)'
      <4>1. v # w /\ Copied(v)
        BY <2>3, <2>4, <3>1
      <4>2. Current(v) \/ Owes(w) \/ save[w].pc = "open"
        BY <2>1, <4>1 DEF Saved, Loops
      <4>3. QED
        BY <1>1, <2>3, <2>4, <4>1, <4>2
    <3>2. disk'.data = mach' \/ \E v \in Loops : Owes(v)' \/ Current(v)'
      <4>1. CASE Current(w)
        BY <1>1, <2>2, <4>1 DEF Current
      <4>2. CASE ~ Current(w)
        <5>1. Copied(w)
          BY <1>1 DEF Copied
        <5>2. PICK v \in Loops \ {w} : Owes(v) \/ Current(v)
          BY <2>1, <4>2, <5>1 DEF Saved
        <5>3. QED
          BY <2>3, <5>2
      <4>3. QED
        BY <4>1, <4>2
    <3>3. QED
      BY <3>1, <3>2 DEF Saved
  <2>7. Halves'
    BY <1>1, <2>1, HalvesKeep
  <2>8. Rows \cup sync.rows \subseteq Rows' \cup sync'.rows
    BY <1>1, <1>5, <1>6 DEF KeepInv, Stage
  <2>9. RoomsHeard'
    BY <1>1, <2>1, <2>8, RoomsKeep
  <2>10. QED
    BY <2>5, <2>6, <2>7, <2>9
<1>12. QED
  BY <1>8, <1>10, <1>11 DEF KeepInv

\* A step of a loop that leaves the machine and the saves as they are.
LEMMA LoopGoesOn ==
  ASSUME KeepInv, KeepTypes', Stage', UNCHANGED <<boot, mach, disk, tmp, save, otks, tab>>, odd \subseteq odd',
         \A w \in Loops : Owes(w) => Owes(w)',
         \A w \in Loops : up'[w].keys \subseteq up[w].keys \/ (mach # Nothing /\ up'[w].keys \subseteq mach.own),
         "lostRows" \in odd' \/ Rows \cup sync.rows \subseteq Rows' \cup sync'.rows
  PROVE  KeepInv'
<1>1. ASSUME Calm', disk' # Nothing
      PROVE  FileWhole' /\ Saved' /\ Halves' /\ RoomsHeard'
  <2>1. FileWhole /\ Saved /\ Halves /\ RoomsHeard /\ Cur' = Cur
    BY <1>1, NoneYet DEF Cur
  <2>2. FileWhole'
    BY <2>1 DEF FileWhole, Writes, Copied
  <2>3. \A v \in Loops : (Copied(v)' <=> Copied(v)) /\ (Current(v)' <=> Current(v))
    BY DEF Copied, Current
  <2>4. Saved'
    <3>1. boot' = "run" /\ mach' # Nothing => disk'.data = mach' \/ \E w \in Loops : Owes(w)' \/ Current(w)'
      BY <2>1, <2>3 DEF Saved
    <3>2. ASSUME NEW v \in Loops, Copied(v)', ~ Current(v)'
          PROVE  \E u \in Loops \ {v} : Owes(u)' \/ (save'[u].pc = "open" /\ Current(u)')
      <4>1. PICK u \in Loops \ {v} : Owes(u) \/ (save[u].pc = "open" /\ Current(u))
        BY <2>1, <2>3, <3>2 DEF Saved
      <4>2. QED
        BY <2>3, <4>1
    <3>3. QED
      BY <3>1, <3>2 DEF Saved
  <2>5. Halves'
    BY <2>1, HalvesKeep DEF Cur
  <2>6. RoomsHeard'
    BY <2>1, RoomsKeep
  <2>7. QED
    BY <2>2, <2>4, <2>5, <2>6
<1>2. QED
  BY <1>1 DEF KeepInv

\* A step after which loop w is to save the machine, which may have learned.
LEMMA LoopLearns ==
  ASSUME KeepInv, KeepTypes', Stage', UNCHANGED <<boot, disk, tmp, otks, tab>>, odd \subseteq odd',
         mach # Nothing, mach' # Nothing, mach'.dev = mach.dev, mach.own \subseteq mach'.own, mach.rooms \subseteq mach'.rooms,
         NEW w \in Loops, ~ Copied(w), Owes(w)', save'[w] = save[w] \/ save'[w].pc = "snap",
         \A v \in Loops : v # w => save'[v] = save[v] /\ (Owes(v) => Owes(v)'),
         \A v \in Loops : up'[v].keys \subseteq up[v].keys \/ up'[v].keys \subseteq mach'.own,
         RoomsHeard => RoomsHeard'
  PROVE  KeepInv'
<1>1. ASSUME Calm'
      PROVE  FileWhole' /\ Saved' /\ Halves' /\ RoomsHeard'
  <2>1. FileWhole /\ Saved /\ Halves /\ RoomsHeard
    BY <1>1, NoneYet
  <2>2. ~ Copied(w)' /\ \A v \in Loops : v # w => (Copied(v)' <=> Copied(v))
    BY DEF Copied
  <2>3. FileWhole'
    <3>1. \A v \in Loops : (Writes(v)' <=> Writes(v)) /\ (Writes(v) => save'[v] = save[v])
      BY <2>2 DEF Writes, Copied
    <3>2. ~ Writes(w) /\ save'[w].pc \notin {"write", "rename"}
      BY <2>2 DEF Writes, Copied
    <3>3. \A v \in Loops : Copied(v)' => save'[v].data # Nothing
      BY <2>1, <2>2 DEF FileWhole
    <3>4. QED
      BY <2>1, <3>1, <3>2, <3>3 DEF FileWhole
  <2>4. Saved'
    BY <2>2 DEF Saved
  <2>5. Halves'
    BY <2>1, HalvesKeep DEF Cur
  <2>6. QED
    BY <2>1, <2>3, <2>4, <2>5
<1>2. QED
  BY <1>1 DEF KeepInv

LEMMA SyncAskKeeps == ASSUME KeepInv, SyncAsk PROVE KeepInv'
<1>1. /\ boot = "run" /\ mach # Nothing /\ sync.pc = "poll" /\ save["sync"] = NoSave
      /\ sync' = [sync EXCEPT !.pc = "wait"]
      /\ UNCHANGED <<mach, disk, tmp, save, reply, otks, box, tab, up, boot, odd, starts>>
  BY DEF SyncAsk, Running, files, hist, server
<1>2. /\ DOMAIN sync' = {"pc", "rows", "n", "late"} /\ sync'.n = sync.n /\ sync'.rows = sync.rows /\ sync'.pc = "wait"
      /\ Rows' = Rows
  BY <1>1 DEF KeepInv, KeepTypes, Rows
<1>3. KeepTypes'
  BY <1>1, <1>2 DEF KeepInv, KeepTypes, Good, Holds
<1>4. Stage'
  BY <1>1, <1>2 DEF KeepInv, Stage, NoSave
<1>5. \A w \in Loops : Owes(w) => Owes(w)'
  BY <1>1, <1>2 DEF Owes
<1>6. QED
  BY <1>1, <1>2, <1>3, <1>4, <1>5, LoopGoesOn

LEMMA SyncDrainKeeps == ASSUME KeepInv, SyncDrain PROVE KeepInv'
<1>1. /\ sync.pc = "wait" /\ box' = <<>>
      /\ sync' = [sync EXCEPT !.pc = "got", !.rows = Rows, !.n = Cardinality(Unclaimed)]
      /\ UNCHANGED <<mach, disk, tmp, save, reply, otks, tab, up, boot, odd, starts>>
  BY DEF SyncDrain, files, hist
<1>2. Cardinality(Unclaimed) \in Nat
  <2>1. IsFiniteSet(Unclaimed)
    BY FS_Subset DEF Unclaimed, KeepInv, KeepTypes
  <2>2. QED
    BY <2>1, FS_CardinalityType
<1>3. /\ DOMAIN sync' = {"pc", "rows", "n", "late"} /\ sync'.n \in Nat /\ sync'.rows = Rows /\ sync'.pc = "got"
      /\ Rows' = {} /\ sync.rows = {} /\ mach # Nothing
  BY <1>1, <1>2 DEF KeepInv, KeepTypes, Stage, Rows
<1>4. KeepTypes'
  <2>1. \E S : box' \in Seq(S)
    BY <1>1
  <2>2. QED
    BY <1>1, <1>3, <2>1 DEF KeepInv, KeepTypes, Good, Holds
<1>5. Stage'
  BY <1>1, <1>3 DEF KeepInv, Stage
<1>6. \A w \in Loops : Owes(w) => Owes(w)'
  BY <1>1, <1>3 DEF Owes
<1>7. QED
  BY <1>1, <1>3, <1>4, <1>5, <1>6, LoopGoesOn

LEMMA SyncFailKeeps == ASSUME KeepInv, SyncFail PROVE KeepInv'
<1>1. /\ sync.pc \in {"wait", "got"} /\ odd \subseteq odd'
      /\ sync.pc = "got" => sync.rows = {} \/ "lostRows" \in odd'
      /\ sync' = [NoSync EXCEPT !.late = sync.late]
      /\ UNCHANGED <<mach, disk, tmp, save, reply, otks, box, tab, up, boot, starts>>
  BY DEF SyncFail, Flag, files, server
<1>2. /\ DOMAIN sync' = {"pc", "rows", "n", "late"} /\ sync'.n \in Nat /\ sync'.rows = {} /\ sync'.pc = "poll"
      /\ Rows' = Rows
  BY <1>1 DEF KeepInv, KeepTypes, NoSync, Rows
<1>3. KeepTypes'
  BY <1>1, <1>2 DEF KeepInv, KeepTypes, Good, Holds
<1>4. Stage'
  BY <1>1, <1>2 DEF KeepInv, Stage
<1>5. \A w \in Loops : Owes(w) => Owes(w)'
  BY <1>1, <1>2 DEF Owes
<1>6. "lostRows" \in odd' \/ Rows \cup sync.rows \subseteq Rows' \cup sync'.rows
  BY <1>1, <1>2 DEF KeepInv, Stage
<1>7. QED
  BY <1>1, <1>3, <1>4, <1>5, <1>6, LoopGoesOn

LEMMA OrphanKeeps == ASSUME KeepInv, Orphan PROVE KeepInv'
<1>1. /\ odd \subseteq odd' /\ box' = <<>> /\ (box = <<>> \/ "lostRows" \in odd')
      /\ sync' = [sync EXCEPT !.late = FALSE]
      /\ UNCHANGED <<mach, disk, tmp, save, reply, otks, tab, up, boot, starts>>
  BY DEF Orphan, Flag, files
<1>2. /\ DOMAIN sync' = {"pc", "rows", "n", "late"} /\ sync'.n = sync.n /\ sync'.rows = sync.rows /\ sync'.pc = sync.pc
      /\ Rows' = {} /\ (box = <<>> => Rows = {})
  BY <1>1 DEF KeepInv, KeepTypes, Rows
<1>3. KeepTypes'
  <2>1. \E S : box' \in Seq(S)
    BY <1>1
  <2>2. QED
    BY <1>1, <1>2, <2>1 DEF KeepInv, KeepTypes, Good, Holds
<1>4. Stage'
  BY <1>1, <1>2 DEF KeepInv, Stage
<1>5. \A w \in Loops : Owes(w) => Owes(w)'
  BY <1>1, <1>2 DEF Owes
<1>6. QED
  BY <1>1, <1>2, <1>3, <1>4, <1>5, LoopGoesOn

LEMMA HandleKeeps == ASSUME KeepInv, Handle PROVE KeepInv'
<1>1. PICK u : reply' = IF load.replies /\ u.room # Nothing /\ Outcome(u) = "text"
                          THEN [pc |-> "drain", of |-> u.n] ELSE NoReply
  BY DEF Handle
<1>2. /\ boot = "run" /\ reply = NoReply /\ save["reply"] = NoSave
      /\ UNCHANGED <<mach, disk, tmp, save, sync, otks, box, tab, up, boot, starts, odd>>
  BY DEF Handle, Running, files, server
<1>3. DOMAIN reply' = {"pc", "of"} /\ (reply' # NoReply => mach # Nothing) /\ Rows' = Rows
  BY <1>1, <1>2 DEF NoReply, Outcome, Rows
<1>4. KeepTypes'
  BY <1>2, <1>3 DEF KeepInv, KeepTypes, Good, Holds
<1>5. Stage'
  BY <1>2, <1>3 DEF KeepInv, Stage, NoSave
<1>6. \A w \in Loops : Owes(w) => Owes(w)'
  BY <1>2 DEF Owes, NoReply
<1>7. QED
  BY <1>2, <1>3, <1>4, <1>5, <1>6, LoopGoesOn

LEMMA ReplyDrainKeeps == ASSUME KeepInv, ReplyDrain PROVE KeepInv'
<1>1. /\ reply.pc = "drain" /\ up["reply"] = NoUpload
      /\ UNCHANGED <<mach, disk, tmp, save, sync, otks, box, tab, boot, starts, odd>>
  BY DEF ReplyDrain, NoSend, files, hist, server
<1>2. \/ reply' = [reply EXCEPT !.pc = "up"] /\ up' = [up EXCEPT !["reply"] = Body(mach)]
      \/ reply' = [reply EXCEPT !.pc = "post"] /\ up' = up
      \/ reply' = NoReply /\ up' = up
  BY DEF ReplyDrain, NoSend, Uploads
<1>3. mach # Nothing /\ Good(mach) /\ boot = "run" /\ disk # Nothing
  BY <1>1 DEF KeepInv, Stage, KeepTypes, NoReply
<1>4. PICK b : b = Body(mach)
  OBVIOUS
<1>5. DOMAIN b = Fields /\ b.keys \subseteq mach.own /\ b.keys \subseteq Nat \X Nat /\ IsFiniteSet(b.keys)
  BY <1>3, <1>4, BodyKeys
<1>6. DOMAIN reply' = {"pc", "of"} /\ reply'.pc # "save" /\ reply.pc # "save" /\ Rows' = Rows
  BY <1>1, <1>2 DEF NoReply, KeepInv, KeepTypes, Rows
<1>7. DOMAIN up' = Loops /\ \A v \in Loops : up'[v] = up[v] \/ up'[v] = b
  BY <1>2, <1>4 DEF KeepInv, KeepTypes
<1>8. KeepTypes'
  BY <1>1, <1>5, <1>6, <1>7 DEF KeepInv, KeepTypes, Good, Holds
<1>9. Stage'
  BY <1>1, <1>3, <1>6 DEF KeepInv, Stage, NoSave
<1>10. \A w \in Loops : Owes(w) => Owes(w)'
  BY <1>1 DEF Owes
<1>11. QED
  BY <1>1, <1>3, <1>5, <1>6, <1>7, <1>8, <1>9, <1>10, LoopGoesOn

\* After a refusal nothing is claimed any more.
LEMMA Unclaiming == ASSUME KeepTypes', Stage', NEW f \in {"unsaved", "refused"}, f \in odd' PROVE KeepInv'
BY DEF KeepInv, Calm

LEMMA SyncReceiveKeeps == ASSUME KeepInv, SyncReceive PROVE KeepInv'
<1> DEFINE got == Receive(mach, sync.rows)
<1>1. /\ sync.pc = "got" /\ up["sync"] = NoUpload /\ mach' = Generate(got, sync.n)
      /\ sync' = [sync EXCEPT !.pc = IF HasUpload(mach') THEN "up" ELSE "save", !.rows = {}, !.n = 0]
      /\ up' = [up EXCEPT !["sync"] = IF HasUpload(mach') THEN Body(mach') ELSE up["sync"]]
      /\ IF HasUpload(mach') THEN save' = save ELSE save' = [save EXCEPT !["sync"] = [NoSave EXCEPT !.pc = "snap"]]
      /\ UNCHANGED <<disk, tmp, reply, otks, box, tab, boot, starts, odd>>
  BY DEF SyncReceive, Uploads, Saves, files, hist, server
<1>2. /\ mach # Nothing /\ Good(mach) /\ boot = "run" /\ disk # Nothing /\ save["sync"].pc = "idle"
      /\ sync.n \in Nat /\ starts \in Nat /\ \A r \in sync.rows : r.room \in Peers
  BY <1>1 DEF KeepInv, KeepTypes, Stage, Loops
<1>3. /\ Good(got) /\ got.dev = mach.dev /\ got.own = mach.own
      /\ got.rooms = mach.rooms \cup {r.room : r \in {x \in sync.rows : x.dev = mach.dev /\ x.key \in mach.own}}
  BY <1>2, MachineReceives
<1> HIDE DEF got
<1>4. /\ Good(mach') /\ mach'.dev = mach.dev /\ mach.own \subseteq mach'.own
      /\ mach'.rooms = mach.rooms \cup {r.room : r \in {x \in sync.rows : x.dev = mach.dev /\ x.key \in mach.own}}
  BY <1>1, <1>2, <1>3, MachineGenerates
<1>5. mach' # Nothing
  BY <1>4, Exists
<1>6. PICK m : m = mach'
  OBVIOUS
<1>7. PICK b : b = Body(m)
  OBVIOUS
<1>8. DOMAIN b = Fields /\ b.keys \subseteq m.own /\ b.keys \subseteq Nat \X Nat /\ IsFiniteSet(b.keys)
  BY <1>4, <1>6, <1>7, BodyKeys DEF Good
<1>9. DOMAIN up' = Loops /\ up'["reply"] = up["reply"] /\ (up'["sync"] = b \/ up'["sync"] = up["sync"])
  BY <1>1, <1>6, <1>7 DEF KeepInv, KeepTypes, Loops
<1>10. /\ DOMAIN sync' = {"pc", "rows", "n", "late"} /\ sync'.n = 0 /\ sync'.rows = {} /\ Rows' = Rows
       /\ sync'.pc \in {"up", "save"}
  BY <1>1 DEF KeepInv, KeepTypes, Rows
<1>11. /\ DOMAIN save' = Loops /\ save'["reply"] = save["reply"] /\ DOMAIN save'["sync"] = {"pc", "data"}
       /\ save'["sync"].data = Nothing \/ Good(save'["sync"].data)
       /\ \/ sync'.pc = "up" /\ save'["sync"] = save["sync"]
          \/ sync'.pc = "save" /\ save'["sync"].pc = "snap"
  <2>1. CASE HasUpload(mach')
    BY <1>1, <2>1 DEF KeepInv, KeepTypes, Loops
  <2>2. CASE ~ HasUpload(mach')
    BY <1>1, <2>2 DEF KeepInv, KeepTypes, Loops, NoSave
  <2>3. QED
    BY <2>1, <2>2
<1>12. KeepTypes'
  <2>1. \A w \in Loops : DOMAIN up'[w] = Fields /\ up'[w].keys \subseteq Nat \X Nat /\ IsFiniteSet(up'[w].keys)
    BY <1>8, <1>9 DEF KeepInv, KeepTypes, Loops
  <2>2. \A w \in Loops : DOMAIN save'[w] = {"pc", "data"} /\ (save'[w].data = Nothing \/ Good(save'[w].data))
    BY <1>11 DEF KeepInv, KeepTypes, Loops
  <2>3. QED
    BY <1>1, <1>4, <1>9, <1>10, <1>11, <2>1, <2>2 DEF KeepInv, KeepTypes, Good, Holds
<1>13. Stage'
  BY <1>1, <1>2, <1>5, <1>10, <1>11 DEF KeepInv, Stage, Loops
<1>14. ~ Copied("sync") /\ Owes("sync")' /\ (save'["sync"] = save["sync"] \/ save'["sync"].pc = "snap")
  BY <1>2, <1>11 DEF Copied, Owes
<1>15. \A v \in Loops : v # "sync" => save'[v] = save[v] /\ (Owes(v) => Owes(v)')
  BY <1>1, <1>11 DEF Owes, Loops
<1>16. \A v \in Loops : up'[v].keys \subseteq up[v].keys \/ up'[v].keys \subseteq mach'.own
  BY <1>6, <1>8, <1>9 DEF Loops
<1>17. ASSUME RoomsHeard PROVE RoomsHeard'
  <2>1. Cur = mach /\ Cur' = mach'
    BY <1>2, <1>5 DEF Cur
  <2>2. ASSUME NEW p \in Peers, RoomTold(p) PROVE RoomTold(p)'
    <3>1. CASE p \in mach.rooms
      BY <1>4, <2>1, <3>1 DEF RoomTold
    <3>2. CASE \E r \in Rows : r.room = p /\ r.dev = mach.dev /\ r.key \in mach.own
      BY <1>4, <1>10, <2>1, <3>2 DEF RoomTold
    <3>3. CASE \E r \in sync.rows : r.room = p /\ r.dev = mach.dev /\ r.key \in mach.own
      BY <1>4, <2>1, <3>3 DEF RoomTold
    <3>4. QED
      BY <2>1, <2>2, <3>1, <3>2, <3>3 DEF RoomTold
  <2>3. QED
    BY <1>1, <1>4, <1>17, <2>1, <2>2 DEF RoomsHeard
<1>18. QED
  BY <1>1, <1>2, <1>4, <1>5, <1>12, <1>13, <1>14, <1>15, <1>16, <1>17, LoopLearns DEF Loops

LEMMA SyncUploadedKeeps == ASSUME KeepInv, SyncUploaded PROVE KeepInv'
<1>1. /\ sync.pc = "up" /\ odd \subseteq odd' /\ up' = [up EXCEPT !["sync"] = NoUpload]
      /\ UNCHANGED <<disk, tmp, reply, otks, box, tab, boot, starts>>
      /\ \/ mach' = Sent(mach) /\ sync' = [sync EXCEPT !.pc = "save"]
            /\ save' = [save EXCEPT !["sync"] = [NoSave EXCEPT !.pc = "snap"]]
         \/ mach' = mach /\ sync' = [NoSync EXCEPT !.late = sync.late] /\ save' = save /\ "refused" \in odd'
  BY DEF SyncUploaded, Uploads, Saves, Flag, files, server
<1>2. mach # Nothing /\ Good(mach) /\ boot = "run" /\ disk # Nothing /\ save["sync"].pc = "idle" /\ sync.rows = {}
  BY <1>1 DEF KeepInv, KeepTypes, Stage, Loops
<1>3. /\ Good(Sent(mach)) /\ Sent(mach).dev = mach.dev /\ Sent(mach).own = mach.own /\ Sent(mach).rooms = mach.rooms
      /\ Sent(mach) # Nothing
  BY <1>2, MachineSent, Exists
<1>4. Good(mach') /\ mach' # Nothing /\ mach'.dev = mach.dev /\ mach'.own = mach.own /\ mach'.rooms = mach.rooms
  <2>1. mach' = Sent(mach) \/ mach' = mach
    BY <1>1
  <2>2. CASE mach' = Sent(mach)
    BY <1>3, <2>2 DEF Good
  <2>3. CASE mach' = mach
    BY <1>2, <2>3 DEF Good
  <2>4. QED
    BY <2>1, <2>2, <2>3
<1>5. DOMAIN up' = Loops /\ up'["reply"] = up["reply"] /\ up'["sync"] = NoUpload
  BY <1>1 DEF KeepInv, KeepTypes, Loops
<1>6. NoUpload.keys = {} /\ DOMAIN NoUpload = Fields /\ IsFiniteSet({})
  BY FS_EmptySet DEF NoUpload, Fields
<1>7. /\ DOMAIN sync' = {"pc", "rows", "n", "late"} /\ sync'.n \in Nat /\ sync'.rows = {} /\ Rows' = Rows
  BY <1>1, <1>2 DEF KeepInv, KeepTypes, Rows, NoSync
<1>8. /\ DOMAIN save' = Loops /\ save'["reply"] = save["reply"] /\ DOMAIN save'["sync"] = {"pc", "data"}
      /\ save'["sync"].data = Nothing \/ Good(save'["sync"].data)
      /\ \/ sync'.pc = "poll" /\ save'["sync"] = save["sync"] /\ "refused" \in odd'
         \/ sync'.pc = "save" /\ save'["sync"].pc = "snap"
  BY <1>1 DEF KeepInv, KeepTypes, Loops, NoSave, NoSync
<1>9. KeepTypes'
  <2>1. \A w \in Loops : DOMAIN up'[w] = Fields /\ up'[w].keys \subseteq Nat \X Nat /\ IsFiniteSet(up'[w].keys)
    BY <1>5, <1>6 DEF KeepInv, KeepTypes, Loops
  <2>2. \A w \in Loops : DOMAIN save'[w] = {"pc", "data"} /\ (save'[w].data = Nothing \/ Good(save'[w].data))
    BY <1>8 DEF KeepInv, KeepTypes, Loops
  <2>3. QED
    BY <1>1, <1>4, <1>5, <1>7, <1>8, <2>1, <2>2 DEF KeepInv, KeepTypes, Good, Holds
<1>10. Stage'
  BY <1>1, <1>2, <1>4, <1>7, <1>8 DEF KeepInv, Stage, Loops
<1>11. CASE "refused" \in odd'
  BY <1>9, <1>10, <1>11, Unclaiming
<1>12. CASE sync'.pc = "save" /\ save'["sync"].pc = "snap"
  <2>1. ~ Copied("sync") /\ Owes("sync")'
    BY <1>2, <1>12 DEF Copied, Owes
  <2>2. \A v \in Loops : v # "sync" => save'[v] = save[v] /\ (Owes(v) => Owes(v)')
    BY <1>1, <1>8 DEF Owes, Loops
  <2>3. \A v \in Loops : up'[v].keys \subseteq up[v].keys \/ up'[v].keys \subseteq mach'.own
    BY <1>5, <1>6 DEF Loops
  <2>4. Cur = mach /\ Cur' = mach'
    BY <1>2, <1>4 DEF Cur
  <2>5. RoomsHeard => RoomsHeard'
    BY <1>1, <1>2, <1>4, <1>7, <2>4, RoomsKeep
  <2>6. QED
    BY <1>1, <1>2, <1>4, <1>9, <1>10, <1>12, <2>1, <2>2, <2>3, <2>5, LoopLearns DEF Loops
<1>13. QED
  BY <1>8, <1>11, <1>12

LEMMA ReplyUploadedKeeps == ASSUME KeepInv, ReplyUploaded PROVE KeepInv'
<1>1. /\ reply.pc = "up" /\ odd \subseteq odd' /\ up' = [up EXCEPT !["reply"] = NoUpload]
      /\ UNCHANGED <<disk, tmp, save, sync, otks, box, tab, boot, starts>>
      /\ \/ mach' = Sent(mach) /\ reply' = [reply EXCEPT !.pc = "post"]
         \/ mach' = mach /\ reply' = NoReply /\ "refused" \in odd'
  BY DEF ReplyUploaded, Uploads, Flag, files, server
<1>2. mach # Nothing /\ Good(mach) /\ boot = "run" /\ disk # Nothing /\ save["reply"].pc = "idle"
  BY <1>1 DEF KeepInv, KeepTypes, Stage, Loops, NoReply
<1>3. /\ Good(Sent(mach)) /\ Sent(mach).dev = mach.dev /\ Sent(mach).own = mach.own /\ Sent(mach).rooms = mach.rooms
      /\ Sent(mach) # Nothing
  BY <1>2, MachineSent, Exists
<1>4. Good(mach') /\ mach' # Nothing /\ mach'.dev = mach.dev /\ mach'.own = mach.own /\ mach'.rooms = mach.rooms
  <2>1. mach' = Sent(mach) \/ mach' = mach
    BY <1>1
  <2>2. CASE mach' = Sent(mach)
    BY <1>3, <2>2 DEF Good
  <2>3. CASE mach' = mach
    BY <1>2, <2>3 DEF Good
  <2>4. QED
    BY <2>1, <2>2, <2>3
<1>5. DOMAIN up' = Loops /\ up'["sync"] = up["sync"] /\ up'["reply"] = NoUpload
  BY <1>1 DEF KeepInv, KeepTypes, Loops
<1>6. NoUpload.keys = {} /\ DOMAIN NoUpload = Fields /\ IsFiniteSet({})
  BY FS_EmptySet DEF NoUpload, Fields
<1>7. DOMAIN reply' = {"pc", "of"} /\ (reply'.pc = "post" \/ "refused" \in odd') /\ Rows' = Rows
  BY <1>1 DEF KeepInv, KeepTypes, Rows, NoReply
<1>8. KeepTypes'
  <2>1. \A w \in Loops : DOMAIN up'[w] = Fields /\ up'[w].keys \subseteq Nat \X Nat /\ IsFiniteSet(up'[w].keys)
    BY <1>5, <1>6 DEF KeepInv, KeepTypes, Loops
  <2>2. QED
    BY <1>1, <1>4, <1>5, <1>7, <2>1 DEF KeepInv, KeepTypes, Good, Holds
<1>9. Stage'
  BY <1>1, <1>2, <1>4, <1>7 DEF KeepInv, Stage, Loops
<1>10. CASE "refused" \in odd'
  BY <1>8, <1>9, <1>10, Unclaiming
<1>11. CASE reply'.pc = "post"
  <2>1. ~ Copied("reply") /\ Owes("reply")'
    BY <1>2, <1>11 DEF Copied, Owes
  <2>2. \A v \in Loops : v # "reply" => save'[v] = save[v] /\ (Owes(v) => Owes(v)')
    BY <1>1 DEF Owes, Loops
  <2>3. \A v \in Loops : up'[v].keys \subseteq up[v].keys \/ up'[v].keys \subseteq mach'.own
    BY <1>5, <1>6 DEF Loops
  <2>4. Cur = mach /\ Cur' = mach'
    BY <1>2, <1>4 DEF Cur
  <2>5. RoomsHeard => RoomsHeard'
    BY <1>1, <1>4, <1>7, <2>4, RoomsKeep
  <2>6. QED
    BY <1>1, <1>2, <1>4, <1>8, <1>9, <2>1, <2>2, <2>3, <2>5, LoopLearns DEF Loops
<1>12. QED
  BY <1>7, <1>10, <1>11

LEMMA ReplyPostKeeps == ASSUME KeepInv, ReplyPost PROVE KeepInv'
<1>1. /\ reply.pc = "post" /\ odd \subseteq odd'
      /\ UNCHANGED <<mach, disk, tmp, sync, up, otks, box, tab, boot, starts>>
      /\ \/ reply' = [reply EXCEPT !.pc = "save"] /\ save' = [save EXCEPT !["reply"] = [NoSave EXCEPT !.pc = "snap"]]
         \/ reply' = NoReply /\ save' = save /\ "refused" \in odd'
  BY DEF ReplyPost, Saves, Flag, files, server
<1>2. mach # Nothing /\ boot = "run" /\ disk # Nothing /\ save["reply"].pc = "idle"
  BY <1>1 DEF KeepInv, KeepTypes, Stage, Loops, NoReply
<1>3. /\ DOMAIN save' = Loops /\ save'["sync"] = save["sync"] /\ DOMAIN save'["reply"] = {"pc", "data"}
      /\ save'["reply"].data = Nothing \/ Good(save'["reply"].data)
      /\ \/ save'["reply"] = save["reply"] /\ "refused" \in odd'
         \/ reply'.pc = "save" /\ save'["reply"].pc = "snap"
      /\ DOMAIN reply' = {"pc", "of"} /\ Rows' = Rows
  BY <1>1 DEF KeepInv, KeepTypes, Loops, NoSave, NoReply, Rows
<1>4. KeepTypes'
  <2>1. \A w \in Loops : DOMAIN save'[w] = {"pc", "data"} /\ (save'[w].data = Nothing \/ Good(save'[w].data))
    BY <1>3 DEF KeepInv, KeepTypes, Loops
  <2>2. QED
    BY <1>1, <1>3, <2>1 DEF KeepInv, KeepTypes, Good, Holds
<1>5. Stage'
  BY <1>1, <1>2, <1>3 DEF KeepInv, Stage, Loops
<1>6. CASE "refused" \in odd'
  BY <1>4, <1>5, <1>6, Unclaiming
<1>7. CASE reply'.pc = "save" /\ save'["reply"].pc = "snap"
  <2>1. ~ Copied("reply") /\ Owes("reply")'
    BY <1>2, <1>7 DEF Copied, Owes
  <2>2. \A v \in Loops : v # "reply" => save'[v] = save[v] /\ (Owes(v) => Owes(v)')
    BY <1>1, <1>3 DEF Owes, Loops
  <2>3. Cur' = Cur
    BY <1>1 DEF Cur
  <2>4. RoomsHeard => RoomsHeard'
    BY <1>1, <1>3, <2>3, RoomsKeep
  <2>5. QED
    BY <1>1, <1>2, <1>4, <1>5, <1>7, <2>1, <2>2, <2>4, LoopLearns DEF Loops
<1>8. QED
  BY <1>3, <1>6, <1>7

LEMMA ReloadKeeps == ASSUME KeepInv, Reload PROVE KeepInv'
<1>1. /\ boot = "open" /\ disk # Nothing /\ disk.data # Nothing /\ mach' = disk.data /\ boot' = "run"
      /\ UNCHANGED <<disk, tmp, save, sync, reply, otks, box, tab, up, starts, odd>>
  BY DEF Reload, files, hist, server
<1>2. mach = Nothing /\ Good(mach') /\ mach' # Nothing /\ Rows' = Rows
  BY <1>1 DEF KeepInv, KeepTypes, Stage, Holds, Good, Rows
<1>3. KeepTypes'
  BY <1>1, <1>2 DEF KeepInv, KeepTypes, Good, Holds
<1>4. Stage'
  BY <1>1, <1>2 DEF KeepInv, Stage
<1>5. ASSUME Calm'
      PROVE  FileWhole' /\ Saved' /\ Halves' /\ RoomsHeard'
  <2>1. FileWhole /\ Halves /\ RoomsHeard
    BY <1>1, <1>5, NoneYet
  <2>2. Cur' = Cur
    BY <1>1, <1>2 DEF Cur
  <2>3. FileWhole'
    BY <1>1, <2>1 DEF FileWhole, Writes, Copied
  <2>4. Saved'
    BY <1>1 DEF Saved, Copied, KeepInv, Stage, NoSave
  <2>5. Halves'
    BY <1>1, <2>1, <2>2, HalvesKeep
  <2>6. RoomsHeard'
    BY <1>1, <1>2, <2>1, <2>2, RoomsKeep
  <2>7. QED
    BY <2>3, <2>4, <2>5, <2>6
<1>6. QED
  BY <1>3, <1>4, <1>5 DEF KeepInv

\* A new file holds what it is given.
LEMMA WholeFile ==
  ASSUME NEW m, Good(m)
  PROVE  Holds(Whole(m)) /\ Whole(m) # Nothing /\ Whole(m).data = m /\ Whole(m).by = {}
<1>1. Whole(m) \in SnapshotFile
  BY DEF Whole, SnapshotFile, Good
<1>2. QED
  BY <1>1, Exists DEF Whole, Holds

LEMMA CreateKeeps == ASSUME KeepInv, Create PROVE KeepInv'
<1>1. PICK d \in Devs : disk' = Whole(Fresh(d)) /\ mach' = Generate(Fresh(d), 0)
  BY DEF Create
<1>2. /\ boot = "open" /\ disk = Nothing /\ boot' = "pair" /\ up' = [up EXCEPT !["sync"] = Body(mach')]
      /\ UNCHANGED <<tmp, save, sync, reply, otks, box, tab, starts, odd>>
  BY DEF Create, Uploads, hist, server
<1>3. Good(Fresh(d)) /\ Fresh(d) # Nothing
  BY MachineFresh, Exists
<1>4. Good(mach')
  BY <1>1, <1>3, MachineGenerates DEF KeepInv, KeepTypes, Good
<1>5. mach' # Nothing
  BY <1>4, Exists
<1>6. Holds(disk') /\ disk' # Nothing /\ disk'.data # Nothing /\ disk'.by = {}
  BY <1>1, <1>3, WholeFile DEF Holds, Good
<1>7. PICK m : m = mach'
  OBVIOUS
<1>8. PICK b : b = Body(m)
  OBVIOUS
<1>9. DOMAIN b = Fields /\ b.keys \subseteq m.own /\ b.keys \subseteq Nat \X Nat /\ IsFiniteSet(b.keys)
  BY <1>4, <1>7, <1>8, BodyKeys DEF Good
<1>10. DOMAIN up' = Loops /\ up'["reply"] = up["reply"] /\ up'["sync"] = b
  BY <1>2, <1>7, <1>8 DEF KeepInv, KeepTypes, Loops
<1>11. Rows' = Rows
  BY <1>2 DEF Rows
<1>12. KeepTypes'
  <2>1. \A w \in Loops : DOMAIN up'[w] = Fields /\ up'[w].keys \subseteq Nat \X Nat /\ IsFiniteSet(up'[w].keys)
    BY <1>9, <1>10 DEF KeepInv, KeepTypes, Loops
  <2>2. QED
    BY <1>2, <1>4, <1>6, <1>10, <1>11, <2>1 DEF KeepInv, KeepTypes, Good, Holds
<1>13. Stage'
  BY <1>2, <1>5, <1>6 DEF KeepInv, Stage
<1>14. tmp = Nothing /\ otks = {} /\ (\A w \in Loops : up[w].keys = {} /\ save[w] = NoSave) /\ \A p \in Peers : tab[p].gave = {}
  BY <1>2 DEF KeepInv, Stage
<1>15. FileWhole'
  BY <1>2, <1>6, <1>14 DEF FileWhole, Writes, Copied, NoSave
<1>16. Saved'
  BY <1>2, <1>14 DEF Saved, Copied, NoSave
<1>17. Halves'
  <2>1. Cur' = m
    BY <1>5, <1>7 DEF Cur
  <2>2. QED
    BY <1>2, <1>9, <1>10, <1>14, <2>1 DEF Halves, Loops
<1>18. RoomsHeard'
  BY <1>2, <1>14 DEF RoomsHeard
<1>19. QED
  BY <1>12, <1>13, <1>15, <1>16, <1>17, <1>18 DEF KeepInv

LEMMA PairedKeeps == ASSUME KeepInv, Paired PROVE KeepInv'
<1>1. /\ boot = "pair" /\ odd \subseteq odd' /\ up' = [up EXCEPT !["sync"] = NoUpload]
      /\ UNCHANGED <<tmp, save, sync, reply, otks, box, tab, starts>>
      /\ \/ mach' = Sent(mach) /\ disk' = Whole(Sent(mach)) /\ boot' = "run"
         \/ mach' = Nothing /\ disk' = disk /\ boot' = "off" /\ "unsaved" \in odd'
  BY DEF Paired, Uploads, Flag, server
<1>2. mach # Nothing /\ Good(mach) /\ disk # Nothing /\ sync.pc = "poll" /\ reply = NoReply /\ \A w \in Loops : save[w] = NoSave
  BY <1>1 DEF KeepInv, KeepTypes, Stage
<1>3. PICK s : s = Sent(mach)
  OBVIOUS
<1>4. Good(s) /\ s # Nothing /\ s.dev = mach.dev /\ s.own = mach.own /\ s.rooms = mach.rooms
  BY <1>2, <1>3, MachineSent, Exists
<1>5. PICK f : f = Whole(s)
  OBVIOUS
<1>6. Holds(f) /\ f # Nothing /\ f.data = s /\ f.by = {}
  BY <1>4, <1>5, WholeFile
<1>7. \/ mach' = s /\ disk' = f /\ boot' = "run"
      \/ mach' = Nothing /\ disk' = disk /\ boot' = "off" /\ "unsaved" \in odd'
  BY <1>1, <1>3, <1>5
<1>8. DOMAIN up' = Loops /\ up'["reply"] = up["reply"] /\ up'["sync"] = NoUpload
  BY <1>1 DEF KeepInv, KeepTypes, Loops
<1>9. NoUpload.keys = {} /\ DOMAIN NoUpload = Fields /\ IsFiniteSet({})
  BY FS_EmptySet DEF NoUpload, Fields
<1>10. Rows' = Rows
  BY <1>1 DEF Rows
<1>11. KeepTypes'
  <2>1. \A w \in Loops : DOMAIN up'[w] = Fields /\ up'[w].keys \subseteq Nat \X Nat /\ IsFiniteSet(up'[w].keys)
    BY <1>8, <1>9 DEF KeepInv, KeepTypes, Loops
  <2>2. (mach' = Nothing \/ Good(mach')) /\ Holds(disk')
    BY <1>4, <1>6, <1>7 DEF KeepInv, KeepTypes, Good, Holds
  <2>3. QED
    BY <1>1, <1>8, <1>10, <2>1, <2>2 DEF KeepInv, KeepTypes, Good, Holds
<1>12. Stage'
  BY <1>1, <1>2, <1>4, <1>6, <1>7 DEF KeepInv, Stage
<1>13. CASE "unsaved" \in odd'
  BY <1>11, <1>12, <1>13, Unclaiming
<1>14. CASE mach' = s /\ disk' = f /\ boot' = "run"
  <2> SUFFICES ASSUME Calm'
               PROVE  FileWhole' /\ Saved' /\ Halves' /\ RoomsHeard'
    BY <1>11, <1>12 DEF KeepInv
  <2>1. FileWhole /\ Halves /\ RoomsHeard
    BY <1>1, <1>2, NoneYet
  <2>2. Cur = mach /\ Cur' = s
    BY <1>2, <1>4, <1>14 DEF Cur
  <2>3. FileWhole'
    BY <1>1, <1>2, <1>4, <1>6, <1>14, <2>1 DEF FileWhole, Writes, Copied, NoSave
  <2>4. Saved'
    BY <1>1, <1>2, <1>6, <1>14 DEF Saved, Copied, NoSave
  <2>5. Halves'
    <3>1. \A w \in Loops : up'[w].keys \subseteq up[w].keys
      BY <1>8, <1>9 DEF Loops
    <3>2. QED
      BY <1>1, <1>4, <2>1, <2>2, <3>1, HalvesKeep
  <2>6. RoomsHeard'
    BY <1>1, <1>4, <1>10, <2>1, <2>2, RoomsKeep
  <2>7. QED
    BY <2>3, <2>4, <2>5, <2>6
<1>15. QED
  BY <1>7, <1>13, <1>14

\* What an end of the process leaves of a file.
LEMMA WrittenFile ==
  ASSUME NEW f, Holds(f)
  PROVE  /\ Holds(Written(f)) /\ (Written(f) = Nothing <=> f = Nothing)
         /\ f # Nothing => Written(f).data = f.data /\ Written(f).by = {}
<1>1. CASE f = Nothing
  BY <1>1 DEF Written, Holds
<1>2. CASE f # Nothing
  <2>1. f \in SnapshotFile /\ (f.data = Nothing \/ Good(f.data))
    BY <1>2 DEF Holds
  <2>2. Written(f) = [f EXCEPT !.by = {}]
    BY <1>2 DEF Written
  <2>3. Written(f) \in SnapshotFile /\ Written(f).data = f.data /\ Written(f).by = {}
    BY <2>1, <2>2 DEF SnapshotFile
  <2>4. QED
    BY <2>1, <2>3, Exists DEF Holds
<1>3. QED
  BY <1>1, <1>2

LEMMA CrashKeeps == ASSUME KeepInv, Crash PROVE KeepInv'
<1>1. /\ boot' = "off" /\ mach' = Nothing /\ reply' = NoReply
      /\ sync' = [NoSync EXCEPT !.late = sync.late \/ sync.pc = "wait"]
      /\ up' = [w \in Loops |-> IF up[w].pc = "idle" THEN up[w] ELSE [up[w] EXCEPT !.mine = FALSE]]
      /\ save' = [w \in Loops |-> NoSave] /\ disk' = Written(disk) /\ tmp' = Written(tmp)
      /\ odd' = odd \cup (IF mach # Nothing /\ (disk.data # mach \/ sync.pc = "got") THEN {"unsaved"} ELSE {})
      /\ UNCHANGED <<otks, box, tab, starts>>
  BY DEF Crash, Flag, server
<1>2. PICK d, t : d = disk /\ t = tmp
  OBVIOUS
<1>3. /\ Holds(disk') /\ (disk' = Nothing <=> disk = Nothing) /\ (disk # Nothing => disk'.data = disk.data /\ disk'.by = {})
      /\ Holds(tmp') /\ (tmp' = Nothing <=> tmp = Nothing) /\ (tmp # Nothing => tmp'.by = {})
  <2>1. Holds(d) /\ Holds(t)
    BY <1>2 DEF KeepInv, KeepTypes
  <2>2. PICK e, u : e = Written(d) /\ u = Written(t)
    OBVIOUS
  <2>3. /\ Holds(e) /\ (e = Nothing <=> d = Nothing) /\ (d # Nothing => e.data = d.data /\ e.by = {})
        /\ Holds(u) /\ (u = Nothing <=> t = Nothing) /\ (t # Nothing => u.by = {})
    BY <2>1, <2>2, WrittenFile
  <2>4. disk' = e /\ tmp' = u
    BY <1>1, <1>2, <2>2
  <2>5. QED
    BY <1>2, <2>3, <2>4 DEF Holds, Good
<1>4. \A w \in Loops : DOMAIN up'[w] = DOMAIN up[w] /\ up'[w].keys = up[w].keys
  BY <1>1 DEF KeepInv, KeepTypes, Fields
<1>5. DOMAIN sync' = {"pc", "rows", "n", "late"} /\ sync'.n = 0 /\ sync'.rows = {} /\ sync'.pc = "poll" /\ Rows' = Rows
  BY <1>1 DEF NoSync, Rows
<1>6. DOMAIN reply' = {"pc", "of"} /\ NoSave.pc = "idle" /\ NoSave.data = Nothing /\ DOMAIN NoSave = {"pc", "data"}
  BY <1>1 DEF NoReply, NoSave
<1>7. KeepTypes'
  BY <1>1, <1>3, <1>4, <1>5, <1>6 DEF KeepInv, KeepTypes, Good, Holds
<1>8. Stage'
  <2>1. \A w \in Loops : save'[w] = NoSave
    BY <1>1
  <2>2. disk' = Nothing => /\ mach' = Nothing /\ tmp' = Nothing /\ otks' = {} /\ box' = <<>>
                           /\ (\A w \in Loops : up'[w].keys = {}) /\ \A p \in Peers : tab'[p].gave = {}
    BY <1>1, <1>3, <1>4 DEF KeepInv, Stage
  <2>3. save'["sync"].pc = "idle" /\ save'["reply"].pc = "idle"
    BY <1>6, <2>1 DEF Loops
  <2>4. QED
    BY <1>1, <1>5, <2>1, <2>2, <2>3 DEF Stage
<1>9. ASSUME Calm', disk # Nothing
      PROVE  FileWhole' /\ Saved' /\ Halves' /\ RoomsHeard'
  <2>1. FileWhole /\ Halves /\ RoomsHeard
    BY <1>1, <1>9, NoneYet
  <2>2. mach = Nothing \/ (disk.data = mach /\ sync.pc # "got")
    BY <1>1, <1>9 DEF Calm
  <2>3. Cur' = Cur /\ sync.rows = {}
    BY <1>1, <1>3, <1>9, <2>2 DEF Cur, KeepInv, Stage
  <2>4. FileWhole'
    BY <1>1, <1>3, <1>6, <1>9, <2>1 DEF FileWhole, Writes, Copied
  <2>5. Saved'
    BY <1>1, <1>6 DEF Saved, Copied
  <2>6. Halves'
    BY <1>1, <1>4, <2>1, <2>3, HalvesKeep
  <2>7. RoomsHeard'
    BY <1>1, <1>5, <2>1, <2>3, RoomsKeep
  <2>8. QED
    BY <2>4, <2>5, <2>6, <2>7
<1>10. QED
  BY <1>3, <1>7, <1>8, <1>9 DEF KeepInv

LEMMA GiveKeeps == ASSUME KeepInv, NEW p \in Peers, Give(p) PROVE KeepInv'
<1>1. PICK d \in Needs(p) : \E o \in Claimable(d) :
        /\ otks' = (otks \ {o}) \cup {[o EXCEPT !.claimed = TRUE]}
        /\ box' = Append(box, [dev |-> d, key |-> o.key, room |-> p])
        /\ tab' = [tab EXCEPT ![p].gave = @ \cup {d}]
  BY DEF Give
<1>2. PICK o \in Claimable(d) :
        /\ otks' = (otks \ {o}) \cup {[o EXCEPT !.claimed = TRUE]}
        /\ box' = Append(box, [dev |-> d, key |-> o.key, room |-> p])
        /\ tab' = [tab EXCEPT ![p].gave = @ \cup {d}]
  BY <1>1
<1>3. UNCHANGED <<mach, disk, tmp, save, sync, reply, up, boot, starts, odd>>
  BY DEF Give, process, files, hist
<1>4. o \in otks /\ o.dev = d /\ disk # Nothing
  BY <1>2 DEF Claimable, KeepInv, Stage
<1>5. PICK r : r = [dev |-> d, key |-> o.key, room |-> p]
  OBVIOUS
<1>6. PICK n : n = [o EXCEPT !.claimed = TRUE]
  OBVIOUS
<1>7. DOMAIN n = {"dev", "key", "claimed"} /\ n.key = o.key
  BY <1>4, <1>6 DEF KeepInv, KeepTypes
<1>8. otks' = (otks \ {o}) \cup {n} /\ box' = Append(box, r)
  BY <1>2, <1>5, <1>6
<1>9. (\E S : box' \in Seq(S)) /\ Rows' = Rows \cup {r}
  <2>1. PICK S : box \in Seq(S)
    BY DEF KeepInv, KeepTypes
  <2>2. PICK T : T = S \cup {r}
    OBVIOUS
  <2>3. box \in Seq(T) /\ r \in T
    BY <2>1, <2>2
  <2>4. box' \in Seq(T) /\ DOMAIN box' = DOMAIN box \cup {Len(box) + 1} /\ box'[Len(box) + 1] = r
        /\ \A i \in DOMAIN box : box'[i] = box[i]
    BY <1>8, <2>3
  <2>5. QED
    BY <2>4 DEF Rows
<1>10. /\ DOMAIN tab' = Peers /\ \A q \in Peers : DOMAIN tab'[q] = {"known", "gave"}
       /\ tab'[p].gave = tab[p].gave \cup {d} /\ \A q \in Peers : q # p => tab'[q] = tab[q]
  BY <1>2 DEF KeepInv, KeepTypes
<1>11. KeepTypes'
  <2>1. IsFiniteSet(otks')
    <3>1. IsFiniteSet(otks \ {o}) /\ IsFiniteSet({n})
      BY FS_Subset, FS_Singleton DEF KeepInv, KeepTypes
    <3>2. QED
      BY <1>8, <3>1, FS_Union
  <2>2. \A b \in otks' : DOMAIN b = {"dev", "key", "claimed"}
    BY <1>7, <1>8 DEF KeepInv, KeepTypes
  <2>3. \A x \in Rows' \cup sync'.rows : x.room \in Peers
    BY <1>3, <1>5, <1>9 DEF KeepInv, KeepTypes
  <2>4. QED
    BY <1>3, <1>9, <1>10, <2>1, <2>2, <2>3 DEF KeepInv, KeepTypes, Good, Holds
<1>12. Stage'
  BY <1>3, <1>4 DEF KeepInv, Stage
<1>13. ASSUME Calm'
       PROVE  FileWhole' /\ Saved' /\ Halves' /\ RoomsHeard'
  <2>1. FileWhole /\ Saved /\ Halves /\ RoomsHeard /\ Cur' = Cur
    BY <1>3, <1>4, <1>13, NoneYet DEF Cur
  <2>2. FileWhole'
    BY <1>3, <2>1 DEF FileWhole, Writes, Copied
  <2>3. Saved'
    BY <1>3, <2>1 DEF Saved, Copied, Current, Owes
  <2>4. Halves'
    BY <1>3, <1>4, <1>7, <1>8, <2>1 DEF Halves
  <2>5. RoomsHeard'
    <3>1. ASSUME NEW q \in Peers, RoomTold(q) PROVE RoomTold(q)'
      BY <1>3, <1>9, <2>1, <3>1 DEF RoomTold
    <3>2. ASSUME Cur.dev = d PROVE RoomTold(p)'
      <4>1. r \in Rows' /\ r.room = p /\ r.dev = Cur'.dev /\ r.key \in Cur'.own
        BY <1>4, <1>5, <1>9, <2>1, <3>2 DEF Halves
      <4>2. QED
        BY <4>1 DEF RoomTold
    <3>3. \A q \in Peers : Cur'.dev \in tab'[q].gave => Cur.dev \in tab[q].gave \/ (q = p /\ Cur.dev = d)
      BY <1>10, <2>1
    <3>4. QED
      BY <1>3, <2>1, <3>1, <3>2, <3>3 DEF RoomsHeard
  <2>6. QED
    BY <2>2, <2>3, <2>4, <2>5
<1>14. QED
  BY <1>11, <1>12, <1>13 DEF KeepInv

LEMMA RotateKeeps == ASSUME KeepInv, Rotate PROVE KeepInv'
<1>1. /\ otks' = {} /\ box' = <<>> /\ odd \subseteq odd' /\ "lostRows" \in odd'
      /\ UNCHANGED <<mach, disk, tmp, save, sync, reply, up, boot, starts, tab>>
  BY DEF Rotate, Flag, process, files
<1>2. Rows' = {} /\ IsFiniteSet({}) /\ \E S : box' \in Seq(S)
  BY <1>1, FS_EmptySet DEF Rows
<1>3. KeepTypes'
  BY <1>1, <1>2 DEF KeepInv, KeepTypes, Good, Holds
<1>4. Stage'
  BY <1>1 DEF KeepInv, Stage
<1>5. ASSUME Calm', disk # Nothing
      PROVE  FileWhole' /\ Saved' /\ Halves' /\ RoomsHeard'
  <2>1. FileWhole /\ Saved /\ Halves /\ Cur' = Cur
    BY <1>1, <1>5, NoneYet DEF Cur
  <2>2. FileWhole' /\ Saved'
    BY <1>1, <2>1 DEF FileWhole, Writes, Copied, Saved, Current, Owes
  <2>3. Halves'
    BY <1>1, <2>1 DEF Halves
  <2>4. RoomsHeard'
    BY <1>1 DEF RoomsHeard
  <2>5. QED
    BY <2>2, <2>3, <2>4
<1>6. QED
  BY <1>1, <1>3, <1>4, <1>5 DEF KeepInv

LEMMA KeepInit == ASSUME BotsInit PROVE KeepInv
<1>1. /\ starts = 0 /\ mach = Nothing /\ disk = Nothing /\ tmp = Nothing /\ otks = {} /\ box = <<>> /\ boot = "off"
      /\ sync = NoSync /\ reply = NoReply /\ up = [w \in Loops |-> NoUpload] /\ save = [w \in Loops |-> NoSave]
      /\ tab = [p \in Peers |-> [known |-> Nothing, gave |-> {}]]
  BY DEF BotsInit
<1>2. /\ DOMAIN NoSync = {"pc", "rows", "n", "late"} /\ NoSync.n = 0 /\ NoSync.rows = {} /\ NoSync.pc = "poll"
      /\ DOMAIN NoReply = {"pc", "of"} /\ NoSave.pc = "idle" /\ NoSave.data = Nothing /\ DOMAIN NoSave = {"pc", "data"}
      /\ NoUpload.keys = {} /\ DOMAIN NoUpload = Fields /\ IsFiniteSet({})
  BY FS_EmptySet DEF NoSync, NoReply, NoSave, NoUpload, Fields
<1>3. Rows = {} /\ \E S : box \in Seq(S)
  BY <1>1 DEF Rows
<1>4. KeepTypes
  <2>1. starts \in Nat /\ mach = Nothing /\ Holds(disk) /\ Holds(tmp)
    BY <1>1 DEF Holds
  <2>2. DOMAIN save = Loops /\ \A w \in Loops : DOMAIN save[w] = {"pc", "data"} /\ save[w].data = Nothing
    BY <1>1, <1>2
  <2>3. DOMAIN up = Loops /\ \A w \in Loops : DOMAIN up[w] = Fields /\ up[w].keys = {}
    BY <1>1, <1>2
  <2>4. DOMAIN tab = Peers /\ \A p \in Peers : DOMAIN tab[p] = {"known", "gave"}
    BY <1>1
  <2>5. QED
    BY <1>1, <1>2, <1>3, <2>1, <2>2, <2>3, <2>4 DEF KeepTypes
<1>5. Stage
  BY <1>1, <1>2 DEF Stage, Loops
<1>6. QED
  BY <1>1, <1>4, <1>5 DEF KeepInv

LEMMA KeepSteps == ASSUME KeepInv, [BotsNext]_botVars PROVE KeepInv'
<1>1. CASE UNCHANGED botVars
  <2>1. Untouched /\ odd' = odd /\ starts' = starts /\ boot' = boot /\ tab' = tab /\ up' = up
    BY <1>1 DEF Untouched, botVars, server, process, files, hist
  <2>2. QED
    BY <2>1, Beside DEF Untouched, KeepInv, KeepTypes
<1>2. CASE \E w \in Loops : UpAuth(w) \/ UpDevice(w) \/ UpState(w) \/ UpKeys(w) \/ UpDrop(w)
  BY <1>2, BesideUploads, UpKeysKeeps
<1>3. CASE \E w \in Loops : Snap(w) \/ Open(w) \/ Write(w) \/ Rename(w)
  BY <1>3, SnapKeeps, OpenKeeps, WriteKeeps, RenameKeeps
<1>4. CASE StartBot \/ GetMe \/ Reload \/ Unreadable \/ Create \/ Paired \/ Crash
  BY <1>4, BesideStart, ReloadKeeps, CreateKeeps, PairedKeeps, CrashKeeps
<1>5. CASE SyncAsk \/ SyncDrain \/ SyncFail \/ Orphan \/ SyncReceive \/ SyncUploaded
  BY <1>5, SyncAskKeeps, SyncDrainKeeps, SyncFailKeeps, OrphanKeeps, SyncReceiveKeeps, SyncUploadedKeeps
<1>6. CASE Handle \/ ReplyDrain \/ ReplyUploaded \/ ReplyPost
  BY <1>6, HandleKeeps, ReplyDrainKeeps, ReplyUploadedKeeps, ReplyPostKeeps
<1>7. CASE \E p \in Peers : Track(p) \/ Give(p) \/ Post(p)
  BY <1>7, BesideTrack, GiveKeeps, BesideOthers
<1>8. CASE Rotate
  BY <1>8, RotateKeeps
<1>9. CASE \/ \E s \in 1..2 : Ask(s) \/ Read(s) \/ Pop(s) \/ Extra(s) \/ Trim(s) \/ Answer(s)
           \/ Expire \/ AdminRead \/ Enable \/ Disable \/ Suspend
  BY <1>9, BesideOthers
<1>10. QED
  BY <1>1, <1>2, <1>3, <1>4, <1>5, <1>6, <1>7, <1>8, <1>9 DEF BotsNext

LEMMA KeepDurable == ASSUME KeepInv PROVE Durable
<1> SUFFICES ASSUME AtRest, Calm
             PROVE  /\ disk.data = mach
                    /\ \A o \in Unclaimed : o.dev = mach.dev => o.key \in mach.own
                    /\ "lostRows" \in odd \/ \A p \in Peers :
                         mach.dev \in tab[p].gave => p \in mach.rooms \cup {r.room : r \in Rows}
  BY DEF Durable, Calm
<1>1. /\ boot = "run" /\ mach # Nothing /\ sync.pc \in {"poll", "wait"} /\ reply = NoReply
      /\ \A w \in Loops : save[w] = NoSave
  BY DEF AtRest, Running
<1>2. disk # Nothing /\ sync.rows = {}
  BY <1>1 DEF KeepInv, Stage
<1>3. Saved /\ Halves /\ RoomsHeard /\ Cur = mach
  BY <1>1, <1>2 DEF KeepInv, Cur
<1>4. disk.data = mach
  BY <1>1, <1>3 DEF Saved, Owes, Current, Copied, NoSave, NoReply
<1>5. \A o \in Unclaimed : o.key \in mach.own
  BY <1>3 DEF Halves, Unclaimed
<1>6. "lostRows" \in odd \/ \A p \in Peers : mach.dev \in tab[p].gave => p \in mach.rooms \cup {r.room : r \in Rows}
  <2>1. ASSUME NEW p \in Peers, RoomTold(p) PROVE p \in mach.rooms \cup {r.room : r \in Rows}
    BY <1>2, <1>3, <2>1 DEF RoomTold
  <2>2. QED
    BY <1>3, <2>1 DEF RoomsHeard
<1>7. QED
  BY <1>4, <1>5, <1>6

(* Whatever the process, the server, the peers and an administrator do, and  *)
(* however often the process restarts: between two iterations of the sync    *)
(* loop the snapshot file holds the Olm machine as it is, and the machine    *)
(* what the server or a peer will rely on, unless a save was cut off or      *)
(* overlapped, or a request refused or lost.                                 *)
THEOREM SnapshotKeepsUp == BotsSpec => []Durable
<1>1. BotsInit => KeepInv
  BY KeepInit
<1>2. KeepInv /\ [BotsNext]_botVars => KeepInv'
  BY KeepSteps
<1>3. KeepInv => Durable
  BY KeepDurable
<1>4. QED
  BY <1>1, <1>2, <1>3, PTL DEF BotsSpec
=============================================================================
