------------------------------ MODULE Passkeys ------------------------------
(***************************************************************************)
(* "Sign in with Passkey": PasskeyAuthButton.tsx in one tab and the two    *)
(* halves of app/api/auth/passkey/authenticate.                            *)
(*                                                                         *)
(* A GET is named by its number, and so are the challenge it stores in     *)
(* Redis and the value of the cookie that points to it.  Its answer brings *)
(* the cookie and the options together.  Refusals of the rate limiter and  *)
(* lost answers are one failure, Fail.                                     *)
(***************************************************************************)
EXTENDS Naturals, FiniteSets

CONSTANTS
  MaxGets,    \* GETs the tab makes
  MaxClicks,  \* attempts
  None

VARIABLES
  get,      \* each GET: who waits for it, and where it is
  live,     \* challenges in Redis
  cookie,   \* lc_passkey_chal
  cached,   \* prefetched.current
  busy,     \* prefetchInFlight.current
  try,      \* the attempt under way: authBusy while it is not idle
  counter,  \* passkey_credentials.counter, None once the row is deleted
  signs,    \* the authenticator's own counter
  clicks, results,  \* attempts made, and what became of them
  crossed   \* a click found a prefetch under way

vars == <<get, live, cookie, cached, busy, try, counter, signs, clicks, results, crossed>>
server == <<live, counter>>
tally == <<clicks, results, crossed>>

Gets == 1..MaxGets
NoTry == [pc |-> "idle", get |-> 0, opts |-> 0, sign |-> 0, sid |-> 0, chal |-> 0, aged |-> FALSE]

Init ==
  /\ get = [g \in Gets |-> [by |-> "none", pc |-> "none"]]
  /\ live = {} /\ cookie = None
  /\ cached = None /\ busy = FALSE
  /\ try = NoTry
  /\ counter = 0 /\ signs = 0
  /\ clicks = 0 /\ results = {} /\ crossed = FALSE

Fresh == {g \in Gets : get[g].by = "none"}
Send(by) ==
  \E g \in Fresh :
    /\ \A h \in Fresh : g <= h
    /\ get' = [get EXCEPT ![g] = [by |-> by, pc |-> "sent"]]
    /\ try' = IF by = "click" THEN [NoTry EXCEPT !.pc = "fetch", !.get = g] ELSE try

(***************************************************************************)
(* The button                                                              *)
(***************************************************************************)

\* Mutant of Prefetch: it fires while an attempt is under way.
PrefetchAnytime ==
  /\ ~busy /\ cached = None
  /\ busy' = TRUE
  /\ Send("prefetch")
  /\ UNCHANGED <<server, cookie, cached, signs, tally>>

\* onPointerEnter, onFocus.
Prefetch ==
  /\ try = NoTry /\ ~busy /\ cached = None
  /\ busy' = TRUE
  /\ Send("prefetch")
  /\ UNCHANGED <<server, cookie, cached, signs, tally>>

\* The click uses the options at hand, or fetches its own.
Click ==
  /\ try = NoTry /\ clicks < MaxClicks
  /\ clicks' = clicks + 1
  /\ crossed' = (crossed \/ busy)
  /\ cached' = None
  /\ IF cached # None
     THEN try' = [NoTry EXCEPT !.pc = "sheet", !.opts = cached] /\ UNCHANGED get
     ELSE Send("click")
  /\ UNCHANGED <<server, cookie, busy, signs, results>>

\* The GET handler stores its challenge.
Challenge(g) ==
  /\ get[g].pc = "sent"
  /\ get' = [get EXCEPT ![g].pc = "stored"]
  /\ live' = live \cup {g}
  /\ UNCHANGED <<cookie, cached, busy, try, counter, signs, tally>>

\* Its answer: the browser keeps the cookie, the code the options.
Answer(g) ==
  /\ get[g].pc = "stored"
  /\ get' = [get EXCEPT ![g].pc = "done"]
  /\ cookie' = g
  /\ IF get[g].by = "prefetch"
     THEN cached' = g /\ busy' = FALSE /\ UNCHANGED try
     ELSE try' = [try EXCEPT !.pc = "sheet", !.opts = g] /\ UNCHANGED <<cached, busy>>
  /\ UNCHANGED <<server, signs, tally>>

\* A GET that is refused, or whose answer is lost.
Fail(g) ==
  /\ get[g].pc \in {"sent", "stored"}
  /\ get' = [get EXCEPT ![g].pc = "done"]
  /\ IF get[g].by = "prefetch" THEN busy' = FALSE /\ UNCHANGED <<try, results>>
     ELSE try' = NoTry /\ results' = results \cup {"unreachable"} /\ UNCHANGED busy
  /\ UNCHANGED <<server, cookie, cached, signs, clicks, crossed>>

\* Cached options are used for four minutes.
GoStale ==
  /\ cached # None
  /\ cached' = None
  /\ UNCHANGED <<get, server, cookie, busy, try, signs, tally>>

\* A challenge lives for five; one that is still cached is not that old.
Age(g) ==
  /\ g \in live /\ g # cached /\ get[g].pc = "done"
  /\ live' = live \ {g}
  /\ try' = [try EXCEPT !.aged = @ \/ g = try.opts]
  /\ UNCHANGED <<get, cookie, cached, busy, counter, signs, tally>>

\* startAuthentication: the user touches the authenticator, which signs the
\* challenge, or closes the sheet.
Sign ==
  /\ try.pc = "sheet"
  /\ signs' = signs + 1
  /\ try' = [try EXCEPT !.pc = "post", !.sign = signs + 1]
  /\ UNCHANGED <<get, server, cookie, cached, busy, tally>>

Cancel ==
  /\ try.pc = "sheet"
  /\ try' = NoTry
  /\ results' = results \cup {"cancelled"}
  /\ UNCHANGED <<get, server, cookie, cached, busy, signs, clicks, crossed>>

(***************************************************************************)
(* The POST handler                                                        *)
(***************************************************************************)

Finish(result) == try' = NoTry /\ results' = results \cup {result}

\* The request leaves with the cookie of that moment.
Post ==
  /\ try.pc = "post"
  /\ IF cookie = None THEN Finish(IF try.aged THEN "aged" ELSE "mismatch")
     ELSE try' = [try EXCEPT !.pc = "read", !.sid = cookie] /\ UNCHANGED results
  /\ UNCHANGED <<get, server, cookie, cached, busy, signs, clicks, crossed>>

\* The challenge of the cookie is read, then deleted.
Read ==
  /\ try.pc = "read"
  /\ IF try.sid \notin live THEN Finish(IF try.aged THEN "aged" ELSE "mismatch")
     ELSE try' = [try EXCEPT !.pc = "forget", !.chal = try.sid] /\ UNCHANGED results
  /\ UNCHANGED <<get, server, cookie, cached, busy, signs, clicks, crossed>>

\* redis.del.
Forget ==
  /\ try.pc = "forget"
  /\ live' = live \ {try.chal}
  /\ try' = [try EXCEPT !.pc = "verify"]
  /\ UNCHANGED <<get, cookie, cached, busy, counter, signs, tally>>

\* The credential is read, and the assertion verified against both.  Every
\* answer from here on deletes the cookie.
Verify ==
  /\ try.pc = "verify"
  /\ \/ /\ counter # None /\ try.opts = try.chal /\ try.sign > counter
        /\ try' = [try EXCEPT !.pc = "count"]
        /\ UNCHANGED <<cookie, results>>
     \/ /\ counter = None
        /\ Finish("removed") /\ cookie' = None
     \/ /\ counter # None /\ ~(try.opts = try.chal /\ try.sign > counter)
        /\ Finish("mismatch") /\ cookie' = None
  /\ UNCHANGED <<get, server, cached, busy, signs, clicks, crossed>>

\* The new counter is saved, if the row is still there, and the session issued.
Count ==
  /\ try.pc = "count"
  /\ counter' = IF counter = None THEN None ELSE try.sign
  /\ cookie' = None
  /\ Finish("signed in")
  /\ UNCHANGED <<get, live, cached, busy, signs, clicks, crossed>>

\* DELETE /api/user/passkeys from another device.
Remove ==
  /\ counter # None
  /\ counter' = None
  /\ UNCHANGED <<get, live, cookie, cached, busy, try, signs, tally>>

Next ==
  \/ Prefetch \/ Click \/ GoStale \/ Sign \/ Cancel
  \/ Post \/ Read \/ Forget \/ Verify \/ Count \/ Remove
  \/ \E g \in Gets : Challenge(g) \/ Answer(g) \/ Fail(g) \/ Age(g)

Spec == Init /\ [][Next]_vars

(***************************************************************************)
(* Properties                                                              *)
(***************************************************************************)

\* PasskeyAuthButton.tsx:27-32: an attempt is not turned down because the
\* cookie stands for another challenge than the one that was signed, unless a
\* click had found a prefetch under way.
ChallengeMatches == "mismatch" \in results => crossed

=============================================================================
