---------------------------- MODULE LoginFactors ----------------------------
(***************************************************************************)
(* Signing in to one e-mail account: the password, the TOTP second factor, *)
(* its recovery codes and the rate limits.                                 *)
(* apps/web/app/api/auth/login, app/api/user/totp and lib/{totp,           *)
(* totp-recovery,rate-limit}.ts.                                           *)
(*                                                                         *)
(* A call is one request, made once; each await is a step.  Random values  *)
(* are named after the call that drew them: a TOTP secret or a set of      *)
(* recovery codes is its call, or Old for those of the initial state.  The *)
(* clock counts the 30 s steps of TOTP.  A workload is either a few steps   *)
(* of that clock, too short for a bucket of the rate limiter to run out,   *)
(* or long, and then a bucket with a TTL lapses some time.                 *)
(***************************************************************************)
EXTENDS Naturals, Sequences, FiniteSets

CONSTANTS
  Calls,    \* requests
  Loads,    \* workloads: what each call is, and how the account starts
  Slots,    \* recovery codes of a set (RECOVERY_CODE_COUNT of them)
  Limit,    \* attempts a bucket lets through in one window
  Old, None

Buckets == {"ip", "email", "disable", "send", "verify"}
Sources == Calls \cup {Old}

ASSUME LoginAssumption ==
  /\ None \notin Sources
  /\ Old \notin Calls
  /\ Limit \in [Buckets -> Nat \ {0}]

VARIABLES
  load,    \* the workload
  call,    \* progress of each request
  clock,   \* Date.now() / 30_000
  totp,    \* the totp_secrets row
  codes,   \* the totp_recovery_codes rows with used_at IS NULL
  spent,   \* the totp-used keys in Redis
  bucket   \* the counters of the rate limiter, and whether they have a TTL

vars == <<load, call, clock, totp, codes, spent, bucket>>
stored == <<totp, codes, spent, bucket>>

NoRow == [secret |-> None, confirmed |-> FALSE]
NoCodes == [by |-> None, unused |-> {}]
Otp(s, n) == [secret |-> s, step |-> n]
Recovery(s, i) == [by |-> s, slot |-> i]

Op(p) == load.ops[p].op
Finished == {"done", "over", "dead", "cut"}
Flying(p) == call[p].pc \notin Finished \cup {"ready"}
Done(p) == call[p].pc = "done"

\* Secrets somebody's authenticator shows, recovery codes somebody wrote down.
Shown == {call[q].secret : q \in {r \in Calls : Op(r) = "enrol" /\ Done(r)}}
         \cup (IF load.on THEN {Old} ELSE {})
HandedOut == {q \in Calls : Op(q) = "confirm" /\ Done(q)}
             \cup (IF load.on THEN {Old} ELSE {})

Typed(p) ==
  CASE load.ops[p].code = "totp" ->
         {Otp(s, n) : s \in Shown, n \in {m \in 0..load.steps + 2 : m + 1 >= clock /\ m <= clock + 1}}
    [] load.ops[p].code = "recovery" -> {Recovery(s, i) : s \in HandedOut, i \in Slots}
    [] OTHER -> {None}

IsOtp(c) == c # None /\ "step" \in DOMAIN c
IsRecovery(c) == c # None /\ "slot" \in DOMAIN c

\* verifyTotpCode: the current step and one to each side.
Verifies(s, c) == IsOtp(c) /\ c.secret = s /\ c.step + 1 >= clock /\ c.step <= clock + 1

Init ==
  /\ load \in Loads
  /\ call = [p \in Calls |-> [pc |-> "ready", gates |-> <<>>, code |-> None,
                              secret |-> None, late |-> FALSE]]
  /\ clock = 1
  /\ totp = IF load.on THEN [secret |-> Old, confirmed |-> TRUE] ELSE NoRow
  /\ codes = IF load.on THEN [by |-> Old, unused |-> Slots] ELSE NoCodes
  /\ spent = {}
  /\ bucket = [b \in Buckets |-> [n |-> 0, ttl |-> FALSE]]

Goto(p, pc) == call' = [call EXCEPT ![p].pc = pc]

(***************************************************************************)
(* Requests, and checkAndIncrement                                         *)
(***************************************************************************)

\* What a request does first, and the buckets it passes.
FirstStep == [login |-> "gate", enrol |-> "row", confirm |-> "row", disable |-> "row",
              send |-> "gate", verify |-> "gate"]
Gates == [login |-> <<"ip", "email">>, enrol |-> <<>>, confirm |-> <<>>,
          disable |-> <<"disable">>, send |-> <<"send">>, verify |-> <<"verify">>]
AfterGates == [login |-> "password", enrol |-> "row", confirm |-> "row", disable |-> "check",
               send |-> "free", verify |-> "get"]

Start(p, c) ==
  /\ call[p].pc = "ready"
  /\ call' = [call EXCEPT ![p] =
       [@ EXCEPT !.pc = FirstStep[Op(p)], !.gates = Gates[Op(p)], !.code = c]]
  /\ UNCHANGED <<load, clock, stored>>

Arrive(p) ==
  /\ Op(p) \in {"login", "enrol", "confirm", "disable"}
  /\ \E c \in Typed(p) : Start(p, c)

\* The bucket at the front lets the request through.
Admit(p) ==
  call' = [call EXCEPT ![p].gates = Tail(@),
                       ![p].pc = IF Len(call[p].gates) = 1 THEN AfterGates[Op(p)] ELSE "gate"]

\* Mutant of Incr: the TTL is not set by the hit that creates the counter.
IncrOnly(p) ==
  LET b == Head(call[p].gates)
      n == bucket[b].n + 1
  IN /\ call[p].pc = "gate"
     /\ bucket' = [bucket EXCEPT ![b].n = n]
     /\ IF n > Limit[b] THEN Goto(p, "over") ELSE Admit(p)
     /\ UNCHANGED <<load, clock, totp, codes, spent>>

\* INCR creates a missing counter, without a TTL.
Incr(p) ==
  LET b == Head(call[p].gates)
      n == bucket[b].n + 1
  IN /\ call[p].pc = "gate"
     /\ bucket' = [bucket EXCEPT ![b].n = n]
     /\ IF n = 1 THEN Goto(p, "expire")
        ELSE IF n > Limit[b] THEN Goto(p, "over") ELSE Admit(p)
     /\ UNCHANGED <<load, clock, totp, codes, spent>>

\* EXPIRE: nothing, if the counter has been deleted meanwhile.
Expire(p) ==
  LET b == Head(call[p].gates) IN
  /\ call[p].pc = "expire"
  /\ bucket' = [bucket EXCEPT ![b].ttl = @ \/ bucket[b].n > 0]
  /\ Admit(p)
  /\ UNCHANGED <<load, clock, totp, codes, spent>>

\* The TTL of a counter runs out.
Lapse(b) ==
  /\ load.long /\ bucket[b].ttl
  /\ bucket' = [bucket EXCEPT ![b] = [n |-> 0, ttl |-> FALSE]]
  /\ UNCHANGED <<load, call, clock, totp, codes, spent>>

\* A call to Redis or Postgres rejects, or the process dies.
Die(p) ==
  /\ load.faults
  /\ Flying(p)
  /\ Goto(p, IF call[p].pc = "expire" THEN "cut" ELSE "dead")
  /\ UNCHANGED <<load, clock, stored>>

(***************************************************************************)
(* POST /api/auth/login                                                    *)
(***************************************************************************)

LoginPassword(p) ==
  /\ call[p].pc = "password"
  /\ Goto(p, IF load.ops[p].pass THEN "factor" ELSE "over")
  /\ UNCHANGED <<load, clock, stored>>

\* The row decides whether a second factor is asked for, and checks its shape
\* and a TOTP code's digits.
LoginFactor(p) ==
  /\ call[p].pc = "factor"
  /\ \/ /\ ~totp.confirmed
        /\ call' = [call EXCEPT ![p].pc = "clear", ![p].code = None]
     \/ /\ totp.confirmed /\ IsRecovery(call[p].code)
        /\ Goto(p, "redeem")
     \/ /\ totp.confirmed /\ ~IsRecovery(call[p].code)
        /\ Goto(p, IF Verifies(totp.secret, call[p].code) THEN "replay" ELSE "over")
  /\ UNCHANGED <<load, clock, stored>>

\* Mutant of LoginRedeem: the UPDATE does not look at used_at.
RedeemAgain(p) ==
  LET c == call[p].code IN
  /\ call[p].pc = "redeem"
  /\ codes' = [codes EXCEPT !.unused = @ \ {c.slot}]
  /\ Goto(p, IF codes.by = c.by THEN "clear" ELSE "over")
  /\ UNCHANGED <<load, clock, totp, spent, bucket>>

\* redeemRecoveryCode: UPDATE ... WHERE used_at IS NULL.
LoginRedeem(p) ==
  LET c == call[p].code
      valid == codes.by = c.by /\ c.slot \in codes.unused
  IN /\ call[p].pc = "redeem"
     /\ codes' = IF valid THEN [codes EXCEPT !.unused = @ \ {c.slot}] ELSE codes
     /\ Goto(p, IF valid THEN "clear" ELSE "over")
     /\ UNCHANGED <<load, clock, totp, spent, bucket>>

Remembered(c) == \E k \in spent : k.code = c

\* SET totp-used:<user>:<code> NX EX 90, three steps of the clock.
LoginReplay(p) ==
  /\ call[p].pc = "replay"
  /\ IF Remembered(call[p].code) THEN Goto(p, "over") /\ UNCHANGED spent
     ELSE /\ Goto(p, "clear")
          /\ spent' = spent \cup {[code |-> call[p].code, until |-> clock + 3]}
  /\ UNCHANGED <<load, clock, totp, codes, bucket>>

\* Two DELs whose failure is ignored.
LoginClear(p) ==
  /\ call[p].pc = "clear"
  /\ \E B \in SUBSET {"ip", "email"} :
       /\ load.faults \/ B = {"ip", "email"}
       /\ bucket' = [b \in Buckets |-> IF b \in B THEN [n |-> 0, ttl |-> FALSE] ELSE bucket[b]]
  /\ Goto(p, "mint")
  /\ UNCHANGED <<load, clock, totp, codes, spent>>

\* issueSession and the cookies: what happens to a session is SessionAuth's.
LoginMint(p) ==
  /\ call[p].pc = "mint"
  /\ Goto(p, "done")
  /\ UNCHANGED <<load, clock, stored>>

(***************************************************************************)
(* GET, POST and DELETE /api/user/totp                                     *)
(***************************************************************************)

EnrolRead(p) ==
  /\ Op(p) = "enrol" /\ call[p].pc = "row"
  /\ IF totp.confirmed THEN Goto(p, "over")
     ELSE IF totp.secret = None THEN Goto(p, "upsert")
     ELSE call' = [call EXCEPT ![p].pc = "done", ![p].secret = totp.secret]
  /\ UNCHANGED <<load, clock, stored>>

\* INSERT ... ON CONFLICT DO UPDATE: whatever the row has become meanwhile.
EnrolUpsert(p) ==
  /\ call[p].pc = "upsert"
  /\ totp' = [secret |-> p, confirmed |-> FALSE]
  /\ call' = [call EXCEPT ![p].pc = "done", ![p].secret = p]
  /\ UNCHANGED <<load, clock, codes, spent, bucket>>

ConfirmRead(p) ==
  /\ Op(p) = "confirm" /\ call[p].pc = "row"
  /\ IF totp.secret # None /\ ~totp.confirmed /\ Verifies(totp.secret, call[p].code)
     THEN call' = [call EXCEPT ![p].pc = "confirm", ![p].secret = totp.secret]
     ELSE Goto(p, "over")
  /\ UNCHANGED <<load, clock, stored>>

\* The UPDATE names the user only, not the secret that was verified.
ConfirmUpdate(p) ==
  /\ call[p].pc = "confirm"
  /\ totp' = [totp EXCEPT !.confirmed = totp.secret # None]
  /\ Goto(p, "issue")
  /\ UNCHANGED <<load, clock, codes, spent, bucket>>

\* issueRecoveryCodes: one transaction replaces the set.
ConfirmIssue(p) ==
  /\ call[p].pc = "issue"
  /\ codes' = [by |-> p, unused |-> Slots]
  /\ Goto(p, "done")
  /\ UNCHANGED <<load, clock, totp, spent, bucket>>

\* Six digits are asked for: a recovery code does not turn 2FA off.
DisableRead(p) ==
  /\ Op(p) = "disable" /\ call[p].pc = "row"
  /\ IF totp.confirmed /\ IsOtp(call[p].code)
     THEN call' = [call EXCEPT ![p].pc = "gate", ![p].secret = totp.secret]
     ELSE Goto(p, "over")
  /\ UNCHANGED <<load, clock, stored>>

DisableCheck(p) ==
  /\ call[p].pc = "check"
  /\ Goto(p, IF load.ops[p].pass /\ Verifies(call[p].secret, call[p].code) THEN "drop" ELSE "over")
  /\ UNCHANGED <<load, clock, stored>>

\* The transaction that deletes the codes and the secret.
DisableDrop(p) ==
  /\ call[p].pc = "drop"
  /\ totp' = NoRow
  /\ codes' = NoCodes
  /\ Goto(p, "done")
  /\ UNCHANGED <<load, clock, spent, bucket>>

\* A step of the clock: late marks the logins it overtakes between the check
\* of their code and its SET.
Tick ==
  /\ clock <= load.steps
  /\ clock' = clock + 1
  /\ spent' = {k \in spent : k.until > clock + 1}
  /\ call' = [p \in Calls |-> [call[p] EXCEPT !.late = @ \/ call[p].pc = "replay"]]
  /\ UNCHANGED <<load, totp, codes, bucket>>

(***************************************************************************)
(* The specification                                                       *)
(***************************************************************************)

Proceed(p) ==
  \/ Incr(p) \/ Expire(p)
  \/ LoginPassword(p) \/ LoginFactor(p) \/ LoginRedeem(p) \/ LoginReplay(p)
  \/ LoginClear(p) \/ LoginMint(p)
  \/ EnrolRead(p) \/ EnrolUpsert(p) \/ ConfirmRead(p) \/ ConfirmUpdate(p) \/ ConfirmIssue(p)
  \/ DisableRead(p) \/ DisableCheck(p) \/ DisableDrop(p)

Next ==
  \/ \E p \in Calls : Arrive(p) \/ Proceed(p) \/ Die(p)
  \/ \E b \in Buckets : Lapse(b)
  \/ Tick

Spec == Init /\ [][Next]_vars

(***************************************************************************)
(* Properties                                                              *)
(***************************************************************************)

Minted(p) == Op(p) = "login" /\ Done(p)

\* totp-recovery.ts:72-75: a recovery code opens one session, however many
\* logins present it at once, and never another after it was replaced.
RecoveryOnce ==
  \A p, q \in Calls :
    p # q /\ Minted(p) /\ Minted(q) /\ IsRecovery(call[p].code) => call[p].code # call[q].code

\* login/route.ts:97: within the three steps in which a code verifies it opens
\* one session.  The key has no second to spare: a login whose clock stepped
\* between its check and its SET is left out.
CodeOnce ==
  \A p, q \in Calls :
    /\ p # q /\ Minted(p) /\ Minted(q)
    /\ ~call[p].late /\ ~call[q].late
    /\ IsOtp(call[p].code)
    => call[p].code # call[q].code

\* A second factor opens one session, whichever of the two kinds it is.
FactorSpentOnce == RecoveryOnce /\ CodeOnce

\* rate-limit.ts:112-115: no bucket stays full for good, unless a request died
\* between the INCR that created it and its EXPIRE.
Full(b) == bucket[b].n >= Limit[b]
LimitLifts == load.long => []<>((\A b \in Buckets : ~Full(b)) \/ \E p \in Calls : call[p].pc = "cut")

\* route.ts:100-103: turning 2FA off re-authenticates; a request that carries
\* the access cookie alone leaves a confirmed secret in force.
TwoFactorStays == [][totp.confirmed => totp'.confirmed \/ \E p \in Calls : call[p].pc = "drop"]_vars
=============================================================================
