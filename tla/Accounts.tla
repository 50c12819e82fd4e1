------------------------------ MODULE Accounts ------------------------------
(***************************************************************************)
(* The ways into one account together: LoginFactors, the e-mail address    *)
(* that is linked to it (app/api/user/email-link), and Passkeys.  A        *)
(* workload is either a set of requests or a use of the passkey button.    *)
(***************************************************************************)
EXTENDS LoginFactors

CONSTANTS
  Addrs,  \* addresses
  Mine,   \* those whose mail the account's owner reads
  MaxGets, MaxClicks

ASSUME AccountsAssumption ==
  /\ Mine \subseteq Addrs /\ None \notin Addrs
  /\ MaxGets \in Nat /\ MaxClicks \in Nat /\ None \notin 0..MaxGets

VARIABLES
  email,  \* users.email
  otp,    \* legends:email-otp: the send call that wrote it
  mails,  \* send calls whose mail has arrived
  taken,  \* addresses of other accounts
  get, live, cookie, cached, busy, try, counter, signs, clicks, results, crossed

Button == INSTANCE Passkeys

buttonVars == <<get, live, cookie, cached, busy, try, counter, signs, clicks, results, crossed>>
linkVars == <<email, otp, mails, taken>>
accountVars == <<vars, linkVars, buttonVars>>

AccountInit ==
  /\ Init /\ Button!Init
  /\ email = None /\ otp = None /\ mails = {} /\ taken = {}

Addr(p) == load.ops[p].addr

(***************************************************************************)
(* POST /api/user/email-link                                               *)
(***************************************************************************)

SendArrive(p) ==
  /\ Op(p) = "send"
  /\ Start(p, None)
  /\ UNCHANGED linkVars

SendFree(p) ==
  /\ call[p].pc = "free"
  /\ Goto(p, IF Addr(p) \in taken THEN "over" ELSE "store")
  /\ UNCHANGED <<load, clock, stored, linkVars>>

\* A new code replaces the one that may be waiting.
SendStore(p) ==
  /\ call[p].pc = "store"
  /\ otp' = p
  /\ Goto(p, "mail")
  /\ UNCHANGED <<load, clock, stored, email, mails, taken>>

SendMail(p) ==
  /\ call[p].pc = "mail"
  /\ mails' = mails \cup {p}
  /\ Goto(p, "done")
  /\ UNCHANGED <<load, clock, stored, email, otp, taken>>

(***************************************************************************)
(* POST /api/user/email-link/verify                                        *)
(***************************************************************************)

\* The owner types a code from a mail.
VerifyArrive(p) ==
  /\ Op(p) = "verify"
  /\ \E q \in mails : Addr(q) \in Mine /\ Start(p, q)
  /\ UNCHANGED linkVars

\* One read yields the code and the address it was sent to.
VerifyGet(p) ==
  /\ call[p].pc = "get"
  /\ IF otp = call[p].code THEN call' = [call EXCEPT ![p].pc = "link", ![p].secret = otp]
     ELSE Goto(p, "over")
  /\ UNCHANGED <<load, clock, stored, linkVars>>

\* The UPDATE and the DEL run in parallel.  Nothing but the look-up of the send
\* keeps two accounts from linking one address.
VerifyLink(p) ==
  /\ call[p].pc \in {"link", "linkLast"}
  /\ email' = Addr(call[p].secret)
  /\ Goto(p, IF call[p].pc = "link" THEN "forgetLast" ELSE "done")
  /\ UNCHANGED <<load, clock, stored, otp, mails, taken>>

VerifyForget(p) ==
  /\ call[p].pc \in {"link", "forgetLast"}
  /\ otp' = None
  /\ Goto(p, IF call[p].pc = "link" THEN "linkLast" ELSE "done")
  /\ UNCHANGED <<load, clock, stored, email, mails, taken>>

\* EX 600.
OtpLapses ==
  /\ otp # None
  /\ otp' = None
  /\ UNCHANGED <<vars, email, mails, taken>>

\* Another account links or registers with an address.
Claim(a) ==
  /\ \E p \in Calls : Op(p) = "send" /\ Addr(p) = a
  /\ a \notin taken
  /\ taken' = taken \cup {a}
  /\ UNCHANGED <<vars, email, otp, mails>>

LinkStep(p) ==
  \/ SendFree(p) \/ SendStore(p) \/ SendMail(p)
  \/ VerifyGet(p) \/ VerifyLink(p) \/ VerifyForget(p)

(***************************************************************************)
(* The specification                                                       *)
(***************************************************************************)

AccountNext ==
  \/ Next /\ UNCHANGED <<linkVars, buttonVars>>
  \/ /\ \/ \E p \in Calls : SendArrive(p) \/ VerifyArrive(p) \/ LinkStep(p)
        \/ \E a \in Addrs : Claim(a)
        \/ OtpLapses
     /\ UNCHANGED buttonVars
  \/ load.button /\ Button!Next /\ UNCHANGED <<vars, linkVars>>

\* Requests are served to the end and TTLs run out; nobody has to sign in.
AccountFairness ==
  /\ \A p \in Calls : WF_accountVars((Proceed(p) /\ UNCHANGED <<linkVars, buttonVars>>)
                                     \/ (LinkStep(p) /\ UNCHANGED buttonVars))
  /\ \A b \in Buckets : WF_accountVars(Lapse(b) /\ UNCHANGED <<linkVars, buttonVars>>)

AccountSpec == AccountInit /\ [][AccountNext]_accountVars /\ AccountFairness

(***************************************************************************)
(* Properties                                                              *)
(***************************************************************************)

ChallengeMatches == Button!ChallengeMatches
=============================================================================
