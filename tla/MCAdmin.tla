------------------------------ MODULE MCAdmin ------------------------------
(* Two administrators' tabs, two users and two topics; or one account, with  *)
(* three requests at a time or two attempts with a passkey.                  *)
EXTENDS TopicAdmin, Accounts, TLC
CONSTANTS t1, t2, s1, s2, s3, u1, u2, b1, b2, c1, c2, c3, own, alien
VARIABLE part  \* what this behaviour is about
MCTopics == {t1, t2}
MCSlugs == {s1, s2, s3}
MCUsers == {u1, u2}
MCTabs == {b1, b2}
MCRoles == {"user", "mod", "admin"}
Base == [op |-> "load", tab |-> b1, t |-> t1, ts |-> {}, slug |-> Absent, body |-> <<>>, field |-> "view", tick |-> Absent,
         r |-> "mod", from |-> Absent, perm |-> Absent, u |-> u1, act |-> "view", effect |-> "allow"]
Queue == <<Absent, "queue">>
Config == <<Absent, "config">>
Row(s, v, h) == [EmptyTopic(s) EXCEPT !.view = v, !.home = h]
Patch(b, body) == [Base EXCEPT !.op = "topicPatch", !.tab = b, !.body = body]
Check(b, f, r) == [Base EXCEPT !.op = "topicPatch", !.tab = b, !.field = f, !.tick = r]
Save(b, r, p) == [Base EXCEPT !.op = "rolePatch", !.tab = b, !.r = r, !.perm = p]
User(op, b, u, r) == [Base EXCEPT !.op = op, !.tab = b, !.u = u, !.r = r]
Over(op, b, u) == [Base EXCEPT !.op = op, !.tab = b, !.u = u, !.perm = Queue, !.effect = "deny"]
Login(u) == [Base EXCEPT !.op = "login", !.u = u]
World(reqs, lap, on) ==
  [reqs |-> reqs, lap |-> lap, live |-> on, later |-> {}, system |-> {"admin", "user"},
   topics |-> (t1 :> Row(s1, {"mod"}, TRUE) @@ t2 :> Row(s2, {}, FALSE)),
   global |-> {<<"admin", Config>>, <<"admin", Queue>>, <<"mod", Queue>>},
   role |-> (u1 :> "mod" @@ u2 :> "user")]
Later(w) == [w EXCEPT !.later = {"mod"}, !.global = {<<"admin", Config>>},
               !.topics = (t1 :> Row(s1, {"user"}, FALSE) @@ t2 :> Absent),
               !.role = (u1 :> "user" @@ u2 :> Absent)]
MCWorkloads == {
  World(<<User("roleDelete", b1, u1, "mod"), Login(u1), [User("roleCreate", b1, u1, "mod") EXCEPT !.from = "admin"]>>, FALSE, FALSE),
  World(<<Patch(b1, [reply |-> {"mod"}]), Save(b2, "mod", Queue)>>, FALSE, FALSE),
  World(<<Save(b1, "mod", Queue), Login(u1), User("userPatch", b2, u1, "user")>>, TRUE, FALSE),
  World(<<Save(b1, "mod", Queue), Save(b2, "mod", Config), Login(u1)>>, TRUE, FALSE),
  World(<<Over("overridePut", b1, u1), Login(u1), Over("overrideDelete", b2, u1)>>, TRUE, FALSE),
  World(<<User("roleDelete", b1, u1, "mod"), Login(u1), Login(u2)>>, TRUE, FALSE),
  World(<<User("userDelete", b1, u1, "mod"), Login(u1), Save(b2, "mod", Queue)>>, TRUE, FALSE),
  World(<<Patch(b1, [slug |-> s3]), Save(b1, "mod", <<s1, "read">>), [Base EXCEPT !.op = "load"],
          Save(b1, "mod", <<s3, "read">>)>>, FALSE, FALSE),
  World(<<Patch(b1, [slug |-> s2]), Check(b1, "read", "everyone"), Check(b1, "read", "mod")>>, FALSE, FALSE),
  World(<<Patch(b1, [home |-> TRUE, read |-> {"mod", "user"}]), Save(b1, "mod", <<s1, "view">>),
          Check(b1, "view", "mod"), Save(b2, "mod", <<s2, "post">>)>>, FALSE, FALSE),
  World(<<Patch(b1, [e2ee |-> TRUE, wipe |-> TRUE]), Patch(b1, [password |-> "pw", now |-> TRUE]),
          Patch(b1, [password |-> Absent]), Patch(b1, [now |-> TRUE])>>, FALSE, FALSE),
  World(<<[Base EXCEPT !.op = "topicDelete"], [Base EXCEPT !.op = "topicCreate", !.slug = s1],
          [Base EXCEPT !.op = "bulkDelete", !.ts = {t1, t2}], [Base EXCEPT !.op = "topicCreate", !.slug = s2]>>,
        FALSE, FALSE),
  World(<<[Base EXCEPT !.op = "topicDelete"], Save(b2, "mod", Queue), [Base EXCEPT !.op = "topicCreate", !.slug = s1]>>,
        FALSE, FALSE),
  World(<<Patch(b1, [slug |-> s3]), [Base EXCEPT !.op = "bulkDelete", !.tab = b2, !.ts = {t1}],
          Check(b1, "view", "user")>>, TRUE, FALSE),
  World(<<[Base EXCEPT !.op = "grantPut"], [Base EXCEPT !.op = "grantPut", !.effect = "deny"],
          [Base EXCEPT !.op = "grantDelete"], User("userDelete", b1, u1, "mod")>>, FALSE, FALSE),
  Later(World(<<User("roleCreate", b1, u1, "mod"), User("userCreate", b1, u2, "mod"), Save(b1, "mod", <<s1, "view">>),
          User("roleDelete", b1, u1, "mod")>>, FALSE, FALSE)),
  Later(World(<<[User("roleCreate", b1, u1, "mod") EXCEPT !.from = "user"], User("roleCreate", b2, u1, "mod")>>, TRUE, FALSE)),
  World(<<User("userPatch", b1, u2, "admin"), Save(b2, "mod", Queue)>>, TRUE, TRUE),
  World(<<Over("overridePut", b1, u1), User("userDelete", b2, u2, "mod")>>, TRUE, TRUE)}
None0 == [op |-> "none", code |-> "none", pass |-> FALSE, addr |-> None]
Entry(code, pass) == [op |-> "login", code |-> code, pass |-> pass, addr |-> None]
Panel(op, code) == [op |-> op, code |-> code, pass |-> TRUE, addr |-> None]
Mail(op, a) == [op |-> op, code |-> "none", pass |-> FALSE, addr |-> a]
L(a, b, c, on, faults, steps, long) ==
  [ops |-> (c1 :> a @@ c2 :> b @@ c3 :> c), on |-> on, faults |-> faults,
   steps |-> steps, long |-> long, button |-> FALSE]
MCLoads ==
  {(* two logins with an authenticator; with recovery codes, as 2FA goes off *)
   L(Entry("totp", TRUE), Entry("totp", TRUE), None0, TRUE, FALSE, 4, FALSE),
   L(Entry("recovery", TRUE), Entry("recovery", TRUE), Panel("disable", "totp"), TRUE, FALSE, 0, FALSE),
   (* guesses                                                                *)
   L(Entry("none", FALSE), Entry("none", FALSE), Entry("none", TRUE), FALSE, TRUE, 0, TRUE),
   L(Entry("none", FALSE), Entry("none", TRUE), Panel("disable", "totp"), TRUE, FALSE, 0, TRUE),
   (* the 2FA panel                                                          *)
   L(Panel("enrol", "none"), Panel("confirm", "totp"), Entry("recovery", TRUE), FALSE, TRUE, 1, FALSE),
   L(Panel("disable", "totp"), Panel("enrol", "none"), Panel("confirm", "totp"), TRUE, FALSE, 0, FALSE),
   (* an address to link                                                     *)
   L(Mail("send", own), Mail("send", alien), Mail("verify", None), FALSE, FALSE, 0, FALSE),
   (* the button                                                             *)
   [L(None0, None0, None0, FALSE, FALSE, 0, FALSE) EXCEPT !.button = TRUE]}
MCBuckets == [b \in Buckets |-> 2]
(* Two tabs of the panel.                                                    *)
MCTwoTabs == {L(Panel("enrol", "none"), Panel("enrol", "none"), Panel("confirm", "totp"), FALSE, FALSE, 0, FALSE)}

(* The part that a behaviour is not about has nothing to do.                 *)
IdleWork == World(<<>>, FALSE, FALSE)
IdleLoad == L(None0, None0, None0, FALSE, FALSE, 0, FALSE)

MCAllWork == MCWorkloads \cup {IdleWork}
MCAllLoads == MCLoads \cup {IdleLoad}

allVars == <<adminVars, accountVars, part>>

BothInit ==
  /\ part \in {"admin", "account"}
  /\ AdminInit /\ AccountInit
  /\ IF part = "admin" THEN work # IdleWork /\ load = IdleLoad ELSE work = IdleWork /\ load # IdleLoad

BothNext ==
  /\ UNCHANGED part
  /\ \/ part = "admin" /\ AdminNext /\ UNCHANGED accountVars
     \/ part = "account" /\ AccountNext /\ UNCHANGED adminVars

BothSpec == BothInit /\ [][BothNext]_allVars /\ AdminFairness /\ AccountFairness

(* The panel in two tabs.                                                    *)
TabsInit == AdminInit /\ work = IdleWork /\ AccountInit /\ part = "account"
TabsSpec == TabsInit /\ [][BothNext]_allVars /\ AdminFairness /\ AccountFairness
=============================================================================
