----------------------------- MODULE TopicAdmin -----------------------------
(* Who may do what: roles and their permissions, topics and their role       *)
(* lists, grants, overrides, and the copies of all this that live elsewhere: *)
(* in access tokens, in the ws server's sockets and in the administrators'   *)
(* forms.  The routes under api/admin/{roles,topics,users} run one statement *)
(* at a time, outside transactions.                                          *)
(*                                                                           *)
(* A behaviour serves one workload: a sequence of requests, one after the    *)
(* other or (`lap') overlapping.  A request is a record of serving with the     *)
(* statements it still has to execute in prog; what it has read and will     *)
(* use later is in its other fields.  A permission is a pair: <<slug, act>>  *)
(* for topic.<slug>.<act>, <<Absent, name>> for a permission of its own.       *)
EXTENDS Naturals, FiniteSets, Sequences
CONSTANTS Topics, Slugs, Roles, Users,
          Tabs,        \* administrators' browser tabs
          Workloads,   \* what a behaviour may be asked: [reqs, lap, live]
          Absent
ASSUME AbsentAssumption == Absent \notin Topics \cup Slugs \cup Roles \cup Users \cup Tabs

Acts == {"view", "read", "post", "reply"}
(* A topic's row, and what a request may ask of it. *)
TopicRow == [slug : Slugs, view : SUBSET Roles, read : SUBSET Roles, post : SUBSET Roles,
             reply : SUBSET Roles, home : BOOLEAN, e2ee : BOOLEAN, history : BOOLEAN,
             locked : BOOLEAN, version : Nat]
Asked(b) ==
  /\ "slug" \in DOMAIN b => b.slug \in Slugs
  /\ \A a \in Acts \cap DOMAIN b : b[a] \subseteq Roles
  /\ \A f \in {"home", "e2ee", "wipe", "now"} \cap DOMAIN b : b[f] \in BOOLEAN
  /\ DOMAIN b \cap {"history", "locked", "version"} = {}
Perm == (Slugs \cup {Absent}) \X STRING
Ops == {"topicPatch", "topicCreate", "topicDelete", "bulkDelete", "grantPut", "grantDelete",
        "roleCreate", "rolePatch", "roleDelete", "userCreate", "userPatch", "userDelete",
        "overridePut", "overrideDelete", "login", "load"}
AdminRequest(q) ==
  /\ q.op \in Ops /\ q.ts \subseteq Topics
  /\ q.t \in Topics /\ q.u \in Users /\ q.r \in Roles /\ q.tab \in Tabs
  /\ q.from \in Roles \cup {Absent} /\ Asked(q.body)
  /\ q.op = "topicCreate" => q.slug \in Slugs
  /\ q.op = "rolePatch" => q.perm \in Perm
  /\ q.op = "topicPatch" /\ q.tick # Absent => q.field \in Acts /\ q.tick \in Roles \cup {"everyone"}
(* No two topics share a slug, which has a unique index; a request's number is *)
(* no user; rights over a topic are those its lists give.                      *)
ASSUME WorkloadAssumption ==
  /\ Absent \notin TopicRow /\ "admin" \in Roles
  /\ \A w \in Workloads :
       /\ DOMAIN w.reqs \subseteq Nat \ Users
       /\ \A i \in DOMAIN w.reqs : AdminRequest(w.reqs[i])
       /\ w.lap \in BOOLEAN /\ w.later \subseteq Roles
       /\ w.topics \in [Topics -> TopicRow \cup {Absent}]
       /\ \A t, o \in Topics :
            w.topics[t] # Absent /\ w.topics[o] # Absent /\ w.topics[t].slug = w.topics[o].slug => t = o
       /\ w.global \subseteq Roles \X ({Absent} \X STRING)
       /\ w.role \in [Users -> Roles \cup {Absent}]

VARIABLES work,     \* the workload of this behaviour
          serving,     \* its requests
          roles,    \* roles: the names
          held,     \* roles_permissions: pairs <<role, permission>>
          topic,    \* topics: row or Absent
          grant,    \* topic_principal_grants: <<topic, user, action, effect>>
          role,     \* users.role, or Absent without the user
          override, \* principal_permission_overrides: <<user, permission, effect>>
          open,     \* sessions: pairs <<id, user>>
          usable,   \* access tokens that are neither expired nor blocklisted
          copy,     \* what a tab's forms hold
          sock,     \* role and permissions an open socket acts with
          cache,    \* rolePermsCache of the ws server
          audit,    \* audit_log and user_device_change_log
          torn,     \* tokens that no revocation can be expected to find
          odd   \* requests that overlapped, failed half-way or bypassed the lists
adminVars == <<work, serving, roles, held, topic, grant, role, override, open, usable,
          copy, sock, cache, audit, torn, odd>>
db == <<roles, held, topic, grant, role, override>>
seats == <<open, usable>>

(* The actions the roles' route knows in a permission's name. *)
Parsed == {"view", "read", "post"}
TopicPerms(s) == {<<s, a>> : a \in Acts}

(* A user's permissions: those of the role, then the overrides. *)
Resolve(u, of) ==
  (of \cup {o[2] : o \in {x \in override : x[1] = u /\ x[3] = "allow"}})
    \ {o[2] : o \in {x \in override : x[1] = u /\ x[3] = "deny"}}
PermsOf(r) == {h[2] : h \in {x \in held : x[1] = r}}
Now(u) == IF role[u] = Absent THEN {} ELSE Resolve(u, PermsOf(role[u]))

---------------------------------------------------------------------------
(* The statements of each request, in the order of its handler. *)
(* The last of a change are those of a revocation: its sessions are read,      *)
(* their tokens blocked, their rows deleted.                                  *)
RevokeThenPut == <<"sessionsOf", "block", "close", "override">>
PutProgram == <<"override", "sessionsOf", "block", "close">>
Program(q) ==
  CASE q.op = "topicPatch"  -> <<"existing">>
    [] q.op = "topicCreate" -> <<"insertTopic">>
    [] q.op = "topicDelete" -> <<"slugOf", "dropPerms", "dropTopic">>
    [] q.op = "bulkDelete"  -> <<"slugsOf", "dropAll">>
    [] q.op = "grantPut"    -> <<"grant">>
    [] q.op = "grantDelete" -> <<"ungrant">>
    [] q.op = "roleCreate"  -> <<"exists", "insertRole", "clone", "insertPerms">>
    [] q.op = "rolePatch"   -> <<"oldPerms", "deletePerms", "insertPerms", "syncRead", "usersOf",
                                   "sessionsOf", "block", "close">>
    [] q.op = "roleDelete"  -> <<"roleRow", "usersOf", "sessionsOf", "block", "close", "deletePerms", "deleteRole">>
    [] q.op = "userCreate"  -> <<"insertUser">>
    [] q.op = "userPatch"   -> <<"prior", "updateUser", "sessionsOf", "block", "close">>
    [] q.op = "userDelete"  -> <<"sessionsOf", "block", "close", "deleteUser">>
    [] q.op = "overridePut" -> PutProgram
    [] q.op = "overrideDelete" -> <<"unoverride", "sessionsOf", "block", "close">>
    [] q.op = "login"       -> <<"profile", "permissions", "session">>
    [] q.op = "load"        -> <<"load">>

Idle == [st |-> "new", prog |-> <<>>, body |-> <<>>, perms |-> {}, row |-> Absent,
         had |-> {}, todo |-> {}, at |-> Absent, ids |-> {}, ok |-> TRUE]
Req(i) == work.reqs[i]
Requests == DOMAIN serving
InFlight(i) == serving[i].st = "run"
Quiet == \A i \in Requests : serving[i].st \in {"new", "done"}
At(i, s) == InFlight(i) /\ serving[i].prog # <<>> /\ Head(serving[i].prog) = s
Changes(i) == Req(i).op \notin {"login", "load"}
Minting == {i \in Requests : InFlight(i) /\ Req(i).op = "login" /\ serving[i].prog # Program(Req(i))}

(* The statement succeeds and the handler goes on to its next one. *)
Advance(i, c) == serving' = [serving EXCEPT ![i] = [c EXCEPT !.prog = Tail(@)]]
(* The handler returns early (404, 409), or a statement throws (500). *)
Refuse(i) == serving' = [serving EXCEPT ![i].prog = <<>>, ![i].ok = FALSE]

EmptyTopic(s) == [slug |-> s, view |-> {}, read |-> {}, post |-> {}, reply |-> {},
                  home |-> FALSE, e2ee |-> FALSE, history |-> TRUE, locked |-> FALSE, version |-> 0]
SlugTaken(t, s) == \E o \in Topics \ {t} : topic[o] # Absent /\ topic[o].slug = s
FormData == [rows |-> topic, perms |-> [r \in Roles |-> PermsOf(r)]]

AdminInit ==
  /\ work \in Workloads
  /\ serving = [i \in DOMAIN work.reqs |-> Idle]
  /\ roles = Roles \ work.later
  /\ topic = work.topics
  /\ held = work.global \cup
       {h \in Roles \X (Slugs \X Acts) : \E t \in Topics :
          topic[t] # Absent /\ topic[t].slug = h[2][1] /\ h[1] \in topic[t][h[2][2]]}
  /\ grant = {}
  /\ role = work.role
  /\ override = {}
  /\ open = {<<u, u>> : u \in {x \in Users : role[x] # Absent}}
  /\ usable = {[id |-> o[1], user |-> o[2], perms |-> Now(o[2])] : o \in open}
  /\ copy = [b \in Tabs |-> FormData]
  /\ sock = [u \in Users |-> IF work.live /\ role[u] # Absent
                               THEN [role |-> role[u], perms |-> Now(u), seen |-> Absent] ELSE Absent]
  /\ cache = [r \in Roles |-> Absent]
  /\ audit = {}
  /\ torn = {}
  /\ odd = {}

---------------------------------------------------------------------------
(* An administrator presses a button: the form computes the request from its *)
(* own copy.  A save of a topic or a role locks the form until the answer.   *)
Locked(b) == \E i \in Requests : InFlight(i) /\ Req(i).op # "login" /\ Req(i).tab = b
(* RolesCheckboxes: one role more or less than the list that was loaded, or  *)
(* everyone.  An empty list means everyone; only that box is enabled then.   *)
Listing(set, x) ==
  IF x # "everyone" THEN (IF x \in set THEN set \ {x} ELSE set \cup {x})
  ELSE IF set = {} THEN {"admin"} ELSE {}
Ticked(q) == copy[q.tab].rows[q.t][q.field]
Ticks(q) == q.op = "topicPatch" /\ q.tick # Absent
TopicBody(q) == IF Ticks(q) THEN [f \in {q.field} |-> Listing(Ticked(q), q.tick)] ELSE q.body
(* The roles form sends all permissions it shows for the role. *)
RolePerms(q) ==
  LET cur == copy[q.tab].perms[q.r]
  IN IF q.perm \in cur THEN cur \ {q.perm} ELSE cur \cup {q.perm}

Enter(i, c) ==
  /\ serving[i].st = "new"
  /\ work.lap \/ \A j \in Requests : j < i => serving[j].st = "done"
  /\ serving' = [serving EXCEPT ![i] = [c EXCEPT !.st = "run", !.prog = Program(Req(i))]]
  /\ odd' = IF Changes(i) /\ \E j \in Requests : InFlight(j) /\ Changes(j) THEN odd \cup {"lapped"} ELSE odd
  /\ UNCHANGED <<work, db, seats, sock, cache, audit, torn>>
Press(i) ==
  /\ Req(i).op \notin {"login", "rolePatch"}
  /\ Changes(i) => ~Locked(Req(i).tab)
  /\ Req(i).op = "topicPatch" => copy[Req(i).tab].rows[Req(i).t] # Absent
  /\ Ticks(Req(i)) => Req(i).tick = "everyone" \/ Ticked(Req(i)) # {}
  /\ Enter(i, [serving[i] EXCEPT !.body = IF Req(i).op = "topicPatch" THEN TopicBody(Req(i)) ELSE <<>>])
  /\ UNCHANGED copy
SaveRole(i) ==
  /\ Req(i).op = "rolePatch"
  /\ ~Locked(Req(i).tab)
  /\ LET p == RolePerms(Req(i))
     IN /\ Enter(i, [serving[i] EXCEPT !.perms = p])
        /\ copy' = [copy EXCEPT ![Req(i).tab].perms[Req(i).r] = p]
SignIn(i) == Req(i).op = "login" /\ Enter(i, serving[i]) /\ UNCHANGED copy

(* The answer reaches the form, which changes its own copy only. *)
Ended(i) == InFlight(i) /\ serving[i].prog = <<>>
Answer(i, rows, perms) ==
  /\ Ended(i)
  /\ serving' = [serving EXCEPT ![i].st = "done"]
  /\ copy' = [copy EXCEPT ![Req(i).tab] = [rows |-> rows, perms |-> perms]]
  /\ UNCHANGED <<work, db, seats, sock, cache, audit, torn, odd>>
Rows(i) == copy[Req(i).tab].rows
Perms(i) == copy[Req(i).tab].perms
Merge(row, body) == [f \in DOMAIN row |-> IF f \in DOMAIN body THEN body[f] ELSE row[f]]
SavedTopic(i) ==
  /\ Req(i).op = "topicPatch"
  /\ Answer(i, IF serving[i].ok
                 THEN [Rows(i) EXCEPT ![Req(i).t] = IF @ = Absent THEN @ ELSE Merge(@, serving[i].body)]
                 ELSE Rows(i), Perms(i))
DeletedTopic(i) ==
  /\ Req(i).op = "topicDelete"
  /\ Answer(i, IF serving[i].ok THEN [Rows(i) EXCEPT ![Req(i).t] = Absent] ELSE Rows(i), Perms(i))
DeletedTopics(i) ==
  /\ Req(i).op = "bulkDelete"
  /\ Answer(i, [t \in Topics |-> IF t \in serving[i].ids THEN Absent ELSE Rows(i)[t]], Perms(i))
CreatedTopic(i) ==
  /\ Req(i).op = "topicCreate"
  /\ Answer(i, IF serving[i].ok THEN [Rows(i) EXCEPT ![Req(i).t] = EmptyTopic(Req(i).slug)]
                 ELSE Rows(i), Perms(i))
SavedRole(i) == Req(i).op = "rolePatch" /\ Answer(i, Rows(i), Perms(i))
CreatedRole(i) ==
  /\ Req(i).op = "roleCreate"
  /\ Answer(i, Rows(i), IF serving[i].ok THEN [Perms(i) EXCEPT ![Req(i).r] = serving[i].perms] ELSE Perms(i))
DeletedRole(i) ==
  /\ Req(i).op = "roleDelete"
  /\ Answer(i, Rows(i), IF serving[i].ok THEN [Perms(i) EXCEPT ![Req(i).r] = {}] ELSE Perms(i))
Reload(i) ==
  /\ Req(i).op = "load"
  /\ serving[i].st = "run" /\ serving[i].prog = <<"load">>
  /\ serving' = [serving EXCEPT ![i].st = "done", ![i].prog = <<>>]
  /\ copy' = [copy EXCEPT ![Req(i).tab] = FormData]
  /\ UNCHANGED <<work, db, seats, sock, cache, audit, torn, odd>>
Settled(i) ==
  /\ Req(i).op \in {"grantPut", "grantDelete", "userCreate", "userPatch", "userDelete",
                    "overridePut", "overrideDelete"}
  /\ Answer(i, Rows(i), Perms(i))
SignedIn(i) ==
  /\ Req(i).op = "login"
  /\ Ended(i)
  /\ serving' = [serving EXCEPT ![i].st = "done"]
  /\ UNCHANGED <<work, db, seats, copy, sock, cache, audit, torn, odd>>

---------------------------------------------------------------------------
(* PATCH api/admin/topics/[id] *)
Else == <<work, seats, copy, sock, cache, torn, odd>>
Asks(body, f) == f \in DOMAIN body
Clears(body) == Asks(body, "password") /\ body.password = Absent
Flips(body) == Asks(body, "e2ee") /\ body.e2ee
Bumps(body) == Asks(body, "now") /\ body.now /\ ~Clears(body)
(* The columns the UPDATE sets; a new version counts on from the row read before. *)
PatchOf(body, ex) ==
  [f \in (DOMAIN body \cap DOMAIN ex)
          \cup (IF Flips(body) THEN {"history"} ELSE {})
          \cup (IF Asks(body, "password") THEN {"locked"} ELSE {})
          \cup (IF Clears(body) \/ Bumps(body) THEN {"version"} ELSE {})
     |-> CASE f = "history" -> FALSE
           [] f = "locked"  -> ~Clears(body)
           [] f = "version" -> IF Clears(body) THEN 0 ELSE ex.version + 1
           [] OTHER         -> body[f]]
First(step, rest) == <<step>> \o rest
PatchProgram(body, ex) ==
  LET update == First("updateTopic", IF DOMAIN body \cap Acts # {} THEN <<"dropNew", "syncPerms">> ELSE <<>>)
      rename == IF Asks(body, "slug") /\ body.slug # ex.slug
                  THEN First("oldSlug", First("dropOld", First("renamePerms", update))) ELSE update
      wipe   == IF Flips(body) /\ Asks(body, "wipe") /\ body.wipe THEN First("wipe", rename) ELSE rename
  IN IF Asks(body, "home") /\ body.home THEN First("clearHome", wipe) ELSE wipe

Existing(i) ==
  /\ At(i, "existing")
  /\ LET ex == topic[Req(i).t]
     IN IF ex = Absent THEN Refuse(i)
        ELSE serving' = [serving EXCEPT ![i].row = ex, ![i].prog = PatchProgram(serving[i].body, ex)]
  /\ UNCHANGED <<Else, db, audit>>
ClearHome(i) ==
  /\ At(i, "clearHome")
  /\ topic' = [t \in Topics |-> IF topic[t] = Absent THEN Absent ELSE [topic[t] EXCEPT !.home = FALSE]]
  /\ Advance(i, serving[i])
  /\ UNCHANGED <<Else, roles, held, grant, role, override, audit>>
(* All messages are soft-deleted; only the audit row matters here. *)
Wipe(i) ==
  /\ At(i, "wipe")
  /\ audit' = audit \cup {<<i, "wipe">>}
  /\ Advance(i, serving[i])
  /\ UNCHANGED <<Else, db>>
OldSlug(i) ==
  /\ At(i, "oldSlug")
  /\ Advance(i, [serving[i] EXCEPT !.had = {h \in held : h[2] \in TopicPerms(serving[i].row.slug)}])
  /\ UNCHANGED <<Else, db, audit>>
DropOld(i) ==
  /\ At(i, "dropOld")
  /\ held' = IF serving[i].had = {} THEN held
             ELSE {h \in held : h[2] \notin TopicPerms(serving[i].row.slug)}
  /\ Advance(i, serving[i])
  /\ UNCHANGED <<Else, roles, topic, grant, role, override, audit>>
RenamePerms(i) ==
  /\ At(i, "renamePerms")
  /\ held' = held \cup {<<h[1], <<serving[i].body.slug, h[2][2]>>>> : h \in serving[i].had}
  /\ Advance(i, serving[i])
  /\ UNCHANGED <<Else, roles, topic, grant, role, override, audit>>
(* The unique index on the slug may refuse the row: what was done stays done. *)
UpdateTopic(i) ==
  /\ At(i, "updateTopic")
  /\ LET t == Req(i).t   p == PatchOf(serving[i].body, serving[i].row)
     IN IF topic[t] = Absent \/ (Asks(p, "slug") /\ SlugTaken(t, p.slug))
        THEN Refuse(i) /\ odd' = odd \cup {"failed"} /\ UNCHANGED topic
        ELSE /\ topic' = [topic EXCEPT ![t] = Merge(@, p)]
             /\ Advance(i, [serving[i] EXCEPT !.row = Merge(topic'[t], [slug |-> Merge(@, p).slug])])
             /\ UNCHANGED odd
  /\ UNCHANGED <<work, seats, copy, sock, cache, torn, roles, held, grant, role, override, audit>>
(* syncTopicPermissions, with the lists of the row the UPDATE returned under  *)
(* the slug of the request, or else of the row read before.                   *)
DropNew(i) ==
  /\ At(i, "dropNew")
  /\ held' = {h \in held : h[2] \notin TopicPerms(serving[i].row.slug)}
  /\ Advance(i, serving[i])
  /\ UNCHANGED <<Else, roles, topic, grant, role, override, audit>>
SyncPerms(i) ==
  /\ At(i, "syncPerms")
  /\ held' = held \cup
       UNION {{<<r, <<serving[i].row.slug, a>>>> : r \in serving[i].row[a]} : a \in Acts}
  /\ Advance(i, serving[i])
  /\ UNCHANGED <<Else, roles, topic, grant, role, override, audit>>

(* POST api/admin/topics, DELETE topics/[id], topics/bulk, and the grants *)
InsertTopic(i) ==
  /\ At(i, "insertTopic")
  /\ IF SlugTaken(Absent, Req(i).slug) \/ topic[Req(i).t] # Absent
     THEN Refuse(i) /\ UNCHANGED topic
     ELSE topic' = [topic EXCEPT ![Req(i).t] = EmptyTopic(Req(i).slug)] /\ Advance(i, serving[i])
  /\ UNCHANGED <<Else, roles, held, grant, role, override, audit>>
SlugOf(i) ==
  /\ At(i, "slugOf")
  /\ Advance(i, [serving[i] EXCEPT !.row = topic[Req(i).t]])
  /\ UNCHANGED <<Else, db, audit>>
DropPerms(i) ==
  /\ At(i, "dropPerms")
  /\ held' = IF serving[i].row = Absent THEN held
             ELSE {h \in held : h[2] \notin TopicPerms(serving[i].row.slug)}
  /\ Advance(i, serving[i])
  /\ UNCHANGED <<Else, roles, topic, grant, role, override, audit>>
DropTopic(i) ==
  /\ At(i, "dropTopic")
  /\ topic' = [topic EXCEPT ![Req(i).t] = Absent]
  /\ grant' = {g \in grant : g[1] # Req(i).t}
  /\ audit' = audit \cup {<<i, "delete">>}
  /\ Advance(i, serving[i])
  /\ UNCHANGED <<Else, roles, held, role, override>>
SlugsOf(i) ==
  /\ At(i, "slugsOf")
  /\ LET ids == {t \in Req(i).ts : topic[t] # Absent}
     IN IF ids = {} THEN serving' = [serving EXCEPT ![i].prog = <<>>]
        ELSE Advance(i, [serving[i] EXCEPT !.ids = ids, !.todo = {topic[t].slug : t \in ids}])
  /\ UNCHANGED <<Else, db, audit>>
(* One transaction: the permissions of the slugs read before it, then the rows. *)
DropAll(i) ==
  /\ At(i, "dropAll")
  /\ held' = {h \in held : \A s \in serving[i].todo : h[2] \notin TopicPerms(s)}
  /\ topic' = [t \in Topics |-> IF t \in serving[i].ids THEN Absent ELSE topic[t]]
  /\ grant' = {g \in grant : g[1] \notin serving[i].ids}
  /\ Advance(i, [serving[i] EXCEPT !.ids = {t \in @ : topic[t] # Absent}])
  /\ UNCHANGED <<Else, roles, role, override, audit>>
Grant(i) ==
  /\ At(i, "grant")
  /\ LET q == Req(i)
     IN IF topic[q.t] = Absent THEN Refuse(i) /\ UNCHANGED grant
        ELSE /\ grant' = {g \in grant : <<g[1], g[2], g[3]>> # <<q.t, q.u, q.act>>}
                           \cup {<<q.t, q.u, q.act, q.effect>>}
             /\ Advance(i, serving[i])
  /\ UNCHANGED <<Else, roles, held, topic, role, override, audit>>
Ungrant(i) ==
  /\ At(i, "ungrant")
  /\ grant' = {g \in grant : <<g[1], g[2], g[3]>> # <<Req(i).t, Req(i).u, Req(i).act>>}
  /\ Advance(i, serving[i])
  /\ UNCHANGED <<Else, roles, held, topic, role, override, audit>>

---------------------------------------------------------------------------
(* POST api/admin/roles, PATCH and DELETE roles/[name] *)
Exists(i) ==
  /\ At(i, "exists")
  /\ IF Req(i).r \in roles THEN Refuse(i) ELSE Advance(i, serving[i])
  /\ UNCHANGED <<Else, db, audit>>
InsertRole(i) ==
  /\ At(i, "insertRole")
  /\ IF Req(i).r \in roles THEN Refuse(i) /\ UNCHANGED roles
     ELSE roles' = roles \cup {Req(i).r} /\ Advance(i, serving[i])
  /\ odd' = IF \E t \in Topics, a \in Acts : topic[t] # Absent /\ Req(i).r \in topic[t][a]
             THEN odd \cup {"unlisted"} ELSE odd
  /\ UNCHANGED <<work, seats, copy, sock, cache, torn, held, topic, grant, role, override, audit>>
(* Users keep the name of a role that is deleted, and have it when it is       *)
(* created anew: nobody revokes their tokens then.                             *)
Bearers(r) == Minting \cup {k.id : k \in {x \in usable : role[x.user] = r}}
(* The clone copies topic permissions too, and no topic's list learns of it. *)
Clone(i) ==
  /\ At(i, "clone")
  /\ LET p == IF Req(i).from = Absent THEN {} ELSE PermsOf(Req(i).from)
     IN /\ Advance(i, [serving[i] EXCEPT !.perms = p, !.todo = p])
        /\ odd' = IF \E x \in p : x[1] # Absent THEN odd \cup {"unlisted"} ELSE odd
  /\ UNCHANGED <<work, seats, copy, sock, cache, torn, db, audit>>
InsertPerms(i) ==
  /\ At(i, "insertPerms")
  /\ IF serving[i].todo = {}
     THEN Advance(i, [serving[i] EXCEPT !.todo = serving[i].had]) /\ UNCHANGED <<held, odd, torn>>
     ELSE \E p \in serving[i].todo :
            IF <<Req(i).r, p>> \in held /\ Req(i).op = "rolePatch"
            THEN Refuse(i) /\ odd' = odd \cup {"failed"} /\ UNCHANGED <<held, torn>>
            ELSE /\ UNCHANGED odd
                 /\ held' = held \cup {<<Req(i).r, p>>}
                 /\ torn' = IF Req(i).op = "rolePatch" THEN torn ELSE torn \cup Bearers(Req(i).r)
                 /\ serving' = [serving EXCEPT ![i].todo = @ \ {p}]
  /\ UNCHANGED <<work, seats, copy, sock, cache, roles, topic, grant, role, override, audit>>
(* What differs from the permissions read now is to be synced into the topics; *)
(* a permission to reply is no name the route parses, and is not.              *)
OldPerms(i) ==
  /\ At(i, "oldPerms")
  /\ LET old == PermsOf(Req(i).r)   new == serving[i].perms   diff == (new \ old) \cup (old \ new)
     IN IF Req(i).r \notin roles THEN Refuse(i) /\ UNCHANGED odd
        ELSE /\ Advance(i, [serving[i] EXCEPT !.todo = new, !.had = {p \in diff : p[2] \in Parsed}])
             /\ odd' = IF \E p \in diff : p[1] # Absent /\ p[2] \notin Parsed THEN odd \cup {"unlisted"} ELSE odd
  /\ UNCHANGED <<work, seats, copy, sock, cache, torn, db, audit>>
DeletePerms(i) ==
  /\ At(i, "deletePerms")
  /\ held' = {h \in held : h[1] # Req(i).r}
  /\ Advance(i, serving[i])
  /\ torn' = IF Req(i).op = "rolePatch" THEN torn
             ELSE torn \cup Bearers(Req(i).r)
  /\ UNCHANGED <<work, seats, copy, sock, cache, odd, roles, topic, grant, role, override, audit>>
SyncRead(i) ==
  /\ At(i, "syncRead")
  /\ IF serving[i].todo = {} THEN Advance(i, serving[i]) /\ UNCHANGED odd
     ELSE \E p \in IF serving[i].todo \cap serving[i].perms # {} THEN serving[i].todo \cap serving[i].perms ELSE serving[i].todo :
            LET known == {t \in Topics : topic[t] # Absent /\ topic[t].slug = p[1]}
            IN IF known = {} \/ \E t \in known : Req(i).r \in topic[t][p[2]] /\ p \in serving[i].perms
               THEN /\ serving' = [serving EXCEPT ![i].todo = @ \ {p}]
                    /\ odd' = IF known = {} /\ p[1] # Absent THEN odd \cup {"unlisted"} ELSE odd
               ELSE /\ serving' = [serving EXCEPT ![i].todo = @ \ {p}, ![i].at = p,
                          ![i].row = topic[CHOOSE t \in known : TRUE],
                          ![i].prog = First("syncWrite", @)]
                    /\ UNCHANGED odd
  /\ UNCHANGED <<work, seats, copy, sock, cache, torn, db, audit>>
SyncOnlyAdds(i) ==
  /\ At(i, "syncWrite")
  /\ LET p == serving[i].at   new == serving[i].row[p[2]] \cup {Req(i).r}
     IN topic' = [t \in Topics |-> IF topic[t] # Absent /\ topic[t].slug = p[1]
                                     THEN [topic[t] EXCEPT ![p[2]] = new] ELSE topic[t]]
  /\ Advance(i, serving[i])
  /\ UNCHANGED <<Else, roles, held, grant, role, override, audit>>
(* The list is written as it was read, with the role more or less. *)
SyncWrite(i) ==
  /\ At(i, "syncWrite")
  /\ LET p == serving[i].at   cur == serving[i].row[p[2]]
         new == IF p \in serving[i].perms THEN cur \cup {Req(i).r} ELSE cur \ {Req(i).r}
     IN topic' = [t \in Topics |-> IF topic[t] # Absent /\ topic[t].slug = p[1]
                                     THEN [topic[t] EXCEPT ![p[2]] = new] ELSE topic[t]]
  /\ Advance(i, serving[i])
  /\ UNCHANGED <<Else, roles, held, grant, role, override, audit>>
RoleRow(i) ==
  /\ At(i, "roleRow")
  /\ IF Req(i).r \notin roles \/ Req(i).r \in work.system THEN Refuse(i) ELSE Advance(i, serving[i])
  /\ UNCHANGED <<Else, db, audit>>
DeleteRole(i) ==
  /\ At(i, "deleteRole")
  /\ roles' = roles \ {Req(i).r}
  /\ Advance(i, serving[i])
  /\ UNCHANGED <<Else, held, topic, grant, role, override, audit>>

---------------------------------------------------------------------------
(* revokeUserJtis and revokeJtisForRole *)
UsersOf(i) ==
  /\ At(i, "usersOf")
  /\ LET us == {u \in Users : role[u] = Req(i).r}
     IN IF us = {} THEN serving' = [serving EXCEPT ![i].prog = SubSeq(@, 5, Len(@))]
        ELSE Advance(i, [serving[i] EXCEPT !.ids = us])
  /\ UNCHANGED <<Else, db, audit>>
Targets(i) == IF Req(i).op \in {"rolePatch", "roleDelete"} THEN serving[i].ids ELSE {Req(i).u}
SessionsOf(i) ==
  /\ At(i, "sessionsOf")
  /\ Advance(i, [serving[i] EXCEPT !.had = {o[1] : o \in {x \in open : x[2] \in Targets(i)}}])
  /\ torn' = torn \cup {j \in Minting : Req(j).u \in Targets(i)}
  /\ UNCHANGED <<work, seats, copy, sock, cache, odd, db, audit>>
Block(i) ==
  /\ At(i, "block")
  /\ usable' = {k \in usable : k.id \notin serving[i].had}
  /\ Advance(i, serving[i])
  /\ UNCHANGED <<work, open, copy, sock, cache, torn, odd, db, audit>>
Close(i) ==
  /\ At(i, "close")
  /\ open' = {o \in open : o[2] \notin Targets(i)}
  /\ torn' = torn \cup {k.id : k \in {x \in usable : x.user \in Targets(i) /\ x.id \notin serving[i].had}}
  /\ Advance(i, serving[i])
  /\ UNCHANGED <<work, usable, copy, sock, cache, odd, db, audit>>

(* POST, PATCH, DELETE api/admin/users, and permission-overrides *)
InsertUser(i) ==
  /\ At(i, "insertUser") /\ role[Req(i).u] = Absent  \* the id is a new one
  /\ role' = [role EXCEPT ![Req(i).u] = Req(i).r]
  /\ Advance(i, serving[i])
  /\ UNCHANGED <<Else, roles, held, topic, grant, override, audit>>
Prior(i) ==
  /\ At(i, "prior")
  /\ Advance(i, [serving[i] EXCEPT !.at = role[Req(i).u]])
  /\ UNCHANGED <<Else, db, audit>>
UpdateUser(i) ==
  /\ At(i, "updateUser")
  /\ LET u == Req(i).u   r == Req(i).r   was == serving[i].at
     IN IF role[u] = Absent THEN Refuse(i) /\ UNCHANGED <<role, audit>>
        ELSE /\ role' = [role EXCEPT ![u] = r]
             /\ audit' = audit \cup (IF was # r THEN {<<i, "role">>} ELSE {})
                               \cup (IF (was = "admin") # (r = "admin") THEN {<<i, "device">>} ELSE {})
             /\ Advance(i, serving[i])
  /\ UNCHANGED <<Else, roles, held, topic, grant, override>>
DeleteUser(i) ==
  /\ At(i, "deleteUser")
  /\ LET u == Req(i).u   mine == {k.id : k \in {x \in usable : x.user = u}}
     IN /\ role' = [role EXCEPT ![u] = Absent]
        /\ open' = {o \in open : o[2] # u}
        /\ grant' = {g \in grant : g[2] # u}
        /\ torn' = torn \cup Minting \cup mine
  /\ Advance(i, serving[i])
  /\ UNCHANGED <<work, usable, copy, sock, cache, odd, roles, held, topic, override, audit>>
Override(i) ==
  /\ At(i, "override")
  /\ LET q == Req(i)
     IN override' = {o \in override : <<o[1], o[2]>> # <<q.u, q.perm>>} \cup {<<q.u, q.perm, q.effect>>}
  /\ Advance(i, serving[i])
  /\ UNCHANGED <<Else, roles, held, topic, grant, role, audit>>
Unoverride(i) ==
  /\ At(i, "unoverride")
  /\ override' = {o \in override : <<o[1], o[2]>> # <<Req(i).u, Req(i).perm>>}
  /\ Advance(i, serving[i])
  /\ UNCHANGED <<Else, roles, held, topic, grant, role, audit>>

---------------------------------------------------------------------------
(* issueSession: the profile, its permissions, then the sessions row. *)
Profile(i) ==
  /\ At(i, "profile")
  /\ IF role[Req(i).u] = Absent THEN Refuse(i) ELSE Advance(i, [serving[i] EXCEPT !.at = role[Req(i).u]])
  /\ UNCHANGED <<Else, db, audit>>
Permissions(i) ==
  /\ At(i, "permissions")
  /\ Advance(i, [serving[i] EXCEPT !.perms = Resolve(Req(i).u, PermsOf(serving[i].at))])
  /\ UNCHANGED <<Else, db, audit>>
Session(i) ==
  /\ At(i, "session")
  /\ IF role[Req(i).u] = Absent THEN Refuse(i) /\ UNCHANGED seats
     ELSE /\ usable' = usable \cup {[id |-> i, user |-> Req(i).u, perms |-> serving[i].perms]}
          /\ open' = open \cup {<<i, Req(i).u>>}
          /\ Advance(i, serving[i])
  /\ UNCHANGED <<work, copy, sock, cache, torn, odd, db, audit>>

(* The ws server's sweep, a socket at a time: the user's rows first, then     *)
(* the role's permissions through a cache of 30 seconds.                      *)
SweepSameRole(u) ==
  /\ sock[u] # Absent /\ sock[u].seen = Absent /\ sock[u].role # role[u]
  /\ sock' = [sock EXCEPT ![u] = IF role[u] = Absent THEN Absent
                 ELSE [@ EXCEPT !.seen = [role |-> role[u], over |-> {o \in override : o[1] = u}]]]
  /\ UNCHANGED <<work, serving, copy, db, seats, cache, audit, torn, odd>>
SweepRead(u) ==
  /\ sock[u] # Absent /\ sock[u].seen = Absent
  /\ sock' = [sock EXCEPT ![u] = IF role[u] = Absent THEN Absent
                 ELSE [@ EXCEPT !.seen = [role |-> role[u], over |-> {o \in override : o[1] = u}]]]
  /\ UNCHANGED <<work, serving, copy, db, seats, cache, audit, torn, odd>>
Applied(of, over) ==
  (of \cup {o[2] : o \in {x \in over : x[3] = "allow"}}) \ {o[2] : o \in {x \in over : x[3] = "deny"}}
SweepApply(u) ==
  /\ sock[u] # Absent /\ sock[u].seen # Absent
  /\ LET s == sock[u].seen
         of == IF cache[s.role] # Absent THEN cache[s.role] ELSE PermsOf(s.role)
     IN /\ cache' = [cache EXCEPT ![s.role] = of]
        /\ sock' = [sock EXCEPT ![u] = [role |-> s.role, perms |-> Applied(of, s.over), seen |-> Absent]]
  /\ UNCHANGED <<work, serving, copy, db, seats, audit, torn, odd>>
CacheExpires(r) ==
  /\ cache[r] # Absent
  /\ cache' = [cache EXCEPT ![r] = Absent]
  /\ UNCHANGED <<work, serving, copy, db, seats, sock, audit, torn, odd>>

Handle(i) ==
  \/ Existing(i) \/ ClearHome(i) \/ Wipe(i) \/ OldSlug(i) \/ DropOld(i) \/ RenamePerms(i)
  \/ UpdateTopic(i) \/ DropNew(i) \/ SyncPerms(i) \/ InsertTopic(i) \/ SlugOf(i)
  \/ DropPerms(i) \/ DropTopic(i) \/ SlugsOf(i) \/ DropAll(i) \/ Grant(i) \/ Ungrant(i)
  \/ Exists(i) \/ InsertRole(i) \/ Clone(i) \/ InsertPerms(i) \/ OldPerms(i)
  \/ DeletePerms(i) \/ SyncRead(i) \/ SyncWrite(i) \/ RoleRow(i) \/ DeleteRole(i)
  \/ UsersOf(i) \/ SessionsOf(i) \/ Block(i) \/ Close(i) \/ InsertUser(i) \/ Prior(i)
  \/ UpdateUser(i) \/ DeleteUser(i) \/ Override(i) \/ Unoverride(i) \/ Profile(i)
  \/ Permissions(i) \/ Session(i)
Show(i) ==
  \/ SavedTopic(i) \/ DeletedTopic(i) \/ DeletedTopics(i) \/ CreatedTopic(i)
  \/ SavedRole(i) \/ CreatedRole(i) \/ DeletedRole(i) \/ Reload(i) \/ Settled(i)
  \/ SignedIn(i)
AdminNext ==
  \/ \E i \in Requests :
       \/ Press(i) \/ SaveRole(i) \/ SignIn(i) \/ Existing(i) \/ ClearHome(i) \/ Wipe(i)
       \/ OldSlug(i) \/ DropOld(i) \/ RenamePerms(i) \/ UpdateTopic(i) \/ DropNew(i)
       \/ SyncPerms(i) \/ InsertTopic(i) \/ SlugOf(i) \/ DropPerms(i) \/ DropTopic(i)
       \/ SlugsOf(i) \/ DropAll(i) \/ Grant(i) \/ Ungrant(i) \/ Exists(i)
       \/ InsertRole(i) \/ Clone(i) \/ InsertPerms(i) \/ OldPerms(i) \/ DeletePerms(i)
       \/ SyncRead(i) \/ SyncWrite(i) \/ RoleRow(i) \/ DeleteRole(i) \/ UsersOf(i)
       \/ SessionsOf(i) \/ Block(i) \/ Close(i) \/ InsertUser(i) \/ Prior(i)
       \/ UpdateUser(i) \/ DeleteUser(i) \/ Override(i) \/ Unoverride(i) \/ Profile(i)
       \/ Permissions(i) \/ Session(i) \/ SavedTopic(i) \/ DeletedTopic(i)
       \/ DeletedTopics(i) \/ CreatedTopic(i) \/ SavedRole(i) \/ CreatedRole(i)
       \/ DeletedRole(i) \/ Reload(i) \/ Settled(i) \/ SignedIn(i)
  \/ \E u \in Users : SweepRead(u) \/ SweepApply(u)
  \/ \E r \in Roles : CacheExpires(r)
Served(i) == Handle(i) \/ Show(i)
Swept(u) == SweepRead(u) \/ SweepApply(u)
AdminFairness ==
  /\ WF_adminVars(\E i \in Requests : Served(i))
  /\ \A u \in Users : WF_adminVars(Swept(u))
  /\ \A r \in Roles : WF_adminVars(CacheExpires(r))
AdminSpec == AdminInit /\ [][AdminNext]_adminVars /\ AdminFairness

---------------------------------------------------------------------------
(* Once the requests that change roles, users or overrides are through, an    *)
(* access token that still works carries the permissions the tables give:     *)
(* routes trust the token and ask no table.  Excepted are tokens minted while  *)
(* a revocation was at work, whose row it deletes unseen so that no later one   *)
(* finds it, those of a role or user that is deleted after its sessions were,   *)
(* those under the name of a role before its permissions come (torn), and the   *)
(* wake of a handler cut short.                                                *)
Own(perms) == {p \in perms : p[1] = Absent}
TokensCurrent ==
  Quiet /\ "failed" \notin odd =>
    \A k \in usable : k.id \notin torn /\ role[k.user] # Absent => Own(k.perms) = Own(Now(k.user))

(* roles_permissions and the topics' role lists say the same: the roles' page  *)
(* shows the one, the gates read the other, and each route writes both.        *)
PermsFollowTopics ==
  Quiet /\ odd = {} =>
    \A t \in Topics, a \in Acts, r \in roles :
      topic[t] # Absent => (r \in topic[t][a] <=> <<r, <<topic[t].slug, a>>>> \in held)

(* In the end an open socket acts with its user's current role and rights,     *)
(* whatever changed and in whatever order the sweep read it.                   *)
Current(u) == sock[u] = Absent \/ (sock[u].role = role[u] /\ sock[u].perms = Now(u))
SocketsCatchUp == \A u \in Users : <>[]Current(u)
=============================================================================
