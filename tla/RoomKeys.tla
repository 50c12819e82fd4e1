------------------------------ MODULE RoomKeys ------------------------------
(***************************************************************************)
(* End-to-end encryption as one tab drives it: lib/crypto.ts around the    *)
(* OlmMachine, the send, edit, membership and poll paths of ChatPane.tsx,  *)
(* and the key routes of the server (app/api/crypto).                      *)
(*                                                                         *)
(* A call is one activity of the tab, or one request of somebody else.     *)
(* The tab's calls interleave wherever they await: the network, the        *)
(* OlmMachine, the metadata store.  The OlmMachine is external: it is      *)
(* modelled by what crypto.ts relies on.  Its outbound session rotates     *)
(* when it was invalidated or when a user it was shared with is absent     *)
(* from the list, and is otherwise shared with the devices that lack it.   *)
(***************************************************************************)
EXTENDS Naturals, Sequences, FiniteSets, FiniteSetsExt, Functions, TLC

CONSTANTS
  Users, Machines, UserOf,
  Me,         \* the device of the tab
  Admins,     \* users whose role is admin
  Calls,
  Rounds,     \* the pump's cap (32 in the code)
  Workloads,  \* [reqs, losses]: at most Cardinality(Calls) requests, and how many requests
              \* of the tab may fail
  None,
  Roster0,    \* topic_members at the start
  Bundles0    \* devices with a bundle at the start

Request == [op : {"publish", "join", "ban", "send", "edit", "dm", "event", "poll"},
            who : Users, dev : Machines, dk : BOOLEAN]

ASSUME RoomKeysAssumption ==
  /\ UserOf \in [Machines -> Users] /\ Me \in Bundles0 \ Users
  /\ Bundles0 \subseteq Machines /\ Roster0 \subseteq Users /\ Admins \subseteq Users
  /\ Calls = 1..Cardinality(Calls) /\ Rounds \in Nat \ {0}
  /\ \A load \in Workloads : load.reqs \in Seq(Request) /\ load.reqs # <<>> /\ load.losses \in Nat

VARIABLES
  \* the server
  bundles,  \* user_key_bundles: the devices that published their keys
  newest,   \* user -> the device whose bundle has the latest updated_at
  otks,     \* user_one_time_prekeys, unused: [row, of, n], of: whose key it is
  fallback, \* row -> the device whose fallback key it stores
  roster,   \* topic_members
  log,      \* users in the device change log past the tab's cursor
  events,   \* TOPIC_MEMBERS_UPDATED under way to the tab
  inbox,    \* device -> session -> the index it got the room key at
  msgs,     \* messages sent: [sid, idx, to], with gone, pub and fresh of the call that sent it
  \* the OlmMachine
  tracked, dirty, again, devicesOf, upload,
  olm,      \* device -> the device whose key the session was made with
  out,      \* the outbound session: [sid, idx, users, holders, invalid]
  \* crypto.ts and ChatPane.tsx
  flight,   \* pumpInFlight: the call that runs it, 0 for none
  requested, served,
  pump,     \* a call's pump
  pins,     \* known_devices:<user> in the metadata store
  alerts,   \* e2ee:new-device events: <<device, call>>
  recips, mismatch, sendBusy,
  calls, losses,
  \* history
  lapped,   \* calls with another share, or an invalidation, since their own check
  capped,   \* a pump stopped at its last round
  crossed   \* devices the tab made a session for with another device's key

keys == <<bundles, newest, otks, fallback>>
machine == <<tracked, dirty, again, devicesOf, upload, olm, out>>
mutex == <<flight, requested, served, pump>>
pinned == <<pins, alerts>>
gate == <<recips, mismatch>>
past == <<lapped, capped, crossed>>
server == <<keys, roster, log, events, inbox, msgs>>
keysVars == <<server, machine, mutex, pinned, gate, sendBusy, calls, losses, past>>

Of(us) == {d \in Machines : UserOf[d] \in us}
Myself == UserOf[Me]
KnownOf(us) == UNION {devicesOf[u] : u \in us}

\* f, and g where f says nothing.
Over(f, g) == [x \in DOMAIN f \cup DOMAIN g |-> IF x \in DOMAIN f THEN f[x] ELSE g[x]]

NoPump == [st |-> "off", gen |-> 0, todo |-> <<>>, resp |-> <<>>, round |-> 0]
KeysInit ==
  \E load \in Workloads : LET w == load.reqs IN
    /\ bundles = Bundles0 /\ fallback = [d \in Machines |-> d]
    /\ newest \in [Users -> Bundles0 \cup {None}]
    /\ \A u \in Users : newest[u] \in IF Of({u}) \cap Bundles0 = {} THEN {None} ELSE Of({u})
    /\ otks = {[row |-> d, of |-> d, n |-> 1] : d \in Bundles0}
    /\ roster = Roster0 \ {w[k].who : k \in {x \in DOMAIN w : w[x].op = "join"}} /\ log = {} /\ events = 0
    /\ inbox = [d \in Machines |-> <<>>] /\ msgs = {}
    /\ tracked = {} /\ dirty = {} /\ again = {} /\ devicesOf = [u \in Users |-> {}]
    /\ upload = FALSE /\ olm = <<>>
    /\ out = [sid |-> 0, idx |-> 0, users |-> {}, holders |-> {}, invalid |-> FALSE]
    /\ flight = 0 /\ requested = 0 /\ served = 0 /\ pump = [i \in Calls |-> NoPump]
    /\ pins = [u \in Users |-> None] /\ alerts = {}
    /\ recips = {} /\ mismatch = {} /\ sendBusy = FALSE /\ losses = load.losses
    /\ calls = [i \in Calls |->
         LET req == w[IF i <= Len(w) THEN i ELSE 1] IN
         [op |-> req.op, who |-> req.who, dev |-> req.dev, dk |-> req.dk,
          pc |-> IF i <= Len(w) THEN "todo" ELSE "done", next |-> "done", us |-> {},
          todo |-> {}, a |-> None, b |-> None, owed |-> {}, gen |-> 0, was |-> {},
          gone |-> {}, pub |-> {}, fresh |-> FALSE]]
    /\ lapped = {} /\ capped = FALSE /\ crossed = {}

At(i, pc) == calls[i].pc = pc
Begin(i, op) == calls[i].op = op /\ At(i, "todo")
Goto(i, pc) == calls' = [calls EXCEPT ![i].pc = pc]

\* What an exception does to the call that awaits.
Caught(i) ==
  IF calls[i].op = "event" \/ calls[i].op = "poll" \/ calls[i].next = "retry" THEN "failed"
  ELSE "catch"

(***************************************************************************)
(* The server                                                              *)
(***************************************************************************)
\* POST keys/upload of device d, with its device_keys (dk) or only keys.
\* The row: the named device, or else the freshest bundle of the user.
RowOf(d, dk) == IF dk THEN d ELSE newest[UserOf[d]]
\* logDeviceChange
Upload(d, dk) ==
  LET row == RowOf(d, dk) IN
  /\ bundles' = IF dk THEN bundles \cup {d} ELSE bundles
  /\ newest' = [newest EXCEPT ![UserOf[d]] = row]
  /\ otks' = IF \E k \in otks : k.row = row /\ k.of = d THEN otks
             ELSE otks \cup {[row |-> row, of |-> d, n |-> 2]}
  /\ fallback' = [fallback EXCEPT ![row] = d]

Publish(i) ==
  /\ Begin(i, "publish")
  /\ calls[i].dk \/ calls[i].dev \in bundles
  /\ Upload(calls[i].dev, calls[i].dk)
  /\ log' = IF calls[i].dk THEN log \cup {UserOf[calls[i].dev]} ELSE log
  /\ Goto(i, "done")
  /\ UNCHANGED <<roster, events, inbox, msgs, machine, mutex, pinned, gate, sendBusy, losses, past>>

\* ensureTopicMembership: the row, then the signal
Join(i) ==
  /\ Begin(i, "join") /\ calls[i].who \notin roster
  /\ roster' = roster \cup {calls[i].who}
  /\ calls' = [j \in Calls |-> [calls[j] EXCEPT !.pc = IF j = i THEN "signal" ELSE @,
                                               !.gone = @ \ {calls[i].who}]]
  /\ UNCHANGED <<keys, log, events, inbox, msgs, machine, mutex, pinned, gate, sendBusy, losses, past>>
\* revokeE2eeTopicMembership of banUser: the rows, the log, the signal
Ban(i) ==
  /\ Begin(i, "ban") /\ calls[i].who \in roster
  /\ roster' = roster \ {calls[i].who}
  /\ Goto(i, "log")
  /\ UNCHANGED <<keys, log, events, inbox, msgs, machine, mutex, pinned, gate, sendBusy, losses, past>>
BanLog(i) ==
  /\ calls[i].op = "ban" /\ At(i, "log")
  /\ log' = log \cup {calls[i].who}
  /\ Goto(i, "signal")
  /\ UNCHANGED <<keys, roster, events, inbox, msgs, machine, mutex, pinned, gate, sendBusy, losses,
                 past>>
\* publishTopicMembersUpdated
Signal(i) ==
  /\ At(i, "signal")
  /\ events' = events + 1
  /\ Goto(i, "done")
  /\ UNCHANGED <<keys, roster, log, inbox, msgs, machine, mutex, pinned, gate, sendBusy, losses,
                 past>>

\* listTopicCryptoMembers: the admins of an encrypted topic that have a bundle
AdminIds == {u \in Admins : Of({u}) \cap bundles # {}}
\* claimOneTimeKey, and the fallback key when the row has no key left: the
\* device whose key a claim for device d returns
Claimable(d) == {k \in otks : k.row = d}

(***************************************************************************)
(* pumpOutgoing                                                            *)
(***************************************************************************)
Running == {i \in Calls : pump[i].st # "off"}
StartPump(i) ==
  /\ flight' = i
  /\ pump' = [pump EXCEPT ![i] = [NoPump EXCEPT !.st = "loop"]]
PumpCall(i) ==
  /\ requested' = requested + 1
  /\ IF flight = 0 THEN StartPump(i) ELSE UNCHANGED <<flight, pump>>
  /\ UNCHANGED served

\* The pump of call i ends, well or with an exception; finally clears the slot.
EndPump(i, ok) ==
  /\ flight' = 0
  /\ pump' = [pump EXCEPT ![i] = NoPump]
  /\ calls' = [j \in Calls |->
       IF j = i THEN [calls[j] EXCEPT !.pc = IF ok THEN calls[j].next ELSE Caught(j)]
       ELSE IF At(j, "waiting") /\ i \in calls[j].was
       THEN [calls[j] EXCEPT !.pc = IF ok THEN "woken" ELSE Caught(j)]
       ELSE calls[j]]

\* One round: outgoingRequests, then every request is dispatched and marked as sent.
Outgoing == (IF upload THEN <<[op |-> "upload", us |-> {Me}]>> ELSE <<>>)
            \o IF dirty # {} THEN <<[op |-> "query", us |-> dirty]>> ELSE <<>>
PumpLoop(i) ==
  /\ pump[i].st = "loop"
  /\ IF pump[i].round = Rounds
     THEN capped' = TRUE /\ EndPump(i, TRUE)
     ELSE /\ pump' = [pump EXCEPT ![i] = [@ EXCEPT !.st = "read", !.gen = requested,
                                                   !.todo = Outgoing, !.round = @ + 1]]
          /\ UNCHANGED <<flight, calls, capped>>
  /\ UNCHANGED <<server, machine, requested, served, pinned, gate, sendBusy, losses, lapped,
                 crossed>>
\* (a mistaken round that takes callers of its own read for served)
PumpReadLate(i) ==
  /\ pump[i].st = "read"
  /\ \/ /\ pump[i].todo # <<>>
        /\ pump' = [pump EXCEPT ![i].st = "send"]
        /\ UNCHANGED <<flight, served, calls>>
     \/ /\ pump[i].todo = <<>>
        /\ served' = requested
        /\ EndPump(i, TRUE)
  /\ UNCHANGED <<server, machine, requested, pinned, gate, sendBusy, losses, past>>
PumpRead(i) ==
  /\ pump[i].st = "read"
  /\ \/ /\ pump[i].todo # <<>>
        /\ pump' = [pump EXCEPT ![i].st = "send"]
        /\ UNCHANGED <<flight, served, calls>>
     \/ /\ pump[i].todo = <<>>
        /\ served' = pump[i].gen
        /\ IF requested > pump[i].gen
           THEN pump' = [pump EXCEPT ![i].st = "loop"] /\ UNCHANGED <<flight, calls>>
           ELSE EndPump(i, TRUE)
  /\ UNCHANGED <<server, machine, requested, pinned, gate, sendBusy, losses, past>>
\* POST keys/upload or keys/query
PumpSend(i) ==
  LET r == Head(pump[i].todo) IN
  /\ pump[i].st = "send"
  /\ pump' = [pump EXCEPT ![i].st = "mark",
                          ![i].resp = [u \in r.us \cap Users |-> Of({u}) \cap bundles]]
  /\ IF r.op = "upload" THEN Upload(Me, FALSE) ELSE UNCHANGED keys
  /\ UNCHANGED <<roster, log, events, inbox, msgs, machine, flight, requested, served, pinned, gate,
                 sendBusy, calls, losses, past>>
PumpFail(i) ==
  /\ pump[i].st = "send" /\ losses > 0
  /\ losses' = losses - 1
  /\ EndPump(i, FALSE)
  /\ UNCHANGED <<server, machine, requested, served, pinned, gate, sendBusy, past>>
\* markRequestAsSent; a user marked dirty again meanwhile stays dirty
PumpMark(i) ==
  LET r == Head(pump[i].todo)
      rest == Tail(pump[i].todo) IN
  /\ pump[i].st = "mark"
  /\ devicesOf' = Over(pump[i].resp, devicesOf)
  /\ dirty' = dirty \ (r.us \ again) /\ again' = again \ r.us
  /\ upload' = (upload /\ r.op # "upload")
  /\ calls' = [j \in Calls |-> [calls[j] EXCEPT !.owed = @ \ r.us]]
  /\ pump' = [pump EXCEPT ![i].st = IF rest = <<>> THEN "loop" ELSE "send", ![i].todo = rest]
  /\ served' = IF rest = <<>> THEN pump[i].gen ELSE served
  /\ UNCHANGED <<server, tracked, olm, out, flight, requested, pinned, gate, sendBusy, losses, past>>
\* A caller that waited: served, or it starts a pump of its own.
Woken(i) ==
  /\ At(i, "woken")
  /\ IF served >= calls[i].gen
     THEN Goto(i, calls[i].next) /\ UNCHANGED mutex
     ELSE Goto(i, "pumping") /\ StartPump(i) /\ UNCHANGED <<requested, served>>
  /\ UNCHANGED <<server, machine, pinned, gate, sendBusy, losses, past>>

(***************************************************************************)
(* refreshRoomMembers, and what is done with its answer                    *)
(***************************************************************************)
Start(i, pc) ==
  calls' = [calls EXCEPT ![i].pc = pc, ![i].gone = Users \ roster,
              ![i].pub = {d \in bundles \ {Me} :
                            UserOf[d] \in tracked \cup dirty => d \in devicesOf[UserOf[d]]}]
\* send and the sendingRef mutex; submitEdit takes no mutex
SendStart(i) ==
  /\ Begin(i, "send") /\ ~sendBusy /\ sendBusy' = TRUE
  /\ Start(i, "fetch")
  /\ UNCHANGED <<server, machine, mutex, pinned, gate, losses, past>>
DmStart(i) ==
  /\ Begin(i, "dm") /\ ~sendBusy /\ sendBusy' = TRUE
  /\ Start(i, "peer")
  /\ UNCHANGED <<server, machine, mutex, pinned, gate, losses, past>>
EditStart(i) ==
  /\ Begin(i, "edit") /\ Start(i, "fetch")
  /\ UNCHANGED <<server, machine, mutex, pinned, gate, sendBusy, losses, past>>
\* onMembers
OnMembers(i) ==
  /\ Begin(i, "event") /\ events > 0
  /\ events' = events - 1
  /\ Start(i, "fetch")
  /\ UNCHANGED <<keys, roster, log, inbox, msgs, machine, mutex, pinned, gate, sendBusy, losses, past>>

\* GET crypto/rooms/<room>/members, and GET topics/<id>/members, in parallel
FetchCrypto(i) ==
  /\ At(i, "fetch") /\ calls[i].a = None /\ Myself \in roster
  /\ calls' = [calls EXCEPT ![i].a = [ids |-> roster \cup AdminIds, admins |-> AdminIds]]
  /\ UNCHANGED <<server, machine, mutex, pinned, gate, sendBusy, losses, past>>
FetchRoster(i) ==
  /\ At(i, "fetch") /\ calls[i].b = None
  /\ calls' = [calls EXCEPT ![i].b = [ids |-> roster]]
  /\ UNCHANGED <<server, machine, mutex, pinned, gate, sendBusy, losses, past>>

\* verifyRecipientSet
Recipients(a, b) == (a.ids \cap (b.ids \cup a.admins \cup {Myself})) \cup {Myself}
Rejected(a, b) == a.ids \ (b.ids \cup a.admins \cup {Myself})
\* The writer stops on a mismatch; the membership listener does not look.
Proceed(i, us, bad, fresh) ==
  /\ recips' = us /\ mismatch' = bad
  /\ calls' = [calls EXCEPT ![i].us = us, ![i].fresh = fresh,
                 ![i].pc = IF calls[i].op = "event" THEN "invalidate"
                           ELSE IF bad # {} THEN "failed" ELSE "track"]
\* (a mistaken refresh that adds to the verified set)
VerdictGrows(i) ==
  LET req == calls[i] IN
  /\ At(i, "fetch") /\ req.a # None /\ req.b # None
  /\ Proceed(i, recips \cup Recipients(req.a, req.b), Rejected(req.a, req.b), TRUE)
  /\ UNCHANGED <<server, machine, mutex, pinned, sendBusy, losses, past>>
Verdict(i) ==
  LET req == calls[i] IN
  /\ At(i, "fetch") /\ req.a # None /\ req.b # None
  /\ Proceed(i, Recipients(req.a, req.b), Rejected(req.a, req.b), TRUE)
  /\ UNCHANGED <<server, machine, mutex, pinned, sendBusy, losses, past>>
\* an answer that is not ok: the verified set stays what it was
FetchFail(i) ==
  /\ At(i, "fetch") /\ losses > 0
  /\ losses' = losses - 1
  /\ Proceed(i, recips, mismatch, FALSE)
  /\ UNCHANGED <<server, machine, mutex, pinned, sendBusy, past>>
\* onMembershipChange: invalidateGroupSession, then ensureRoomMembers
Invalidate(i) ==
  /\ At(i, "invalidate")
  /\ out' = [out EXCEPT !.invalid = TRUE]
  /\ Goto(i, "track")
  /\ UNCHANGED <<server, tracked, dirty, again, devicesOf, upload, olm, mutex, pinned, gate, sendBusy,
                 losses, past>>

(***************************************************************************)
(* ensureRoomMembers: track, pump, check, claim, share; ensureDmSession    *)
(* claims before it checks                                                 *)
(***************************************************************************)
Tracks(us) ==
  /\ tracked' = tracked \cup us /\ dirty' = dirty \cup (us \ tracked)
  /\ UNCHANGED <<again, devicesOf, upload, olm, out>>
Pumps(i, c, next) ==
  /\ calls' = [calls EXCEPT ![i] =
       [c EXCEPT !.pc = IF flight = 0 THEN "pumping" ELSE "waiting", !.next = next,
                 !.gen = requested + 1, !.was = {flight},
                 !.owed = dirty' \cup IF upload' THEN {Me} ELSE {}]]
  /\ PumpCall(i)
Track(i) ==
  /\ At(i, "track") /\ Tracks(calls[i].us)
  /\ Pumps(i, [calls[i] EXCEPT !.todo = calls[i].us],
           IF calls[i].op = "dm" THEN "claim" ELSE "check")
  /\ UNCHANGED <<server, pinned, gate, sendBusy, losses, past>>
\* ensurePeerTracked
TrackPeer(i) ==
  /\ At(i, "peer") /\ Tracks({calls[i].who})
  /\ Pumps(i, [calls[i] EXCEPT !.us = {calls[i].who, Myself}], "track")
  /\ UNCHANGED <<server, pinned, gate, sendBusy, losses, past>>

\* checkForNewDevices, one user at a time: read the pin, then write it and alert
AfterCheck(i) == IF calls[i].op = "dm" THEN "share" ELSE "claim"
CheckRead(i) ==
  /\ At(i, "check")
  /\ \/ /\ calls[i].todo = {} /\ calls[i].op # "poll" /\ Goto(i, AfterCheck(i))
     \/ /\ calls[i].todo # {}
        /\ LET u == CHOOSE x \in calls[i].todo : TRUE IN
          calls' = IF devicesOf[u] = {} /\ pins[u] # None
                   THEN [calls EXCEPT ![i].todo = @ \ {u}]
                   ELSE [calls EXCEPT ![i].pc = "pin",
                                      ![i].a = [u |-> u, now |-> devicesOf[u], prev |-> pins[u]]]
  /\ UNCHANGED <<server, machine, mutex, pinned, gate, sendBusy, losses, past>>
CheckPin(i) ==
  LET seen == calls[i].a IN
  /\ At(i, "pin")
  /\ pins' = [pins EXCEPT ![seen.u] = seen.now]
  /\ alerts' = IF seen.prev = None THEN alerts ELSE alerts \cup {<<d, i>> : d \in seen.now \ seen.prev}
  /\ calls' = [calls EXCEPT ![i].pc = "check", ![i].todo = @ \ {seen.u}]
  /\ UNCHANGED <<server, machine, mutex, gate, sendBusy, losses, past>>

\* getMissingSessions, POST keys/claim, markRequestAsSent
Missing(i) == KnownOf(calls[i].us) \ (DOMAIN olm \cup {Me})
AfterClaim(i) == IF calls[i].op = "dm" THEN "check" ELSE "share"
Claim(i) ==
  /\ At(i, "claim")
  /\ \/ /\ Missing(i) = {} /\ Goto(i, AfterClaim(i)) /\ UNCHANGED otks
     \/ /\ Missing(i) # {}
        /\ \E pick \in [Missing(i) -> otks \cup {<<>>}] :
             /\ \A d \in Missing(i) : pick[d] \in Claimable(d)
                                      \/ (pick[d] = <<>> /\ Claimable(d) = {})
             /\ otks' = otks \ {pick[d] : d \in Missing(i)}
             /\ calls' = [calls EXCEPT ![i].pc = "claimed",
                  ![i].b = [d \in Missing(i) |-> IF pick[d] = <<>> THEN fallback[d] ELSE pick[d].of]]
  /\ UNCHANGED <<bundles, newest, fallback, roster, log, events, inbox, msgs, machine, mutex, pinned,
                 gate, sendBusy, losses, past>>
Claimed(i) ==
  /\ At(i, "claimed")
  /\ olm' = Over(calls[i].b, olm)
  /\ crossed' = crossed \cup {d \in DOMAIN calls[i].b : calls[i].b[d] # d}
  /\ Goto(i, AfterClaim(i))
  /\ UNCHANGED <<server, tracked, dirty, again, devicesOf, upload, out, mutex, pinned, gate, sendBusy,
                 losses, lapped, capped>>

\* shareRoomKey
Share(i) ==
  LET us == calls[i].us
      rotate == out.sid = 0 \/ out.invalid \/ ~(out.users \subseteq us)
      now == IF rotate THEN [sid |-> out.sid + 1, idx |-> 0, users |-> us, holders |-> {},
                             invalid |-> FALSE]
             ELSE [out EXCEPT !.users = us] IN
  /\ At(i, "share")
  /\ out' = now
  /\ calls' = [calls EXCEPT ![i].pc = "put", ![i].b = [sid |-> now.sid, idx |-> now.idx],
                 ![i].was = (KnownOf(us) \cap DOMAIN olm) \ (now.holders \cup {Me})]
  /\ lapped' = (lapped \cup Calls) \ {i}
  /\ UNCHANGED <<server, tracked, dirty, again, devicesOf, upload, olm, mutex, pinned, gate, sendBusy,
                 losses, capped, crossed>>
\* the PUTs of sendToDevice, each marked as sent, and the pump at the end; a
\* device reads what its own key was used for
PutRoomKey(i) ==
  LET s == calls[i].b IN
  /\ At(i, "put")
  /\ inbox' = [d \in Machines |->
       IF d \in calls[i].was /\ olm[d] = d /\ s.sid \notin DOMAIN inbox[d]
       THEN Over([x \in {s.sid} |-> s.idx], inbox[d]) ELSE inbox[d]]
  /\ out' = IF out.sid = s.sid THEN [out EXCEPT !.holders = @ \cup calls[i].was] ELSE out
  /\ UNCHANGED <<tracked, dirty, again, devicesOf, upload, olm>>
  /\ Pumps(i, calls[i], IF calls[i].op = "event" THEN "done" ELSE "encrypt")
  /\ UNCHANGED <<keys, roster, log, events, msgs, pinned, gate, sendBusy, losses, past>>
\* a claim or a PUT fails
EnsureFail(i) ==
  /\ (At(i, "claim") /\ Missing(i) # {}) \/ (At(i, "put") /\ calls[i].was # {})
  /\ losses > 0 /\ losses' = losses - 1
  /\ Goto(i, Caught(i))
  /\ UNCHANGED <<server, machine, mutex, pinned, gate, sendBusy, past>>

\* encryptRoom, source.send; the first failure is answered by a pump and one retry
Encrypt(i) ==
  /\ At(i, "encrypt") \/ At(i, "retry")
  /\ IF out.sid = 0
     THEN Goto(i, IF At(i, "encrypt") THEN "catch" ELSE "failed")
          /\ UNCHANGED <<msgs, out, sendBusy>>
     ELSE /\ msgs' = msgs \cup {[sid |-> out.sid, idx |-> out.idx, to |-> calls[i].us,
                                 gone |-> calls[i].gone, pub |-> calls[i].pub,
                                 fresh |-> calls[i].fresh /\ At(i, "encrypt") /\ i \notin lapped]}
          /\ out' = [out EXCEPT !.idx = @ + 1]
          /\ sendBusy' = (sendBusy /\ calls[i].op = "edit")
          /\ Goto(i, "done")
  /\ UNCHANGED <<keys, roster, log, events, inbox, tracked, dirty, again, devicesOf, upload, olm, mutex,
                 pinned, gate, losses, past>>
Catch(i) ==
  /\ At(i, "catch")
  /\ UNCHANGED machine
  /\ Pumps(i, calls[i], "retry")
  /\ UNCHANGED <<server, pinned, gate, sendBusy, losses, past>>
Failed(i) ==
  /\ At(i, "failed")
  /\ calls' = [calls EXCEPT ![i].pc = "done", ![i].owed = {}]
  /\ sendBusy' = (sendBusy /\ calls[i].op \notin {"send", "dm"})
  /\ UNCHANGED <<server, machine, mutex, pinned, gate, losses, past>>

(***************************************************************************)
(* pollSync                                                                *)
(***************************************************************************)
\* GET sync: the users in the change log, and whether one-time keys run low
KeyPoll(i) ==
  /\ Begin(i, "poll")
  /\ calls' = [calls EXCEPT ![i].pc = "synced", ![i].todo = log,
                            ![i].b = [low |-> Cardinality(Claimable(Me)) < 2]]
  /\ log' = {}
  /\ UNCHANGED <<keys, roster, events, inbox, msgs, machine, mutex, pinned, gate, sendBusy, losses, past>>
\* receiveSyncChanges
ReceiveChanges(i) ==
  LET us == calls[i].todo \cap tracked IN
  /\ At(i, "synced")
  /\ dirty' = dirty \cup us
  /\ again' = IF \E j \in Running : pump[j].todo # <<>> THEN again \cup us ELSE again
  /\ upload' = (upload \/ calls[i].b.low)
  /\ Goto(i, "check")
  /\ UNCHANGED <<server, tracked, devicesOf, olm, out, mutex, pinned, gate, sendBusy, losses, past>>
PollPump(i) ==
  /\ At(i, "check") /\ calls[i].op = "poll" /\ calls[i].todo = {}
  /\ UNCHANGED machine
  /\ Pumps(i, calls[i], "done")
  /\ UNCHANGED <<server, pinned, gate, sendBusy, losses, past>>

KeysNext ==
  \E i \in Calls :
    \/ Publish(i) \/ Join(i) \/ Ban(i) \/ BanLog(i) \/ Signal(i)
    \/ PumpLoop(i) \/ PumpRead(i) \/ PumpSend(i) \/ PumpFail(i) \/ PumpMark(i) \/ Woken(i)
    \/ SendStart(i) \/ DmStart(i) \/ EditStart(i) \/ OnMembers(i)
    \/ FetchCrypto(i) \/ FetchRoster(i) \/ FetchFail(i) \/ Verdict(i) \/ Invalidate(i)
    \/ Track(i) \/ TrackPeer(i) \/ CheckRead(i) \/ CheckPin(i)
    \/ Claim(i) \/ Claimed(i) \/ Share(i) \/ PutRoomKey(i) \/ EnsureFail(i)
    \/ Encrypt(i) \/ Catch(i) \/ Failed(i)
    \/ KeyPoll(i) \/ ReceiveChanges(i) \/ PollPump(i)

KeysSpec == KeysInit /\ [][KeysNext]_keysVars

(***************************************************************************)
(* Properties                                                              *)
(***************************************************************************)
Reads(d, m) == m.sid \in DOMAIN inbox[d] /\ inbox[d][m.sid] <= m.idx
\* The contract of pumpOutgoing: what the machine had queued when it was
\* called has been dispatched when it returns, unless a pump hit its cap.
PumpDrains ==
  \A i \in Calls : calls[i].owed # {} =>
    At(i, "pumping") \/ At(i, "waiting") \/ At(i, "woken") \/ At(i, "catch") \/ At(i, "failed")
    \/ capped
\* onMembershipChange and the refresh before every send: a user who was out of
\* the topic before the writer's fetches, and is no disclosed admin, cannot read
\* the message, unless another activity of the tab shared meanwhile.
LeaverLocked ==
  \A m \in msgs : m.fresh => \A d \in Of(m.gone \ Admins) : d = Me \/ ~Reads(d, m)
\* cr-h4's order track, query, claim, share: the devices a recipient had published
\* when the tab first met him, or that the tab knew, read the message, unless the
\* tab was ever given another device's key for them.
MembersRead ==
  \A m \in msgs : m.fresh => \A d \in (m.pub \cap Of(m.to)) \ crossed : Reads(d, m)
\* Both sides of the roster: who is out cannot read, who is in can.
ReadersRight == LeaverLocked /\ MembersRead
=============================================================================
