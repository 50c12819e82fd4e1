------------------------------- MODULE Bots -------------------------------
(* A bot: its row and keys on the server, the feed of updates it polls, the  *)
(* to-device queue its sync loop drains, and the SDK process with the Olm    *)
(* machine, whose state survives a restart only in a snapshot file.  One bot *)
(* and its conversations with Peers; an Olm machine is what bot-sdk uses of  *)
(* it.  The process, the web server's handlers and an administrator run      *)
(* concurrently; a handler's statements are separate steps.                  *)
EXTENDS Naturals, Sequences, FiniteSets
CONSTANTS Peers, Devs,
          Pool,       \* one-time keys a machine keeps published
          MaxKeys,    \* one-time keys a machine may make: a bound
          MaxStarts,  \* starts of the process: a bound
          Batch,      \* updates an answer of getUpdates may hold
          Loads,      \* what a behaviour may be asked
          Nothing
\* An Olm machine of the bot, and a file that holds a copy of one.
OlmMachine == [dev : Devs, shared : BOOLEAN, next : Nat, own : SUBSET (Nat \X Nat),
               unpub : SUBSET (Nat \X Nat), rooms : SUBSET Peers]
SnapshotFile == [data : OlmMachine \cup {Nothing}, by : SUBSET {"sync", "reply"}, mix : BOOLEAN]
ASSUME BotsAssumption ==
  /\ Pool \in Nat \ {0} /\ MaxKeys \in Nat /\ MaxStarts \in Nat /\ Batch \in Nat \ {0}
  /\ Nothing \notin Devs \cup OlmMachine \cup SnapshotFile
  /\ \A l \in Loads : l.st \in {"disabled", "pending"}

VARIABLES load,    \* [st, todo, enc, replies, faults, ops]: the workload
          row,     \* bots: [st, dev, active]
          devices, \* bot_devices: the device ids
          otks,    \* bot_one_time_keys: [dev, key, claimed]
          box,     \* bot_to_device_queue: [dev, key, room]
          queue,   \* legends:bot:updates:<bot>
          patch,   \* an administrator's PATCH under way: [op, seen] or Nothing
          tab,     \* what a peer's Olm machine knows of the bot: [known, gave]
          boot,    \* the process: off, or how far start() is
          mach,    \* its Olm machine, or Nothing
          hand,    \* updates it got and has not handled
          poll,    \* requests to getUpdates
          sync,    \* the sync loop
          reply,   \* the reply being sent
          up,      \* requests to keys/upload
          save,    \* persist() of the sync loop and of a reply
          disk, tmp, \* the snapshot file and its .tmp, or Nothing: [data, by, mix]
          pushed, heard, gone, \* updates queued, handled, lost with an answer or a process
          starts, odd  \* what a guarantee does not cover
server == <<row, devices, otks, box, queue, patch, tab>>
process == <<boot, mach, hand, poll, sync, reply, up, save>>
files == <<disk, tmp>>
hist == <<pushed, heard, gone, starts, odd>>
botVars == <<load, server, process, files, hist>>

Loops == {"sync", "reply"}
NoUpload == [pc |-> "idle", dk |-> FALSE, dev |-> Nothing, keys |-> {}, seen |-> Nothing, n |-> 0, mine |-> TRUE]
NoSave == [pc |-> "idle", data |-> Nothing]
NoPoll == [pc |-> "idle", got |-> <<>>, n |-> 0, mine |-> TRUE]
NoSync == [pc |-> "poll", rows |-> {}, n |-> 0, late |-> FALSE]
Whole(m) == [data |-> m, by |-> {}, mix |-> FALSE]
NoReply == [pc |-> "idle", of |-> 0]
Flag(f) == odd' = odd \cup f

BotsInit ==
  /\ load \in Loads
  /\ row = [st |-> load.st, dev |-> Nothing, active |-> TRUE]
  /\ devices = {} /\ otks = {} /\ box = <<>> /\ queue = <<>> /\ patch = Nothing
  /\ tab = [p \in Peers |-> [known |-> Nothing, gave |-> {}]]
  /\ boot = "off" /\ mach = Nothing /\ hand = <<>>
  /\ poll = [s \in 1..2 |-> NoPoll]
  /\ sync = NoSync /\ reply = NoReply
  /\ up = [w \in Loops |-> NoUpload]
  /\ save = [w \in Loops |-> NoSave]
  /\ disk = Nothing /\ tmp = Nothing
  /\ pushed = <<>> /\ heard = <<>> /\ gone = {} /\ starts = 0 /\ odd = {}

---------------------------------------------------------------------------
(* The Olm machine.  A one-time key is <<start, number>>: a machine restored *)
(* from a snapshot counts on from there with other keys.                     *)
Fresh(d) == [dev |-> d, shared |-> FALSE, next |-> 1, own |-> {}, unpub |-> {}, rooms |-> {}]
(* It makes new keys when the server's count is low and none is unpublished. *)
Generate(m, n) ==
  LET new == {<<starts, k>> : k \in m.next..(m.next + (Pool - n) - 1)}
  IN IF n >= Pool \/ m.unpub # {} \/ m.next + (Pool - n) - 1 > MaxKeys THEN m
     ELSE [m EXCEPT !.next = @ + (Pool - n), !.own = @ \cup new, !.unpub = new]
(* A room key is readable for the device that holds the one-time key's       *)
(* other half.                                                               *)
Receive(m, rows) ==
  [m EXCEPT !.rooms = @ \cup {r.room : r \in {x \in rows : x.dev = m.dev /\ x.key \in m.own}}]
Sent(m) == [m EXCEPT !.shared = TRUE, !.unpub = {}]
HasUpload(m) == ~m.shared \/ m.unpub # {}
Body(m) == [NoUpload EXCEPT !.pc = "auth", !.dk = ~m.shared, !.dev = m.dev, !.keys = m.unpub]

Running == boot = "run"
Auth == row.active

---------------------------------------------------------------------------
(* POST /api/bot/v1/crypto/keys/upload.                                      *)
Uploads(w, u) == up' = [up EXCEPT ![w] = u]
UpAuth(w) ==
  /\ up[w].pc = "auth"
  /\ Uploads(w, IF ~Auth \/ (~up[w].dk /\ row.dev = Nothing) THEN [up[w] EXCEPT !.pc = "failed"]
                ELSE [up[w] EXCEPT !.pc = IF @ = "auth" /\ up[w].dk THEN "device" ELSE "keys",
                                   !.seen = row.st, !.dev = IF up[w].dk THEN @ ELSE row.dev])
  /\ UNCHANGED <<load, server, boot, mach, hand, poll, sync, reply, save, files, hist>>
UpDevice(w) ==
  /\ up[w].pc = "device"
  /\ devices' = devices \cup {up[w].dev}
  /\ Uploads(w, [up[w] EXCEPT !.pc = "state"])
  /\ UNCHANGED <<load, row, otks, box, queue, patch, tab, boot, mach, hand, poll, sync, reply, save, files, hist>>
UpStateAny(w) ==
  /\ up[w].pc = "state"
  /\ row' = IF up[w].seen # "ready" THEN [row EXCEPT !.st = "ready", !.dev = up[w].dev] ELSE row
  /\ Uploads(w, [up[w] EXCEPT !.pc = "keys"])
  /\ UNCHANGED <<load, devices, otks, box, queue, patch, tab, boot, mach, hand, poll, sync, reply, save, files, hist>>

UpState(w) ==
  /\ up[w].pc = "state"
  /\ row' = IF up[w].seen = "pending" THEN [row EXCEPT !.st = "ready", !.dev = up[w].dev] ELSE row
  /\ Uploads(w, [up[w] EXCEPT !.pc = "keys"])
  /\ UNCHANGED <<load, devices, otks, box, queue, patch, tab, boot, mach, hand, poll, sync, reply, save, files, hist>>
(* A key whose number the device already has on file is left out.            *)
UpKeys(w) ==
  /\ up[w].pc = "keys"
  /\ LET new == {k \in up[w].keys : \A o \in otks : o.dev # up[w].dev \/ o.key[2] # k[2]}
     IN otks' = otks \cup {[dev |-> up[w].dev, key |-> k, claimed |-> FALSE] : k \in new}
  /\ Uploads(w, [up[w] EXCEPT !.pc = "done"])
  /\ UNCHANGED <<load, row, devices, box, queue, patch, tab, boot, mach, hand, poll, sync, reply, save, files, hist>>
(* The answer to a process that is gone.                                     *)
UpDrop(w) ==
  /\ up[w].pc \in {"done", "failed"} /\ ~up[w].mine
  /\ Uploads(w, NoUpload)
  /\ UNCHANGED <<load, server, boot, mach, hand, poll, sync, reply, save, files, hist>>

---------------------------------------------------------------------------
(* start(): getMe, the Olm machine from the snapshot or a new one, the first *)
(* upload.                                                                   *)
StartBot ==
  /\ boot = "off" /\ starts < MaxStarts
  /\ boot' = "getMe"
  /\ starts' = starts + 1
  /\ UNCHANGED <<load, server, mach, hand, poll, sync, reply, up, save, files, pushed, heard, gone, odd>>
GetMe ==
  /\ boot = "getMe"
  /\ \/ boot' = IF ~Auth \/ row.st = "disabled" THEN "run" ELSE "open"
     \/ "lost" \in load.faults /\ boot' = "run"
  /\ UNCHANGED <<load, server, mach, hand, poll, sync, reply, up, save, files, hist>>
Reload ==
  /\ boot = "open" /\ disk # Nothing /\ disk.data # Nothing
  /\ mach' = disk.data
  /\ boot' = "run"
  /\ UNCHANGED <<load, server, hand, poll, sync, reply, up, save, files, hist>>
Unreadable ==
  /\ boot = "open" /\ disk # Nothing /\ disk.data = Nothing
  /\ boot' = "off"
  /\ UNCHANGED <<load, server, mach, hand, poll, sync, reply, up, save, files, hist>>
Create ==
  /\ boot = "open" /\ disk = Nothing /\ up["sync"] = NoUpload
  /\ \E d \in Devs \ (devices \cup {o.dev : o \in otks}) :
       /\ disk' = Whole(Fresh(d))
       /\ mach' = Generate(Fresh(d), 0)
  /\ Uploads("sync", Body(mach'))
  /\ boot' = "pair"
  /\ UNCHANGED <<load, server, hand, poll, sync, reply, save, tmp, hist>>
Paired ==
  /\ boot = "pair"
  /\ \/ /\ up["sync"].pc = "done"
        /\ mach' = Sent(mach) /\ disk' = Whole(Sent(mach))
        /\ boot' = "run"
        /\ Flag({})
     \/ /\ up["sync"].pc = "failed"
        /\ mach' = Nothing /\ boot' = "off"
        /\ Flag({"unsaved"})
        /\ UNCHANGED disk
  /\ Uploads("sync", NoUpload)
  /\ UNCHANGED <<load, server, hand, poll, sync, reply, save, tmp, pushed, heard, gone, starts>>
(* The process ends, or is killed; the server goes on with its requests.     *)
Written(f) == IF f = Nothing THEN Nothing ELSE [f EXCEPT !.by = {}]
Crash ==
  /\ "crash" \in load.faults /\ boot # "off" /\ starts < MaxStarts
  /\ boot' = "off" /\ mach' = Nothing /\ hand' = <<>> /\ reply' = NoReply
  /\ sync' = [NoSync EXCEPT !.late = sync.late \/ sync.pc = "wait"]
  /\ poll' = [s \in 1..2 |-> [poll[s] EXCEPT !.mine = poll[s].pc = "idle"]]
  /\ up' = [w \in Loops |-> IF up[w].pc = "idle" THEN up[w] ELSE [up[w] EXCEPT !.mine = FALSE]]
  /\ save' = [w \in Loops |-> NoSave]
  /\ disk' = Written(disk) /\ tmp' = Written(tmp)
  /\ gone' = gone \cup {hand[i].n : i \in DOMAIN hand}
  /\ Flag(IF mach # Nothing /\ (disk.data # mach \/ sync.pc = "got") THEN {"unsaved"} ELSE {})
  /\ UNCHANGED <<load, server, pushed, heard, starts>>

---------------------------------------------------------------------------
(* persist(): a copy of the machine's stores, written to the .tmp, renamed.  *)
(* Two writers of one file leave either one's copy or a mixture.             *)
Saves(w, s) == save' = [save EXCEPT ![w] = s]
Snap(w) ==
  /\ save[w].pc = "snap"
  /\ Saves(w, [pc |-> "open", data |-> mach])
  /\ UNCHANGED <<load, server, boot, mach, hand, poll, sync, reply, up, files, hist>>
Open(w) ==
  /\ save[w].pc = "open"
  /\ tmp' = IF tmp = Nothing THEN [data |-> Nothing, by |-> {w}, mix |-> FALSE]
            ELSE [data |-> Nothing, by |-> tmp.by \cup {w}, mix |-> tmp.by # {}]
  /\ Saves(w, [save[w] EXCEPT !.pc = "write"])
  /\ Flag(IF \E v \in Loops \ {w} : save[v].pc # "idle" THEN {"lapped"} ELSE {})
  /\ UNCHANGED <<load, server, boot, mach, hand, poll, sync, reply, up, disk, pushed, heard, gone, starts>>
Closed(f, w) == {[f EXCEPT !.data = d, !.by = @ \ {w}] : d \in {save[w].data} \cup (IF f.mix THEN {Nothing} ELSE {})}
Write(w) ==
  /\ save[w].pc = "write"
  /\ \/ tmp # Nothing /\ w \in tmp.by /\ tmp' \in Closed(tmp, w) /\ UNCHANGED disk
     \/ disk # Nothing /\ w \in disk.by /\ disk' \in Closed(disk, w) /\ UNCHANGED tmp
  /\ Saves(w, [save[w] EXCEPT !.pc = "rename"])
  /\ UNCHANGED <<load, server, boot, mach, hand, poll, sync, reply, up, hist>>
(* The end of an iteration of the loop, or of a reply.                       *)
Rename(w) ==
  /\ save[w].pc = "rename"
  /\ disk' = IF tmp = Nothing THEN disk ELSE tmp
  /\ tmp' = Nothing
  /\ Saves(w, NoSave)
  /\ IF w = "sync"
       THEN sync' = [NoSync EXCEPT !.late = sync.late] /\ UNCHANGED reply
       ELSE reply' = NoReply /\ UNCHANGED sync
  /\ UNCHANGED <<load, server, boot, mach, hand, poll, up, hist>>

---------------------------------------------------------------------------
(* _cryptoSyncLoop.  A failed iteration starts over, without persist().      *)
SyncAsk ==
  /\ Running /\ mach # Nothing /\ sync.pc = "poll" /\ save["sync"] = NoSave
  /\ sync' = [sync EXCEPT !.pc = "wait"]
  /\ UNCHANGED <<load, server, boot, mach, hand, poll, reply, up, save, files, hist>>
(* GET /api/bot/v1/crypto/sync: DELETE ... RETURNING, and the count of the   *)
(* keys no one claimed, of whichever device.                                 *)
Unclaimed == {o \in otks : ~o.claimed}
Rows == {box[i] : i \in DOMAIN box}
SyncDrain ==
  /\ sync.pc = "wait" /\ Auth
  /\ sync' = [sync EXCEPT !.pc = "got", !.rows = Rows, !.n = Cardinality(Unclaimed)]
  /\ box' = <<>>
  /\ UNCHANGED <<load, row, devices, otks, queue, patch, tab, boot, mach, hand, poll, reply, up, save, files, hist>>
SyncFail ==
  /\ \/ sync.pc = "wait" /\ ~Auth /\ UNCHANGED odd
     \/ sync.pc = "got" /\ "lost" \in load.faults /\ Flag(IF sync.rows = {} THEN {} ELSE {"lostRows"})
  /\ sync' = [NoSync EXCEPT !.late = sync.late]
  /\ UNCHANGED <<load, server, boot, mach, hand, poll, reply, up, save, files, pushed, heard, gone, starts>>
(* The handler of a request whose process is gone drains all the same.       *)
Orphan ==
  /\ sync.late
  /\ box' = <<>>
  /\ sync' = [sync EXCEPT !.late = FALSE]
  /\ Flag(IF box = <<>> THEN {} ELSE {"lostRows"})
  /\ UNCHANGED <<load, row, devices, otks, queue, patch, tab, boot, mach, hand, poll, reply, up, save, files, pushed, heard, gone, starts>>
SyncReceive ==
  /\ sync.pc = "got"
  /\ mach' = Generate(Receive(mach, sync.rows), sync.n)
  /\ sync' = [sync EXCEPT !.pc = IF HasUpload(mach') THEN "up" ELSE "save", !.rows = {}, !.n = 0]
  /\ Uploads("sync", IF HasUpload(mach') THEN Body(mach') ELSE up["sync"])
  /\ up["sync"] = NoUpload
  /\ IF HasUpload(mach') THEN UNCHANGED save ELSE Saves("sync", [NoSave EXCEPT !.pc = "snap"])
  /\ UNCHANGED <<load, server, boot, hand, poll, reply, files, hist>>
SyncUploadedUnsaved ==
  /\ sync.pc = "up" /\ up["sync"].mine
  /\ IF up["sync"].pc = "done" THEN mach' = Sent(mach) /\ Flag({})
     ELSE up["sync"].pc = "failed" /\ Flag({"refused"}) /\ UNCHANGED mach
  /\ sync' = [NoSync EXCEPT !.late = sync.late]
  /\ Uploads("sync", NoUpload)
  /\ UNCHANGED <<load, server, boot, hand, poll, reply, save, files, pushed, heard, gone, starts>>

SyncUploaded ==
  /\ sync.pc = "up" /\ up["sync"].mine
  /\ \/ /\ up["sync"].pc = "done"
        /\ mach' = Sent(mach)
        /\ sync' = [sync EXCEPT !.pc = "save"]
        /\ Saves("sync", [NoSave EXCEPT !.pc = "snap"])
        /\ Flag({})
     \/ /\ up["sync"].pc = "failed"
        /\ sync' = [NoSync EXCEPT !.late = sync.late]
        /\ Flag({"refused"})
        /\ UNCHANGED <<mach, save>>
  /\ Uploads("sync", NoUpload)
  /\ UNCHANGED <<load, server, boot, hand, poll, reply, files, pushed, heard, gone, starts>>

---------------------------------------------------------------------------
(* GET /api/bot/v1/getUpdates: LRANGE and LTRIM, or BLPOP first.             *)
Polls(s, p) == poll' = [poll EXCEPT ![s] = p]
Ask(s) ==
  /\ Running /\ hand = <<>> /\ reply = NoReply
  /\ poll[s] = NoPoll /\ \A o \in 1..2 : poll[o].pc = "idle" \/ ~poll[o].mine
  /\ Polls(s, [NoPoll EXCEPT !.pc = "read"])
  /\ Flag(IF \E o \in 1..2 : poll[o].pc # "idle" THEN {"twice"} ELSE {})
  /\ UNCHANGED <<load, server, boot, mach, hand, sync, reply, up, save, files, pushed, heard, gone, starts>>
Front(n) == SubSeq(queue, 1, IF n < Len(queue) THEN n ELSE Len(queue))
Read(s) ==
  /\ poll[s].pc = "read"
  /\ Polls(s, IF ~Auth THEN [poll[s] EXCEPT !.pc = "answer"]
              ELSE [poll[s] EXCEPT !.pc = IF queue = <<>> THEN "block" ELSE "trim",
                                   !.got = Front(Batch), !.n = Len(Front(Batch))])
  /\ UNCHANGED <<load, server, boot, mach, hand, sync, reply, up, save, files, hist>>
Pop(s) ==
  /\ poll[s].pc = "block"
  /\ IF queue = <<>> THEN Polls(s, [poll[s] EXCEPT !.pc = "answer"]) /\ UNCHANGED queue
     ELSE /\ Polls(s, [poll[s] EXCEPT !.pc = "extra", !.got = Front(1)])
          /\ queue' = Tail(queue)
  /\ UNCHANGED <<load, row, devices, otks, box, patch, tab, boot, mach, hand, sync, reply, up, save, files, hist>>
Extra(s) ==
  /\ poll[s].pc = "extra"
  /\ Polls(s, [poll[s] EXCEPT !.pc = "trim", !.got = @ \o Front(Batch - 1), !.n = Len(Front(Batch - 1))])
  /\ UNCHANGED <<load, server, boot, mach, hand, sync, reply, up, save, files, hist>>
TrimAll(s) ==
  /\ poll[s].pc = "trim"
  /\ queue' = <<>>
  /\ Polls(s, [poll[s] EXCEPT !.pc = "answer", !.n = 0])
  /\ UNCHANGED <<load, row, devices, otks, box, patch, tab, boot, mach, hand, sync, reply, up, save, files, hist>>

Trim(s) ==
  /\ poll[s].pc = "trim"
  /\ queue' = SubSeq(queue, poll[s].n + 1, Len(queue))
  /\ Polls(s, [poll[s] EXCEPT !.pc = "answer", !.n = 0])
  /\ UNCHANGED <<load, row, devices, otks, box, patch, tab, boot, mach, hand, sync, reply, up, save, files, hist>>
Answer(s) ==
  /\ poll[s].pc = "answer"
  /\ \/ poll[s].mine /\ hand' = poll[s].got /\ UNCHANGED gone
     \/ /\ ~poll[s].mine \/ "lost" \in load.faults
        /\ gone' = gone \cup {poll[s].got[i].n : i \in DOMAIN poll[s].got}
        /\ UNCHANGED hand
  /\ Polls(s, NoPoll)
  /\ UNCHANGED <<load, server, boot, mach, sync, reply, up, save, files, pushed, heard, starts, odd>>

---------------------------------------------------------------------------
(* handleUpdate: the handler gets the text, the envelope as it is without a  *)
(* machine, or nothing when decrypting throws.                               *)
Outcome(u) == IF u.room = Nothing THEN "text" ELSE IF mach = Nothing THEN "blank"
              ELSE IF u.room \in mach.rooms THEN "text" ELSE "error"
Handle ==
  /\ Running /\ hand # <<>> /\ reply = NoReply /\ save["reply"] = NoSave
  /\ LET u == Head(hand)
     IN /\ heard' = Append(heard, [n |-> u.n, out |-> Outcome(u)])
        /\ reply' = IF load.replies /\ u.room # Nothing /\ Outcome(u) = "text"
                      THEN [pc |-> "drain", of |-> u.n] ELSE NoReply
  /\ hand' = Tail(hand)
  /\ UNCHANGED <<load, server, boot, mach, poll, sync, up, save, files, pushed, gone, starts, odd>>
(* _sendEncrypted: members, then what the machine wants to send, then the    *)
(* room key and the message.  Any step may throw: the reply is not sent.     *)
NoSend == reply' = NoReply /\ UNCHANGED <<up, save, mach>>
ReplyDrain ==
  /\ reply.pc = "drain" /\ up["reply"] = NoUpload
  /\ \/ Auth /\ HasUpload(mach) /\ reply' = [reply EXCEPT !.pc = "up"] /\ Uploads("reply", Body(mach))
           /\ UNCHANGED <<mach, save>>
     \/ Auth /\ ~HasUpload(mach) /\ reply' = [reply EXCEPT !.pc = "post"] /\ UNCHANGED <<up, mach, save>>
     \/ ~Auth /\ NoSend
  /\ UNCHANGED <<load, server, boot, hand, poll, sync, files, hist>>
ReplyUploaded ==
  /\ reply.pc = "up" /\ up["reply"].mine
  /\ \/ /\ up["reply"].pc = "done"
        /\ mach' = Sent(mach) /\ reply' = [reply EXCEPT !.pc = "post"]
        /\ Flag({})
     \/ up["reply"].pc = "failed" /\ reply' = NoReply /\ Flag({"refused"}) /\ UNCHANGED mach
  /\ Uploads("reply", NoUpload)
  /\ UNCHANGED <<load, server, boot, hand, poll, sync, save, files, pushed, heard, gone, starts>>
(* sendDmMessage refuses ciphertext of a bot that is not ready.              *)
ReplyPost ==
  /\ reply.pc = "post"
  /\ IF Auth /\ row.st = "ready"
       THEN reply' = [reply EXCEPT !.pc = "save"] /\ Saves("reply", [NoSave EXCEPT !.pc = "snap"]) /\ UNCHANGED odd
       ELSE reply' = NoReply /\ Flag({"refused"}) /\ UNCHANGED save
  /\ UNCHANGED <<load, server, boot, mach, hand, poll, sync, up, files, pushed, heard, gone, starts>>

---------------------------------------------------------------------------
(* The peers: keys/query once, then keys/claim and sendToDevice for a device *)
(* that has not got the room key, then the message.                          *)
Turn(p) == load.todo[p] > 0 /\ Len(SelectSeq(pushed, LAMBDA u : u.by = p)) < load.todo[p]
Track(p) ==
  /\ Turn(p) /\ load.enc /\ tab[p].known = Nothing /\ row.st = "ready"
  /\ tab' = [tab EXCEPT ![p].known = devices]
  /\ UNCHANGED <<load, row, devices, otks, box, queue, patch, process, files, hist>>
Needs(p) == tab[p].known \ tab[p].gave
Claimable(d) == {o \in otks : o.dev = d /\ ~o.claimed}
Give(p) ==
  /\ Turn(p) /\ load.enc /\ tab[p].known # Nothing
  /\ \E d \in Needs(p) : \E o \in Claimable(d) :
       /\ otks' = (otks \ {o}) \cup {[o EXCEPT !.claimed = TRUE]}
       /\ box' = Append(box, [dev |-> d, key |-> o.key, room |-> p])
       /\ tab' = [tab EXCEPT ![p].gave = @ \cup {d}]
  /\ UNCHANGED <<load, row, devices, queue, patch, process, files, hist>>
(* dispatchUpdate, for a topic's or a conversation's message.                *)
Post(p) ==
  /\ Turn(p)
  /\ load.enc => tab[p].known # Nothing /\ \A d \in Needs(p) : Claimable(d) = {}
  /\ LET u == [n |-> Len(pushed) + 1, by |-> p, room |-> IF load.enc THEN p ELSE Nothing]
     IN /\ pushed' = Append(pushed, u)
        /\ queue' = IF row.active THEN Append(queue, u) ELSE queue
        /\ gone' = IF row.active THEN gone ELSE gone \cup {u.n}
  /\ UNCHANGED <<load, row, devices, otks, box, patch, tab, process, files, heard, starts, odd>>
(* EXPIRE: five minutes after the last push, when no one polls.              *)
Expire ==
  /\ "expire" \in load.faults /\ queue # <<>> /\ ~Running /\ \A s \in 1..2 : poll[s].pc = "idle"
  /\ queue' = <<>>
  /\ gone' = gone \cup {queue[i].n : i \in DOMAIN queue}
  /\ UNCHANGED <<load, row, devices, otks, box, patch, tab, process, files, pushed, heard, starts, odd>>

---------------------------------------------------------------------------
(* PATCH /api/patch/bots/<id>/e2ee: the row is read, then written.           *)
AdminRead ==
  /\ load.ops # <<>> /\ patch = Nothing
  /\ patch' = [op |-> Head(load.ops), seen |-> row.st]
  /\ load' = [load EXCEPT !.ops = Tail(@)]
  /\ UNCHANGED <<row, devices, otks, box, queue, tab, process, files, hist>>
(* An upload that has read the row as pending will make it ready.            *)
Pairing == \E w \in Loops : up[w].pc \in {"device", "state"} /\ up[w].seen = "pending"
AdminDone == patch' = Nothing /\ Flag(IF Pairing THEN {"raced"} ELSE {})
          /\ UNCHANGED <<load, queue, tab, process, files, pushed, heard, gone, starts>>
Enable ==
  /\ patch # Nothing /\ patch.op = "enable"
  /\ row' = IF patch.seen = "disabled" THEN [row EXCEPT !.st = "pending"] ELSE row
  /\ AdminDone
  /\ UNCHANGED <<devices, otks, box>>
Disable ==
  /\ patch # Nothing /\ patch.op = "disable"
  /\ row' = IF patch.seen # "disabled" THEN [row EXCEPT !.st = "disabled"] ELSE row
  /\ AdminDone
  /\ UNCHANGED <<devices, otks, box>>

Rotate ==
  /\ patch # Nothing /\ patch.op = "rotate"
  /\ devices' = {} /\ otks' = {} /\ box' = <<>>
  /\ row' = [row EXCEPT !.st = "pending", !.dev = Nothing]
  /\ patch' = Nothing
  /\ Flag((IF Pairing THEN {"raced"} ELSE {}) \cup {"lostRows"})
  /\ UNCHANGED <<load, queue, tab, process, files, pushed, heard, gone, starts>>
(* PATCH /api/patch/bots/<id>: isActive.                                     *)
Suspend ==
  /\ patch # Nothing /\ patch.op = "suspend"
  /\ row' = [row EXCEPT !.active = ~@]
  /\ AdminDone
  /\ UNCHANGED <<devices, otks, box>>

---------------------------------------------------------------------------
UploadStep(w) == UpAuth(w) \/ UpDevice(w) \/ UpState(w) \/ UpKeys(w) \/ UpDrop(w)
SaveStep(w) == Snap(w) \/ Open(w) \/ Write(w) \/ Rename(w)
BootStep == StartBot \/ GetMe \/ Reload \/ Unreadable \/ Create \/ Paired
SyncStep == SyncAsk \/ SyncDrain \/ SyncReceive \/ SyncUploaded
PollStep(s) == Ask(s) \/ Read(s) \/ Pop(s) \/ Extra(s) \/ Trim(s) \/ Answer(s)
ReplyStep == Handle \/ ReplyDrain \/ ReplyUploaded \/ ReplyPost
AdminStep == AdminRead \/ Enable \/ Disable \/ Rotate \/ Suspend

BotsNext ==
  \/ \E w \in Loops : UpAuth(w) \/ UpDevice(w) \/ UpState(w) \/ UpKeys(w) \/ UpDrop(w)
  \/ \E w \in Loops : Snap(w) \/ Open(w) \/ Write(w) \/ Rename(w)
  \/ StartBot \/ GetMe \/ Reload \/ Unreadable \/ Create \/ Paired \/ Crash
  \/ SyncAsk \/ SyncDrain \/ SyncFail \/ Orphan \/ SyncReceive \/ SyncUploaded
  \/ \E s \in 1..2 : Ask(s) \/ Read(s) \/ Pop(s) \/ Extra(s) \/ Trim(s) \/ Answer(s)
  \/ Handle \/ ReplyDrain \/ ReplyUploaded \/ ReplyPost
  \/ \E p \in Peers : Track(p) \/ Give(p) \/ Post(p)
  \/ Expire
  \/ AdminRead \/ Enable \/ Disable \/ Rotate \/ Suspend

(* The process's loops and the server's handlers go on; nothing obliges a    *)
(* peer, an administrator or a fault to happen.                              *)
BotsSpec == /\ BotsInit /\ [][BotsNext]_botVars
        /\ WF_botVars(BootStep) /\ WF_botVars(SyncStep) /\ WF_botVars(ReplyStep) /\ WF_botVars(AdminStep)
        /\ \A w \in Loops : WF_botVars(UploadStep(w)) /\ WF_botVars(SaveStep(w))
        /\ \A s \in 1..2 : WF_botVars(PollStep(s))

---------------------------------------------------------------------------
Keys == (1..MaxStarts) \X (1..MaxKeys)
Machines == [dev : Devs, shared : BOOLEAN, next : 1..(MaxKeys + 1), own : SUBSET Keys,
             unpub : SUBSET Keys, rooms : SUBSET Peers]
(* The types of the state.                                                   *)
BotsTypeOK ==
  /\ row.st \in {"disabled", "pending", "ready"} /\ row.dev \in Devs \cup {Nothing}
  /\ devices \subseteq Devs
  /\ mach \in Machines \cup {Nothing}
  /\ boot \in {"off", "getMe", "open", "pair", "run"}
  /\ \A f \in {disk, tmp} : f = Nothing \/ (f.data \in Machines \cup {Nothing} /\ f.by \subseteq Loops)
  /\ \A w \in Loops : up[w].pc \in {"idle", "auth", "device", "state", "keys", "done", "failed"}
                      /\ save[w].pc \in {"idle", "snap", "open", "write", "rename"}
  /\ gone \subseteq 1..Len(pushed)

(* Updates reach the handlers in the order they were queued, each once:      *)
(* none is skipped, repeated or overtaken between the queue, the answer of   *)
(* getUpdates and the handlers, apart from those lost with an answer, a      *)
(* process or the queue's expiry -- while one request drains the queue.      *)
Ns(q) == [i \in DOMAIN q |-> q[i].n]
Answered(s) == IF poll[s].pc = "trim" THEN SubSeq(poll[s].got, 1, Len(poll[s].got) - poll[s].n) ELSE poll[s].got
Rising(q) == \A i, j \in DOMAIN q : i < j => q[i] < q[j]
HeardInOrder ==
  "twice" \notin odd =>
    LET line == Ns(heard) \o Ns(hand) \o Ns(Answered(1)) \o Ns(Answered(2)) \o Ns(queue)
    IN /\ Rising(line)
       /\ {line[i] : i \in DOMAIN line} = 1..Len(pushed) \ gone

(* Between two iterations of the sync loop the snapshot file holds the Olm   *)
(* machine as it is, the machine the other half of every key the server may  *)
(* still give away for its device, and every room key sent to that device is *)
(* in the machine or on its way, whatever restarts came before.  Outside: a  *)
(* process killed before it could write or an answer lost, two saves at      *)
(* once, and an iteration or a reply that failed half-way.                   *)
AtRest == Running /\ mach # Nothing /\ sync.pc \in {"poll", "wait"} /\ reply = NoReply /\ \A w \in Loops : save[w] = NoSave
Durable ==
  AtRest /\ odd \cap {"unsaved", "lapped", "refused"} = {} =>
    /\ disk.data = mach
    /\ \A o \in Unclaimed : o.dev = mach.dev => o.key \in mach.own
    /\ "lostRows" \in odd \/ \A p \in Peers :
         mach.dev \in tab[p].gave => p \in mach.rooms \cup {r.room : r \in Rows}

(* Only an upload that had begun before makes a bot ready that an            *)
(* administrator disabled.                                                   *)
DisableSticks == [][row.st = "disabled" /\ row'.st = "ready" => "raced" \in odd]_botVars

(* A ready bot's device is on file with its keys, unless an administrator's  *)
(* step fell into an upload.                                                 *)
ReadyHasDevice == row.st = "ready" /\ "raced" \notin odd => row.dev \in devices
=============================================================================
