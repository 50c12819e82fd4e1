----------------------------- MODULE Moderation -----------------------------
(***************************************************************************)
(* Flags, verdicts and sanctions: the routes under api/messages/flag and   *)
(* api/admin/{moderation,bans,mutes}, lib/moderation.ts, and the queue a   *)
(* moderator has open in the tab of SessionFeed.                           *)
(*                                                                         *)
(* A request is a job that runs its statements one at a time; none runs in *)
(* a transaction.  Sessions, blocklist and ban cache are SessionAuth's:    *)
(* here a ban takes away the tokens with which a socket could come back.   *)
(***************************************************************************)
EXTENDS SessionFeed

CONSTANTS
  Jobs,     \* requests of a behaviour
  Users,    \* authors of messages
  Rooms,    \* topics that are end-to-end encrypted
  Desks,    \* workloads: [jobs, notes, drops, opens, faults, pane, joins]
  QueueCap, \* how many flags the queue lists (100)
  MaxFetches \* loads of the queue that are tracked at a time

ASSUME ModerationAssumption == QueueCap \in Nat /\ None \notin [list : SUBSET Nat]

VARIABLES
  flag,   \* message_flags in order of createdAt: [user, st]
  gone,   \* flags over whose message softDeleteMessage ran
  job,    \* the requests
  penal,  \* user_bans and user_mutes in force: [kind, user, flag or 0, by]
  member, \* topic_members: pairs <<user, room>>
  seat,   \* users with an open socket
  shut,   \* users whose tokens are revoked
  joining,\* TOPIC_JOINs past the gate: pairs <<user, room>>
  pane,   \* the queue in the tab: open, its list, its loads under way
  raced,  \* flags two verdicts on which overlapped
  cut,    \* jobs a failure ended
  late    \* users who joined a room behind a ban's back

caseVars == <<flag, gone, penal, raced>>
userVars == <<member, seat, shut, joining, late>>
queueVars == <<caseVars, job, userVars, pane, cut>>
deskVars == <<feedVars, queueVars>>

Task(j) == desk.jobs[j]
Is(j, s) == job[j].pc = s
Running(j) == job[j].pc \notin {"todo", "done"}

---------------------------------------------------------------------------
(* The statements of each request, in the order of its handler. *)
First(t) ==
  CASE t.op = "report" -> "insertFlag"
    [] t.op = "review" -> "readFlag"
    [] t.op = "ban"    -> "insertBan"
    [] t.op = "mute"   -> "insertMute"
    [] t.op = "lift"   -> "lift"

\* The tab loads the queue again when its own verdict is answered.
Last(t) == IF t.op = "review" /\ t.here THEN "answer" ELSE "done"

After(t, s) ==
  CASE s = "insertFlag" -> "count"
    [] s = "readFlag"   -> IF t.act = "dismiss" THEN "resolve" ELSE "delete"
    [] s = "delete"     -> "resolve"
    [] s = "resolve"    -> "count"
    [] s = "count"      -> "publish"
    [] s = "publish"    -> IF t.op = "review" /\ t.act \in {"ban", "mute"} THEN "permit" ELSE Last(t)
    [] s = "permit"     -> IF t.act = "ban" THEN "insertBan" ELSE "insertMute"
    [] s = "insertBan"  -> "revoke"
    [] s = "revoke"     -> "rooms"
    [] s = "rooms"      -> "leave"
    [] s = "leave"      -> "announce"
    [] s \in {"insertMute", "announce"} -> Last(t)
    [] s \in {"lift", "answer"} -> "done"

Go(j) == job' = [job EXCEPT ![j].pc = After(Task(j), @)]
Stop(j) == job' = [job EXCEPT ![j].pc = "done"]

NewJob == [pc |-> "todo", flag |-> 0, count |-> None, rooms |-> {}]

QueueInit ==
  /\ FeedInit
  /\ desk \in Desks
  /\ flag = <<>> /\ gone = {} /\ penal = {} /\ raced = {}
  /\ job = [j \in Jobs |-> NewJob]
  /\ member = {} /\ seat = {} /\ shut = {} /\ joining = {} /\ late = {}
  /\ pane = [open |-> FALSE, list |-> {}, loads |-> <<>>]
  /\ cut = {}

Pending == {f \in DOMAIN flag : flag[f].st = "pending"}

Loading(p) == IF Len(p.loads) < MaxFetches THEN [p EXCEPT !.loads = Append(@, None)] ELSE p

\* Somebody holds a number of flags that is not shown yet.
CountHeld == \/ snap.count # None \/ OnWire("boot")
             \/ \E j \in Jobs : Is(j, "publish")
             \/ \E k \in DOMAIN pane.loads : pane.loads[k] # None

\* Every change of a flag's status: what was counted before it is old.
Recount == badgeOff' = (badgeOff \/ CountHeld \/ (link # "off" /\ ~tuned))

---------------------------------------------------------------------------
(* Requests arrive. *)

Subject(j) == IF Task(j).op = "review" THEN flag[job[j].flag].user ELSE Task(j).user

\* A moderator judges a flag: this tab's one that its list shows, another any.
Arrive(j) ==
  /\ Is(j, "todo")
  /\ \/ Task(j).op \in {"report", "ban", "mute", "lift"} /\ job' = [job EXCEPT ![j].pc = First(Task(j))]
     \/ /\ Task(j).op = "review"
        /\ \E f \in (IF Task(j).here THEN pane.list ELSE DOMAIN flag) :
             job' = [job EXCEPT ![j].pc = First(Task(j)), ![j].flag = f]
  /\ UNCHANGED <<feedVars, caseVars, userVars, pane, cut>>

\* A statement throws: 500, the rest is not done.
Fail(j) ==
  /\ desk.faults /\ Running(j)
  /\ Stop(j)
  /\ cut' = cut \cup {j}
  /\ badgeOff' = (badgeOff \/ Is(j, "count") \/ Is(j, "publish"))
  /\ UNCHANGED <<desk, bellVars, linkVars, tab, spent, caseVars, userVars, pane>>

InsertFlag(j) ==
  /\ Is(j, "insertFlag")
  /\ flag' = Append(flag, [user |-> Task(j).user, st |-> "pending"])
  /\ Recount /\ Go(j)
  /\ UNCHANGED <<desk, bellVars, linkVars, tab, spent, gone, penal, raced, userVars, pane, cut>>

\* Mutant of ReadFlag: a flag that is already resolved is judged again.
ReadAny(j) ==
  /\ Is(j, "readFlag")
  /\ Go(j)
  /\ UNCHANGED <<feedVars, caseVars, userVars, pane, cut>>

\* 404 without the flag, 409 when it is resolved already.
ReadFlag(j) ==
  /\ Is(j, "readFlag")
  /\ LET f == job[j].flag
         rivals == {i \in Jobs \ {j} : Running(i) /\ job[i].flag = f /\ ~Is(i, "readFlag")}
     IN IF f \notin DOMAIN flag \/ flag[f].st # "pending" THEN Stop(j) /\ UNCHANGED raced
        ELSE Go(j) /\ raced' = IF rivals # {} THEN raced \cup {f} ELSE raced
  /\ UNCHANGED <<feedVars, flag, gone, penal, userVars, pane, cut>>

DeleteMessage(j) ==
  /\ Is(j, "delete")
  /\ gone' = gone \cup {job[j].flag}
  /\ Go(j)
  /\ UNCHANGED <<feedVars, flag, penal, raced, userVars, pane, cut>>

\* The UPDATE asks for a pending flag; whether it found one is not looked at.
Resolve(j) ==
  /\ Is(j, "resolve")
  /\ LET f == job[j].flag
     IN /\ flag' = IF flag[f].st # "pending" THEN flag
                   ELSE [flag EXCEPT ![f].st = IF Task(j).act = "dismiss" THEN "dismissed" ELSE "actioned"]
        /\ IF flag[f].st = "pending" THEN Recount ELSE UNCHANGED badgeOff
  /\ Go(j)
  /\ UNCHANGED <<desk, bellVars, linkVars, tab, spent, gone, penal, raced, userVars, pane, cut>>

\* publishPendingFlagCount: the count, then the publication.
CountFlags(j) ==
  /\ Is(j, "count")
  /\ job' = [job EXCEPT ![j].pc = "publish", ![j].count = Cardinality(Pending)]
  /\ UNCHANGED <<feedVars, caseVars, userVars, pane, cut>>

PublishCount(j) ==
  /\ Is(j, "publish")
  /\ IF tuned THEN Send([ev |-> "count", count |-> job[j].count]) ELSE UNCHANGED wire
  /\ Go(j)
  /\ UNCHANGED <<desk, bellVars, link, tuned, snap, tab, spent, badgeOff, caseVars, userVars, pane, cut>>

\* The right to ban is asked for after the message is gone and the flag closed.
Permit(j) ==
  /\ Is(j, "permit")
  /\ IF ~Task(j).may THEN Stop(j)
     ELSE IF Subject(j) # None THEN Go(j)
     ELSE job' = [job EXCEPT ![j].pc = Last(Task(j))]
  /\ UNCHANGED <<feedVars, caseVars, userVars, pane, cut>>

Sentence(j, kind) == [kind |-> kind, user |-> Subject(j), flag |-> job[j].flag, by |-> j]

InsertBan(j) ==
  /\ Is(j, "insertBan")
  /\ penal' = penal \cup {Sentence(j, "ban")}
  /\ Go(j)
  /\ UNCHANGED <<feedVars, flag, gone, raced, userVars, pane, cut>>

InsertMute(j) ==
  /\ Is(j, "insertMute")
  /\ penal' = penal \cup {Sentence(j, "mute")}
  /\ Go(j)
  /\ UNCHANGED <<feedVars, flag, gone, raced, userVars, pane, cut>>

RevokeTokens(j) ==
  /\ Is(j, "revoke")
  /\ shut' = shut \cup {Subject(j)}
  /\ Go(j)
  /\ UNCHANGED <<feedVars, caseVars, member, seat, joining, late, pane, cut>>

RoomsOf(u) == {r \in Rooms : <<u, r>> \in member}

SelectRooms(j) ==
  /\ Is(j, "rooms")
  /\ job' = [job EXCEPT ![j].pc = "leave", ![j].rooms = RoomsOf(Subject(j))]
  /\ UNCHANGED <<feedVars, caseVars, userVars, pane, cut>>

\* Mutant of LeaveRooms: only one topic is left.
LeaveOne(j) ==
  /\ Is(j, "leave")
  /\ IF job[j].rooms = {} THEN UNCHANGED member
     ELSE member' = member \ {<<Subject(j), CHOOSE r \in job[j].rooms : TRUE>>}
  /\ Go(j)
  /\ UNCHANGED <<feedVars, caseVars, seat, shut, joining, late, pane, cut>>

LeaveRooms(j) ==
  /\ Is(j, "leave")
  /\ member' = member \ {<<Subject(j), r>> : r \in job[j].rooms}
  /\ Go(j)
  /\ UNCHANGED <<feedVars, caseVars, seat, shut, joining, late, pane, cut>>

\* USER_BANNED: the ws server closes the sockets, last of all.
Announce(j) ==
  /\ Is(j, "announce")
  /\ seat' = seat \ {Subject(j)}
  /\ Go(j)
  /\ UNCHANGED <<feedVars, caseVars, member, shut, joining, late, pane, cut>>

\* One ban or mute of the user is taken back, if there is one.
Lift(j) ==
  /\ Is(j, "lift")
  /\ LET mine == {p \in penal : p.user = Task(j).user}
     IN IF mine = {} THEN UNCHANGED penal ELSE \E p \in mine : penal' = penal \ {p}
  /\ Go(j)
  /\ UNCHANGED <<feedVars, flag, gone, raced, userVars, pane, cut>>

Answer(j) ==
  /\ Is(j, "answer")
  /\ pane' = IF pane.open THEN Loading(pane) ELSE pane
  /\ Go(j)
  /\ UNCHANGED <<feedVars, caseVars, userVars, cut>>

---------------------------------------------------------------------------
(* Members of the rooms. *)

Banned(u) == \E p \in penal : p.kind = "ban" /\ p.user = u

\* With a token, or with the new one of a sign-in, which a ban refuses.
Enter(u) ==
  /\ desk.joins /\ u \notin seat
  /\ u \in shut => ~Banned(u)
  /\ seat' = seat \cup {u}
  /\ shut' = shut \ {u}
  /\ UNCHANGED <<feedVars, caseVars, job, member, joining, late, pane, cut>>

\* TOPIC_JOIN: the gate, then ensureTopicMembership, whatever the socket does meanwhile.
PassGate(u, r) ==
  /\ u \in seat /\ <<u, r>> \notin member \cup joining
  /\ joining' = joining \cup {<<u, r>>}
  /\ UNCHANGED <<feedVars, caseVars, job, member, seat, shut, late, pane, cut>>

\* A ban that has yet to look at the user's rooms.
Impending(u) == \E j \in Jobs : job[j].pc \in {"insertBan", "revoke", "rooms"} /\ Subject(j) = u

JoinRoom(u, r) ==
  /\ <<u, r>> \in joining
  /\ joining' = joining \ {<<u, r>>}
  /\ member' = member \cup {<<u, r>>}
  /\ late' = IF Banned(u) /\ ~Impending(u) THEN late \cup {u} ELSE late
  /\ UNCHANGED <<feedVars, caseVars, job, seat, shut, pane, cut>>

---------------------------------------------------------------------------
(* The moderator's tab. *)

\* buildSessionBootstrap counts the flags beside its other reads.
ReadCount ==
  /\ link = "up" /\ snap.count = None
  /\ snap' = [snap EXCEPT !.count = Cardinality(Pending)]
  /\ badgeOff' = CountHeld
  /\ UNCHANGED <<desk, bellVars, link, tuned, wire, tab, spent, queueVars>>

\* The callback that takes the count is a new one after every change of the
\* bootstrap state, and the open queue loads again for each.
Rerendered == pane' = IF pane.open /\ tab # None THEN Loading(pane) ELSE pane

Receive ==
  /\ wire # <<>>
  /\ tab' = IF HasBoot THEN Booted(Head(wire)) ELSE Told(Head(wire))
  /\ wire' = Tail(wire)
  /\ Rerendered
  /\ UNCHANGED <<desk, bellVars, link, tuned, snap, spent, badgeOff, caseVars, job, userVars, cut>>

OpenQueue ==
  /\ ~pane.open /\ spent.panes < desk.panes
  /\ pane' = Loading([pane EXCEPT !.open = TRUE])
  /\ spent' = [spent EXCEPT !.panes = @ + 1]
  /\ UNCHANGED <<desk, bellVars, linkVars, tab, badgeOff, caseVars, job, userVars, cut>>

CloseQueue ==
  /\ pane.open
  /\ pane' = [pane EXCEPT !.open = FALSE, !.list = {}]
  /\ UNCHANGED <<feedVars, caseVars, job, userVars, cut>>

Listed == {f \in Pending : Cardinality({g \in Pending : g > f}) < QueueCap}

LoadReads(k) ==
  /\ k \in DOMAIN pane.loads /\ pane.loads[k] = None
  /\ pane' = [pane EXCEPT !.loads[k] = [list |-> Listed]]
  /\ UNCHANGED <<feedVars, caseVars, job, userVars, cut>>

\* The answer replaces the list and sets the badge, which renders the queue anew.
LoadShows(k) ==
  /\ k \in DOMAIN pane.loads /\ pane.loads[k] # None
  /\ LET list == pane.loads[k].list
         rest == SubSeq(pane.loads, 1, k - 1) \o SubSeq(pane.loads, k + 1, Len(pane.loads))
         left == [pane EXCEPT !.list = IF pane.open THEN list ELSE @, !.loads = rest]
     IN /\ tab' = IF tab = None THEN None ELSE [tab EXCEPT !.badge = Cardinality(list)]
        /\ pane' = IF pane.open /\ tab # None THEN Loading(left) ELSE left
  /\ UNCHANGED <<desk, bellVars, linkVars, spent, badgeOff, caseVars, job, userVars, cut>>

---------------------------------------------------------------------------
Work(j) ==
  \/ InsertFlag(j) \/ ReadFlag(j) \/ DeleteMessage(j) \/ Resolve(j) \/ CountFlags(j)
  \/ PublishCount(j) \/ Permit(j) \/ InsertBan(j) \/ InsertMute(j) \/ RevokeTokens(j)
  \/ SelectRooms(j) \/ LeaveRooms(j) \/ Announce(j) \/ Lift(j)
  \/ Answer(j)

QueueNext ==
  \/ BellNext /\ UNCHANGED queueVars
  \/ ReadCount \/ Receive \/ OpenQueue \/ CloseQueue
  \/ \E k \in 1..MaxFetches : LoadReads(k) \/ LoadShows(k)
  \/ \E j \in Jobs : Arrive(j) \/ Fail(j) \/ Work(j)
  \/ \E u \in Users : Enter(u) \/ \E r \in Rooms : PassGate(u, r) \/ JoinRoom(u, r)

ModerationSpec == QueueInit /\ [][QueueNext]_deskVars

---------------------------------------------------------------------------
(* A verdict leaves one trace: over a dismissed flag no message is deleted    *)
(* and nobody is sanctioned, over an actioned one the message is gone.        *)
(* Excepted are flags two moderators judged at once, where both verdicts take *)
(* effect, and those whose request failed half-way.                           *)
Botched == {job[j].flag : j \in cut}
VerdictsAgree ==
  \A f \in DOMAIN flag : f \notin raced \cup Botched =>
    /\ flag[f].st = "dismissed" => f \notin gone /\ \A p \in penal : p.flag # f
    /\ flag[f].st = "actioned" => f \in gone

(* At rest the badge shows the number of pending flags, or as many as the      *)
(* queue lists when it was opened last.  Excepted (badgeOff) is a change that   *)
(* crosses a number already counted, or comes before the socket is in its room. *)
BadgeAgrees ==
  /\ link = "sent" /\ wire = <<>> /\ pane.loads = <<>> /\ ~badgeOff
  /\ \A j \in Jobs : ~Running(j)
  => tab.badge = Cardinality(Pending) \/ (tab.badge = QueueCap /\ Cardinality(Pending) > QueueCap)

(* The header of the open tab: the bell tells what the notifications table    *)
(* says, the badge what the moderation queue holds.                            *)
HeaderAgrees == BellAgrees /\ BadgeAgrees

(* Nobody wraps a key for a banned user: once the ban is through and the        *)
(* sockets are closed, the user is in no encrypted topic, unless a join ran      *)
(* into the ban.                                                                *)
BannedOut ==
  \A u \in Users \ late :
    /\ Banned(u) /\ cut = {}
    /\ \A j \in Jobs : Running(j) => Subject(j) # u
    => RoomsOf(u) = {}
=============================================================================
