---------------------------- MODULE SessionFeed ----------------------------
(***************************************************************************)
(* One staff member's tab on the session socket: the bootstrap the ws      *)
(* server sends once per connection, the live events that change it, the   *)
(* bell, and the notifications table behind it.  The number of pending     *)
(* flags travels the same way; Moderation says where it comes from.        *)
(*                                                                         *)
(* One ws process serves the tab: what it emits arrives in order, or not   *)
(* at all when the connection breaks.                                      *)
(***************************************************************************)
EXTENDS Naturals, FiniteSets, Sequences

CONSTANTS
  Window, \* how many notifications a tab or an answer holds (50)
  None

\* What an answer tells of the notifications, and a tab of both.
Items == Seq([id : Nat, read : BOOLEAN])
Answers == [items : Items, unread : Nat]
TabStates == [items : Items, unread : Nat, badge : Nat]

ASSUME FeedAssumption == Window \in Nat /\ None \notin Nat \cup Answers \cup TabStates

VARIABLES
  desk,    \* what a behaviour may ask: see Moderation
  note,    \* notifications of the user, in order of createdAt: TRUE when read
  due,     \* those inserted whose event has not been sent
  link,    \* the socket: "off", "up" (snapshot owed), "sent"
  tuned,    \* whether it is in mod:queue
  snap,    \* what buildSessionBootstrap has read so far
  wire,    \* events under way to the tab
  tab,     \* the bootstrap state of the tab, or None before the first
  patches, \* PATCHes of the bell under way
  spent,   \* how often the connection broke, the bell and the queue were opened
  bellOff, \* whether the bell may differ from the table: see BellAgrees
  badgeOff \* whether the badge may differ from the queue: see BadgeAgrees

bellVars == <<note, due, patches, bellOff>>
linkVars == <<link, tuned, snap, wire>>
feedVars == <<desk, bellVars, linkVars, tab, spent, badgeOff>>

Unasked == [notes |-> None, count |-> None]

FeedInit ==
  /\ note = <<>> /\ due = {} /\ patches = 0
  /\ link = "off" /\ tuned = FALSE /\ snap = Unasked /\ wire = <<>>
  /\ tab = None /\ spent = [drops |-> 0, opens |-> 0, panes |-> 0]
  /\ bellOff = FALSE /\ badgeOff = FALSE

Ids == DOMAIN note
Newest == {n \in Ids : Len(note) - n < Window}
Front(s) == IF Len(s) > Window THEN SubSeq(s, 1, Window) ELSE s
Send(e) == wire' = IF link = "off" THEN wire ELSE Append(wire, e)
OnWire(ev) == \E k \in DOMAIN wire : wire[k].ev = ev

\* The rows a bootstrap carries have been read and are not shown yet.
Owed == snap.notes # None \/ OnWire("boot")

---------------------------------------------------------------------------
(* The server's side. *)

\* A mention, a reply or a broadcast: the row first, its event afterwards.
Insert ==
  /\ Len(note) < desk.notes
  /\ note' = Append(note, FALSE)
  /\ due' = due \cup {Len(note) + 1}
  /\ bellOff' = (bellOff \/ Owed \/ patches > 0)
  /\ UNCHANGED <<desk, patches, linkVars, tab, spent, badgeOff>>

\* Two writers may send their events in another order than their rows'.
Emit(n) ==
  /\ n \in due
  /\ due' = due \ {n}
  /\ Send([ev |-> "new", id |-> n])
  /\ bellOff' = (bellOff \/ \E m \in due : m < n)
  /\ UNCHANGED <<desk, note, patches, link, tuned, snap, tab, spent, badgeOff>>

\* The process dies, or the publication fails, after the INSERT.
EmitLost(n) ==
  /\ desk.faults /\ n \in due
  /\ due' = due \ {n}
  /\ bellOff' = TRUE
  /\ UNCHANGED <<desk, note, patches, linkVars, tab, spent, badgeOff>>

\* The user's room is joined before the first await.
Connect ==
  /\ link = "off"
  /\ link' = "up"
  /\ UNCHANGED <<desk, bellVars, tuned, snap, wire, tab, spent, badgeOff>>

\* syncSocketAuthz is not awaited: the queue's room may be joined late.
JoinQueueRoom ==
  /\ link # "off" /\ ~tuned
  /\ tuned' = TRUE
  /\ UNCHANGED <<desk, bellVars, link, snap, wire, tab, spent, badgeOff>>

\* Mutant of ReadNotes: the badge counts what the list holds.
CountRead ==
  /\ link = "up" /\ snap.notes = None
  /\ LET ns == Newest
     IN snap' = [snap EXCEPT !.notes =
                   [items |-> [k \in 1..Cardinality(ns) |->
                                 [id |-> Len(note) - k + 1, read |-> note[Len(note) - k + 1]]],
                    unread |-> Cardinality(ns)]]
  /\ bellOff' = (due # {} \/ patches > 0 \/ OnWire("boot"))
  /\ UNCHANGED <<desk, note, due, patches, link, tuned, wire, tab, spent, badgeOff>>

ReadNotes ==
  /\ link = "up" /\ snap.notes = None
  /\ LET ns == Newest
     IN snap' = [snap EXCEPT !.notes =
                   [items |-> [k \in 1..Cardinality(ns) |->
                                 [id |-> Len(note) - k + 1, read |-> note[Len(note) - k + 1]]],
                    unread |-> Cardinality({n \in ns : ~note[n]})]]
  /\ bellOff' = (due # {} \/ patches > 0 \/ OnWire("boot"))
  /\ UNCHANGED <<desk, note, due, patches, link, tuned, wire, tab, spent, badgeOff>>

SendBootstrap ==
  /\ link = "up" /\ snap.notes # None /\ snap.count # None
  /\ link' = "sent"
  /\ wire' = Append(wire, [ev |-> "boot", notes |-> snap.notes, count |-> snap.count])
  /\ snap' = Unasked
  /\ UNCHANGED <<desk, bellVars, tuned, tab, spent, badgeOff>>

\* The network breaks; socket.io connects again by itself.
Break ==
  /\ link # "off" /\ spent.drops < desk.drops
  /\ link' = "off" /\ tuned' = FALSE /\ snap' = Unasked /\ wire' = <<>>
  /\ spent' = [spent EXCEPT !.drops = @ + 1]
  /\ UNCHANGED <<desk, bellVars, tab, badgeOff>>

PatchApplies ==
  /\ patches > 0
  /\ patches' = patches - 1
  /\ note' = [n \in Ids |-> TRUE]
  /\ bellOff' = (bellOff \/ Owed)
  /\ UNCHANGED <<desk, due, linkVars, tab, spent, badgeOff>>

PatchFails ==
  /\ desk.faults /\ patches > 0
  /\ patches' = patches - 1
  /\ bellOff' = TRUE
  /\ UNCHANGED <<desk, note, due, linkVars, tab, spent, badgeOff>>

---------------------------------------------------------------------------
(* The tab's side.  Before its first bootstrap it ignores every event. *)

HasBoot == wire # <<>> /\ Head(wire).ev = "boot"
Booted(e) == [items |-> e.notes.items, unread |-> e.notes.unread, badge |-> e.count]
Told(e) ==
  IF tab = None THEN None
  ELSE IF e.ev = "count" THEN [tab EXCEPT !.badge = e.count]
  ELSE [tab EXCEPT !.items = Front(<<[id |-> e.id, read |-> FALSE]>> \o @), !.unread = @ + 1]

\* Opening marks everything read here, then on the server.
OpenPanel ==
  /\ tab # None /\ tab.unread > 0 /\ spent.opens < desk.opens
  /\ tab' = [tab EXCEPT !.items = [k \in DOMAIN @ |-> [@[k] EXCEPT !.read = TRUE]], !.unread = 0]
  /\ patches' = patches + 1
  /\ spent' = [spent EXCEPT !.opens = @ + 1]
  /\ bellOff' = (bellOff \/ Owed \/ due # {} \/ OnWire("new"))
  /\ UNCHANGED <<desk, note, due, linkVars, badgeOff>>

BellNext ==
  \/ Insert \/ Connect \/ JoinQueueRoom \/ ReadNotes \/ SendBootstrap \/ Break
  \/ PatchApplies \/ PatchFails \/ OpenPanel
  \/ \E n \in due : Emit(n) \/ EmitLost(n)

---------------------------------------------------------------------------
(* At rest the bell tells what the table holds: the newest notifications    *)
(* are all in its list and read where the table says so, and its number     *)
(* lies between the unread ones among them and all unread ones.  Every new   *)
(* connection restores this.  Excepted (bellOff) is what crosses the        *)
(* bootstrap's or the bell's own round trip, what overtakes another event    *)
(* and what a failure swallows.                                             *)
Unread(ns) == Cardinality({n \in ns : ~note[n]})
BellAgrees ==
  link = "sent" /\ wire = <<>> /\ due = {} /\ patches = 0 /\ ~bellOff =>
    /\ \A n \in Newest : \E k \in DOMAIN tab.items : tab.items[k] = [id |-> n, read |-> note[n]]
    /\ Unread(Newest) <= tab.unread /\ tab.unread <= Unread(Ids)
=============================================================================
