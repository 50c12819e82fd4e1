----------------------------- MODULE BotConsole -----------------------------
(***************************************************************************)
(* The bots page of the administration, components/AdminBotsForm.tsx and   *)
(* components/admin/BotDetailPanel.tsx: one administrator's tab, the       *)
(* routes under api/admin/bots behind it, and other administrators.        *)
(*                                                                         *)
(* The panel keeps drafts of the bot's fields beside the row it was given. *)
(* "Save" sends the fields whose drafts differ from the row, so a draft    *)
(* that outlives its row would write an old value over another's change.   *)
(***************************************************************************)
EXTENDS FiniteSets, Naturals

CONSTANTS
  Fleet,      \* bots that exist, or may be created
  Basics,     \* name, description, webhook: sent by "Save"
  Rank,       \* role, expiry, fallback: sent together by "Save role"
  Direct,     \* isActive, avatar: sent by a button each
  Values,     \* of a field
  Places,     \* topics without encryption
  Denials,    \* permissions an override may deny
  Filters,    \* what a filter and page list: sets of bots
  NoBot,
  MaxActs,    \* bounds the clicks
  MaxOpen     \* a click waits until no more requests than this are under way

ASSUME BotConsoleAssumption ==
  /\ NoBot \notin Fleet /\ Filters \subseteq SUBSET Fleet
  /\ MaxActs \in Nat /\ MaxOpen \in Nat

VARIABLES
  bots,      \* bot -> [f, keyed, places, denied], those that exist
  tokens,    \* bot that ever was -> number of its token, 0 once deleted
  rows,      \* bot -> [f, keyed], those listed
  listed,    \* assignments the page knows: pairs of a bot and a topic
  filter,    \* debouncedFilter and page
  picked,    \* bulkSelected
  chosen,    \* selectedId, or NoBot
  detail,    \* the mounted panel: [bot, draft, typed, denied, saving, keying]
  shownToken,\* revealedToken
  busy,      \* [creating, bulk, selecting]
  asks,      \* requests under way: [id, op, b, arg, st, ans, live]
  acts

Fields == Basics \cup Rank \cup Direct
Drafted == Basics \cup Rank

botServer == <<bots, tokens>>
botList == <<rows, listed, filter, picked, chosen, shownToken, busy>>
botVars == <<botServer, botList, detail, asks, acts>>

BotRow(f, keyed) == [f |-> f, keyed |-> keyed]
NoDetail == [bot |-> NoBot, draft |-> [k \in {} |-> 0], typed |-> {}, denied |-> {}, saving |-> FALSE, keying |-> FALSE]
DetailOf(b, row) ==
  [bot |-> b, draft |-> [k \in Drafted |-> row.f[k]], typed |-> {}, denied |-> {}, saving |-> FALSE, keying |-> FALSE]
Restored(bs, kept) == [b \in kept |-> bs[b]]

BotInit ==
  /\ \E bs \in SUBSET Fleet, v \in Values :
       /\ bots = [b \in bs |-> [f |-> [k \in Fields |-> v], keyed |-> FALSE, places |-> {}, denied |-> {}]]
       /\ rows = [b \in bs |-> BotRow([k \in Fields |-> v], FALSE)]
       /\ tokens = [b \in bs |-> 1]
  /\ filter = Fleet
  /\ listed = {} /\ picked = {} /\ chosen = NoBot /\ detail = NoDetail
  /\ shownToken = [bot |-> NoBot, n |-> 0]
  /\ busy = [creating |-> FALSE, bulk |-> FALSE, selecting |-> FALSE]
  /\ asks = {} /\ acts = 0

(***************************************************************************)
(* Requests                                                                *)
(***************************************************************************)
Query(op, b, arg) == [id |-> acts + 1, op |-> op, b |-> b, arg |-> arg, st |-> "asked", ans |-> NoBot, live |-> TRUE]
Act == acts < MaxActs /\ Cardinality(asks) <= MaxOpen /\ acts' = acts + 1
Put(op, b, arg) == asks' = asks \cup {Query(op, b, arg)}

Returns(a, ans) == asks' = (asks \ {a}) \cup {[a EXCEPT !.st = "ok", !.ans = ans]}
Denied(a) == asks' = (asks \ {a}) \cup {[a EXCEPT !.st = "failed"]}
Waits(a, op) == a.op = op /\ a.st = "asked"
Ok(a, op) == a.op = op /\ a.st = "ok"
Ended(a, op) == a.op = op /\ a.st \in {"ok", "failed"}

(***************************************************************************)
(* The routes                                                              *)
(***************************************************************************)
\* bots/page-data: the rows of a filter, and their assignments
ServeLoad(a) ==
  /\ Waits(a, "load")
  /\ LET bs == a.arg \cap DOMAIN bots
     IN Returns(a, [rows |-> [b \in bs |-> BotRow(bots[b].f, bots[b].keyed)],
                   listed |-> UNION {{b} \X bots[b].places : b \in bs}])
  /\ UNCHANGED botServer

\* page-data?idsOnly
ServeIds(a) ==
  /\ Waits(a, "ids") /\ Returns(a, a.arg \cap DOMAIN bots)
  /\ UNCHANGED botServer

\* PATCH bots/[id] writes what the body holds and returns the bare row, which
\* says nothing of encryption.
ServeFields(a) ==
  /\ Waits(a, "patch")
  /\ IF a.b \in DOMAIN bots
     THEN LET f == [k \in Fields |-> IF k \in DOMAIN a.arg THEN a.arg[k] ELSE bots[a.b].f[k]]
          IN bots' = [bots EXCEPT ![a.b].f = f] /\ Returns(a, BotRow(f, FALSE))
     ELSE UNCHANGED bots /\ Denied(a)
  /\ UNCHANGED tokens

\* PATCH bots/[id]/e2ee
ServeKeying(a) ==
  /\ Waits(a, "keying")
  /\ IF a.b \in DOMAIN bots THEN bots' = [bots EXCEPT ![a.b].keyed = a.arg.on] /\ Returns(a, a.arg.on)
     ELSE UNCHANGED bots /\ Denied(a)
  /\ UNCHANGED tokens

ServeRotate(a) ==
  /\ Waits(a, "rotate")
  /\ IF a.b \in DOMAIN bots THEN tokens' = [tokens EXCEPT ![a.b] = @ + 1] /\ Returns(a, tokens[a.b] + 1)
     ELSE UNCHANGED tokens /\ Denied(a)
  /\ UNCHANGED bots

\* topics/[id]/bots; a removal finds nothing to remove and succeeds
ServeAssign(a) ==
  /\ \/ /\ Waits(a, "add")
        /\ IF a.b \in DOMAIN bots THEN bots' = [bots EXCEPT ![a.b].places = @ \cup {a.arg}] /\ Returns(a, a.arg)
           ELSE UNCHANGED bots /\ Denied(a)
     \/ /\ Waits(a, "remove") /\ Returns(a, a.arg)
        /\ bots' = [b \in DOMAIN bots |-> IF b = a.b THEN [bots[b] EXCEPT !.places = @ \ {a.arg}] ELSE bots[b]]
  /\ UNCHANGED tokens

\* permission-overrides: read, upsert, delete
ServeDenials(a) ==
  /\ \/ Waits(a, "denials") /\ UNCHANGED bots /\ Returns(a, IF a.b \in DOMAIN bots THEN bots[a.b].denied ELSE {})
     \/ /\ Waits(a, "deny") /\ Returns(a, a.arg)
        /\ bots' = [b \in DOMAIN bots |-> IF b = a.b THEN [bots[b] EXCEPT !.denied = @ \cup {a.arg}] ELSE bots[b]]
     \/ /\ Waits(a, "allow") /\ Returns(a, a.arg)
        /\ bots' = [b \in DOMAIN bots |-> IF b = a.b THEN [bots[b] EXCEPT !.denied = @ \ {a.arg}] ELSE bots[b]]
  /\ UNCHANGED tokens

Erased(bs) ==
  /\ bots' = Restored(bots, DOMAIN bots \ bs)
  /\ tokens' = [b \in DOMAIN tokens |-> IF b \in bs THEN 0 ELSE tokens[b]]

\* DELETE of one, or POST bots/bulk of many
ServeRemove(a) ==
  \/ Waits(a, "delete") /\ Erased({a.b}) /\ Returns(a, a.b)
  \/ Waits(a, "bulk") /\ Erased(a.arg.ids) /\ Returns(a, a.arg.ids \cap DOMAIN bots)

ServeMake(a) ==
  /\ Waits(a, "make")
  /\ \E b \in Fleet \ DOMAIN tokens :
       LET f == [k \in Fields |-> a.arg]
       IN /\ bots' = [x \in DOMAIN bots \cup {b} |->
                        IF x = b THEN [f |-> f, keyed |-> FALSE, places |-> {}, denied |-> {}] ELSE bots[x]]
          /\ tokens' = [x \in DOMAIN tokens \cup {b} |-> IF x = b THEN 1 ELSE tokens[x]]
          /\ Returns(a, [bot |-> b, row |-> BotRow(f, FALSE)])

ServeFault(a) == a.st = "asked" /\ Denied(a) /\ UNCHANGED botServer

ServeBots(a) ==
  /\ \/ ServeLoad(a) \/ ServeIds(a) \/ ServeFields(a) \/ ServeKeying(a) \/ ServeRotate(a) \/ ServeAssign(a)
     \/ ServeDenials(a) \/ ServeRemove(a) \/ ServeMake(a) \/ ServeFault(a)
  /\ UNCHANGED <<botList, detail, acts>>

\* Another administrator writes a field, or deletes a bot.
Other(b) ==
  /\ b \in DOMAIN bots /\ acts < MaxActs /\ acts' = acts + 1
  /\ \/ \E k \in Fields, v \in Values : v # bots[b].f[k] /\ bots' = [bots EXCEPT ![b].f[k] = v] /\ UNCHANGED tokens
     \/ Erased({b})
  /\ UNCHANGED <<botList, detail, asks>>

(***************************************************************************)
(* The list and what it mounts                                             *)
(***************************************************************************)
Differs(r, s) == \E k \in Drafted : r.f[k] # s.f[k]
Same(b) == detail.bot = b

\* Mutant of PanelOf: the drafts follow the bot alone, as the panel's key does.
PanelKept(rs, b) ==
  IF b \notin DOMAIN rs THEN NoDetail ELSE IF Same(b) THEN detail ELSE DetailOf(b, rs[b])

\* The panel once the list shows rs and b is chosen: none without a row, a new
\* one for another bot, and new drafts when a drafted field of the row changed
PanelOf(rs, b) ==
  IF b \notin DOMAIN rs THEN NoDetail
  ELSE IF ~Same(b) THEN DetailOf(b, rs[b])
  ELSE IF Differs(rs[b], rows[b]) THEN [detail EXCEPT !.draft = DetailOf(b, rs[b]).draft, !.typed = {}]
  ELSE detail

\* React renders rs with b chosen, after which qs are under way. Answers to a
\* panel that is gone change nothing of the next, a read of its overrides
\* nothing at all; a new panel reads its own.
Draw(rs, b, qs) ==
  /\ rows' = rs /\ chosen' = b
  /\ detail' = PanelOf(rs, b)
  /\ asks' = IF Same(detail'.bot) THEN qs
             ELSE {[a EXCEPT !.live = FALSE] : a \in {q \in qs : q.op # "denials"}}
                  \cup (IF detail'.bot = NoBot THEN {} ELSE {Query("denials", detail'.bot, NoBot)})

\* A new filter or page is loaded; answers are shown as they come.
Filter(q) ==
  /\ q # filter /\ Act /\ filter' = q /\ Put("load", NoBot, q)
  /\ UNCHANGED <<botServer, rows, listed, picked, chosen, detail, shownToken, busy>>

ShowLoad(a) ==
  /\ Ok(a, "load")
  /\ Draw(a.ans.rows, chosen, asks \ {a}) /\ listed' = a.ans.listed
  /\ UNCHANGED <<botServer, filter, picked, shownToken, busy, acts>>

Select(b) ==
  /\ b \in DOMAIN rows \cup {NoBot} /\ b # chosen
  /\ Draw(rows, b, asks)
  /\ UNCHANGED <<botServer, listed, filter, picked, shownToken, busy, acts>>

\* A box, the box above them all, or "clear"
TickBoxes(bs) ==
  /\ bs # picked /\ Act
  /\ \/ \E b \in DOMAIN rows : bs \in {picked \cup {b}, picked \ {b}}
     \/ bs \in {picked \cup DOMAIN rows, picked \ DOMAIN rows}
     \/ bs = {} /\ ~busy.bulk
  /\ picked' = bs
  /\ UNCHANGED <<botServer, rows, listed, filter, chosen, detail, shownToken, busy, asks>>

SelectMatching ==
  /\ DOMAIN rows # {} /\ DOMAIN rows \subseteq picked /\ ~busy.selecting /\ ~busy.bulk
  /\ Act /\ Put("ids", NoBot, filter) /\ busy' = [busy EXCEPT !.selecting = TRUE]
  /\ UNCHANGED <<botServer, rows, listed, filter, picked, chosen, detail, shownToken>>

Matching(a) ==
  /\ Ended(a, "ids") /\ asks' = asks \ {a}
  /\ picked' = IF a.st = "ok" THEN a.ans ELSE picked
  /\ busy' = [busy EXCEPT !.selecting = FALSE]
  /\ UNCHANGED <<botServer, rows, listed, filter, chosen, detail, shownToken, acts>>

BulkDelete ==
  /\ picked # {} /\ ~busy.bulk
  /\ Act /\ Put("bulk", NoBot, [ids |-> picked, chosen |-> chosen, filter |-> filter]) /\ busy' = [busy EXCEPT !.bulk = TRUE]
  /\ UNCHANGED <<botServer, rows, listed, filter, picked, chosen, detail, shownToken>>

\* On success the boxes are cleared, and nothing is chosen if what was chosen at
\* the click is gone; the filter of then is loaded. On failure the boxes stay.
BulkDeleted(a) ==
  /\ Ended(a, "bulk")
  /\ IF a.st = "failed" THEN asks' = asks \ {a} /\ UNCHANGED <<rows, picked, chosen, detail>>
     ELSE /\ picked' = {}
          /\ Draw(rows, IF a.arg.chosen \in a.ans THEN NoBot ELSE chosen, (asks \ {a}) \cup {Query("load", NoBot, a.arg.filter)})
  /\ busy' = [busy EXCEPT !.bulk = FALSE]
  /\ UNCHANGED <<botServer, listed, filter, shownToken, acts>>

Make(v) ==
  /\ ~busy.creating /\ Act /\ Put("make", NoBot, v)
  /\ busy' = [busy EXCEPT !.creating = TRUE]
  /\ UNCHANGED <<botServer, rows, listed, filter, picked, chosen, detail, shownToken>>

Made(a) ==
  /\ Ended(a, "make")
  /\ IF a.st = "failed" THEN asks' = asks \ {a} /\ UNCHANGED <<rows, chosen, detail, shownToken>>
     ELSE LET b == a.ans.bot
          IN /\ Draw([x \in DOMAIN rows \cup {b} |-> IF x = b THEN a.ans.row ELSE rows[x]], b, asks \ {a})
             /\ shownToken' = [bot |-> b, n |-> 1]
  /\ busy' = [busy EXCEPT !.creating = FALSE]
  /\ UNCHANGED <<botServer, listed, filter, picked, acts>>

(***************************************************************************)
(* The panel                                                               *)
(***************************************************************************)
Open == detail.bot # NoBot
Bot == detail.bot
panelOnly == <<botServer, botList>>

TypeIn(k, v) ==
  /\ Open /\ detail.draft[k] # v
  /\ detail' = [detail EXCEPT !.draft[k] = v, !.typed = @ \cup {k}]
  /\ UNCHANGED <<panelOnly, asks, acts>>

Unsaved == {k \in Basics : detail.draft[k] # rows[Bot].f[k]}

SaveBasics ==
  /\ Open /\ ~detail.saving /\ Unsaved # {} /\ Act
  /\ Put("patch", Bot, [k \in Unsaved |-> detail.draft[k]])
  /\ detail' = [detail EXCEPT !.saving = TRUE]
  /\ UNCHANGED panelOnly

\* All of the role's fields, changed or not
SaveRank ==
  /\ Open /\ Act /\ Put("patch", Bot, [k \in Rank |-> detail.draft[k]])
  /\ UNCHANGED <<panelOnly, detail>>

\* toggleActive, and the avatar
SetDirect(k, v) ==
  /\ Open /\ rows[Bot].f[k] # v /\ Act /\ Put("patch", Bot, [x \in {k} |-> v])
  /\ UNCHANGED <<panelOnly, detail>>

Basic(a) == DOMAIN a.arg \subseteq Basics

\* The row is replaced by the answer, whichever panel is open; "Save" is live
\* again in the panel that sent it.
Patched(a) ==
  /\ Ended(a, "patch")
  /\ LET rs == IF a.st = "ok" /\ a.b \in DOMAIN rows THEN [rows EXCEPT ![a.b] = a.ans] ELSE rows
     IN /\ rows' = rs /\ asks' = asks \ {a}
        /\ detail' = LET d == PanelOf(rs, chosen) IN IF a.live /\ Basic(a) THEN [d EXCEPT !.saving = FALSE] ELSE d
  /\ UNCHANGED <<botServer, listed, filter, picked, chosen, shownToken, busy, acts>>

SetKeying(k) ==
  /\ Open /\ ~detail.keying /\ k # rows[Bot].keyed /\ Act /\ Put("keying", Bot, [on |-> k, filter |-> filter])
  /\ detail' = [detail EXCEPT !.keying = TRUE]
  /\ UNCHANGED panelOnly

\* onChange loads the list of the click's filter, for a panel that is gone too.
Keyed(a) ==
  /\ Ended(a, "keying")
  /\ asks' = (asks \ {a}) \cup (IF a.st = "ok" THEN {Query("load", NoBot, a.arg.filter)} ELSE {})
  /\ detail' = IF a.live THEN [detail EXCEPT !.keying = FALSE] ELSE detail
  /\ UNCHANGED <<panelOnly, acts>>

Press(op, arg) ==
  /\ Open /\ Act /\ Put(op, Bot, arg)
  /\ UNCHANGED <<panelOnly, detail>>

Rotate == Press("rotate", NoBot)
Delete == Press("delete", NoBot)
Assign(p) == IF <<Bot, p>> \in listed THEN Press("remove", p) ELSE Press("add", p)
Override(p) == IF p \in detail.denied THEN Press("allow", p) ELSE Press("deny", p)

Rotated(a) ==
  /\ Ended(a, "rotate") /\ asks' = asks \ {a}
  /\ shownToken' = IF a.st = "ok" THEN [bot |-> a.b, n |-> a.ans] ELSE shownToken
  /\ UNCHANGED <<botServer, rows, listed, filter, picked, chosen, busy, detail, acts>>

Dismiss ==
  /\ shownToken.bot # NoBot /\ shownToken.bot = Bot
  /\ shownToken' = [bot |-> NoBot, n |-> 0]
  /\ UNCHANGED <<botServer, rows, listed, filter, picked, chosen, busy, detail, asks, acts>>

Assigned(a) ==
  /\ Ended(a, "add") \/ Ended(a, "remove")
  /\ asks' = asks \ {a}
  /\ listed' = IF a.st = "failed" THEN listed ELSE IF a.op = "add" THEN listed \cup {<<a.b, a.arg>>} ELSE listed \ {<<a.b, a.arg>>}
  /\ UNCHANGED <<botServer, rows, filter, picked, chosen, shownToken, busy, detail, acts>>

\* A removed override goes from the table whatever the answer was.
ShowDenials(a) ==
  /\ a.st # "asked" /\ a.op \in {"denials", "deny", "allow"} /\ asks' = asks \ {a}
  /\ detail' = IF ~a.live \/ (a.st = "failed" /\ a.op # "allow") THEN detail
               ELSE [detail EXCEPT !.denied = CASE a.op = "denials" -> a.ans [] a.op = "deny" -> @ \cup {a.arg}
                                                [] a.op = "allow" -> @ \ {a.arg}]
  /\ UNCHANGED <<panelOnly, acts>>

\* Nothing is chosen any more, whichever bot was by now.
BotDeleted(a) ==
  /\ Ended(a, "delete")
  /\ IF a.st = "failed" THEN asks' = asks \ {a} /\ UNCHANGED <<rows, listed, chosen, detail>>
     ELSE Draw(Restored(rows, DOMAIN rows \ {a.b}), NoBot, asks \ {a}) /\ listed' = {p \in listed : p[1] # a.b}
  /\ UNCHANGED <<botServer, filter, picked, shownToken, busy, acts>>

LoadFailed(a) ==
  /\ a.op = "load" /\ a.st = "failed" /\ asks' = asks \ {a}
  /\ UNCHANGED <<panelOnly, detail, acts>>

(***************************************************************************)
(* Specification                                                           *)
(***************************************************************************)
Used ==
  \/ \E q \in Filters : Filter(q)
  \/ \E b \in Fleet \cup {NoBot} : Select(b)
  \/ \E bs \in SUBSET Fleet : TickBoxes(bs)
  \/ \E k \in Drafted, v \in Values : TypeIn(k, v)
  \/ \E k \in Direct, v \in Values : SetDirect(k, v)
  \/ \E k \in BOOLEAN : SetKeying(k)
  \/ \E p \in Places : Assign(p)
  \/ \E p \in Denials : Override(p)
  \/ \E v \in Values : Make(v)
  \/ SelectMatching \/ BulkDelete \/ SaveBasics \/ SaveRank \/ Rotate \/ Delete \/ Dismiss

Received(a) ==
  \/ ShowLoad(a) \/ Matching(a) \/ BulkDeleted(a) \/ Made(a) \/ Patched(a) \/ Keyed(a) \/ Rotated(a)
  \/ Assigned(a) \/ ShowDenials(a) \/ BotDeleted(a) \/ LoadFailed(a)

BotNext ==
  \/ Used
  \/ \E b \in Fleet : Other(b)
  \/ \E a \in asks : ServeBots(a) \/ Received(a)

BotSpec == BotInit /\ [][BotNext]_botVars

(***************************************************************************)
(* Properties                                                              *)
(***************************************************************************)
\* "Save" would write no field of the bot but those this administrator typed
\* since the panel last took its row's values (saveBasics compares the drafts
\* with a row that answers replace): it reverts nobody else's change.
OnlyEdited == Open => Unsaved \subseteq detail.typed
=============================================================================
