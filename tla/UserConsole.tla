---------------------------- MODULE UserConsole ----------------------------
(***************************************************************************)
(* The users page of the administration, components/AdminUsersForm.tsx:    *)
(* one administrator's tab, the routes under api/admin/users behind it and *)
(* other administrators, whose changes the page is not told of.            *)
(*                                                                         *)
(* Every request is answered in its own time: an answer may find that the  *)
(* panel shows another user, or none, and that its row has gone.           *)
(***************************************************************************)
EXTENDS FiniteSets, Naturals

CONSTANTS
  Persons,    \* accounts that exist, or may be created
  Admin,      \* the one who uses the page, currentUserId
  Grades,     \* roles
  Perms,      \* permissions an override may name
  Sanctions,  \* ban and mute
  Searches,   \* what a search matches: sets of accounts
  Nobody,     \* null
  MaxClicks,  \* bounds the clicks
  MaxAway     \* a click waits until no more requests than this are under way

ASSUME UserConsoleAssumption ==
  /\ Admin \in Persons /\ Nobody \notin Persons \cup Grades
  /\ Searches \subseteq SUBSET Persons /\ MaxClicks \in Nat

VARIABLES
  accounts,  \* account -> [role, term, denied, penal], those that exist
  issued,    \* account that ever was -> number of the login link that works, 0 for none
  page,      \* account -> role, the rows listed
  slots,     \* [saving, deleting, target]: a user each, or Nobody
  forms,     \* [creating, banning]: the request of a form is under way
  panel,     \* [of, details, role, term, denied, log]
  link, linkBusy, linkError,
  calls,     \* requests under way: [id, op, u, arg, st, ans]
  clicks

pageVars == <<page, slots, forms>>
linkVars == <<link, linkBusy, linkError>>
userVars == <<accounts, issued, pageVars, panel, linkVars, calls, clicks>>

Fresh(r) == [role |-> r, term |-> FALSE, denied |-> {}, penal |-> {}]
Closed == [of |-> Nobody, details |-> Nobody, role |-> Nobody, term |-> FALSE, denied |-> {}, log |-> Nobody]
NoLink == [user |-> Nobody, n |-> 0]

UserInit ==
  /\ \E r \in Grades, us \in SUBSET Persons :
       /\ Admin \in us
       /\ accounts = [u \in us |-> Fresh(r)]
       /\ page = [u \in us |-> r]
       /\ issued = [u \in us |-> 0]
  /\ slots = [saving |-> Nobody, deleting |-> Nobody, target |-> Nobody]
  /\ forms = [creating |-> FALSE, banning |-> FALSE]
  /\ panel = Closed
  /\ link = NoLink /\ linkBusy = FALSE /\ linkError = Nobody
  /\ calls = {} /\ clicks = 0

(***************************************************************************)
(* Requests                                                                *)
(***************************************************************************)
Exists(u) == u \in DOMAIN accounts

Call(i, op, u, arg) == [id |-> i, op |-> op, u |-> u, arg |-> arg, st |-> "asked", ans |-> Nobody]

\* The requests qs, triples <<op, user, argument>>, leave the tab.
Ask(qs) == calls' = calls \cup {Call(clicks + 1, q[1], q[2], q[3]) : q \in qs}
AskAfter(c, qs) == calls' = (calls \ {c}) \cup {Call(c.id, q[1], q[2], q[3]) : q \in qs}
Click == clicks < MaxClicks /\ Cardinality(calls) <= MaxAway /\ clicks' = clicks + 1

Reply(c, ans) == calls' = (calls \ {c}) \cup {[c EXCEPT !.st = "ok", !.ans = ans]}
Refuse(c) == calls' = (calls \ {c}) \cup {[c EXCEPT !.st = "failed"]}
Asked(c, op) == c \in calls /\ c.op = op /\ c.st = "asked"
Done(c, op) == c \in calls /\ c.op = op /\ c.st = "ok"
Rejected(c, op) == c \in calls /\ c.op = op /\ c.st = "failed"
Over(c, op) == c \in calls /\ c.op = op /\ c.st \in {"ok", "failed"}
Away(c) == calls' = calls \ {c}

(***************************************************************************)
(* The routes                                                              *)
(***************************************************************************)
\* GET /api/admin/users?q=, a page of it
ServeSearch(c) ==
  /\ Asked(c, "search")
  /\ Reply(c, [u \in c.arg \cap DOMAIN accounts |-> accounts[u].role])
  /\ UNCHANGED <<accounts, issued>>

\* GET /api/admin/users/[id]
ServeDetails(c) ==
  /\ Asked(c, "details")
  /\ IF Exists(c.u) THEN Reply(c, accounts[c.u]) ELSE Refuse(c)
  /\ UNCHANGED <<accounts, issued>>

\* GET /api/admin/users/[id]/activity: the events that name the user; an
\* account that is gone has none
ServeActivity(c) ==
  /\ Asked(c, "activity")
  /\ Reply(c, IF Exists(c.u) THEN accounts[c.u].penal ELSE {})
  /\ UNCHANGED <<accounts, issued>>

\* GET .../permission-overrides
ServeOverrides(c) ==
  /\ Asked(c, "overrides")
  /\ Reply(c, IF Exists(c.u) THEN accounts[c.u].denied ELSE {})
  /\ UNCHANGED <<accounts, issued>>

\* PATCH /api/admin/users/[id]: the fields that are in the body; a row's
\* select sends the role alone, the panel its term as well
ServePatch(c) ==
  /\ Asked(c, "row") \/ Asked(c, "grade")
  /\ IF Exists(c.u)
     THEN /\ accounts' = [accounts EXCEPT ![c.u].role = c.arg.role, ![c.u].term = IF c.op = "row" THEN @ ELSE c.arg.term]
          /\ Reply(c, c.arg)
     ELSE Refuse(c) /\ UNCHANGED accounts
  /\ UNCHANGED issued

\* PUT and DELETE of an override: an upsert, or a delete of what is there
ServeOverride(c) ==
  /\ \/ Asked(c, "put") /\ Exists(c.u) /\ accounts' = [accounts EXCEPT ![c.u].denied = @ \cup {c.arg}]
     \/ Asked(c, "drop") /\ Exists(c.u) /\ accounts' = [accounts EXCEPT ![c.u].denied = @ \ {c.arg}]
     \/ (Asked(c, "put") \/ Asked(c, "drop")) /\ ~Exists(c.u) /\ UNCHANGED accounts
  /\ Reply(c, c.arg)
  /\ UNCHANGED issued

\* POST /api/admin/ban and /api/admin/mute
ServeSanction(c) ==
  /\ Asked(c, "sanction")
  /\ IF Exists(c.u)
     THEN accounts' = [accounts EXCEPT ![c.u].penal = @ \cup {c.arg}] /\ Reply(c, c.arg)
     ELSE Refuse(c) /\ UNCHANGED accounts
  /\ UNCHANGED issued

\* DELETE /api/admin/users/[id]: nothing to find is no error
ServeDelete(c) ==
  /\ Asked(c, "delete")
  /\ accounts' = [u \in DOMAIN accounts \ {c.u} |-> accounts[u]]
  /\ issued' = [issued EXCEPT ![c.u] = 0]
  /\ Reply(c, c.u)

\* POST /api/admin/users/[id]/login-link: a new link replaces the user's last,
\* unless that was issued moments ago and is given again
ServeLink(c) ==
  /\ Asked(c, "link")
  /\ IF Exists(c.u)
     THEN \E n \in {issued[c.u], issued[c.u] + 1} \ {0} : issued' = [issued EXCEPT ![c.u] = n] /\ Reply(c, n)
     ELSE Refuse(c) /\ UNCHANGED issued
  /\ UNCHANGED accounts

\* POST /api/admin/users
ServeCreate(c) ==
  /\ Asked(c, "create")
  /\ \E u \in Persons \ DOMAIN issued :
       /\ accounts' = [v \in DOMAIN accounts \cup {u} |-> IF v = u THEN Fresh(c.arg) ELSE accounts[v]]
       /\ issued' = [v \in DOMAIN issued \cup {u} |-> IF v = u THEN 0 ELSE issued[v]]
       /\ Reply(c, u)

\* A proxy, the database or the session refuses.
ServeError(c) ==
  /\ c.st = "asked" /\ Refuse(c)
  /\ UNCHANGED <<accounts, issued>>

\* Another administrator gives a role, or deletes an account.
OtherAdmin(u) ==
  /\ Exists(u) /\ clicks < MaxClicks /\ clicks' = clicks + 1
  /\ \/ /\ \E r \in Grades \ {accounts[u].role} : accounts' = [accounts EXCEPT ![u].role = r]
        /\ UNCHANGED issued
     \/ /\ u # Admin
        /\ accounts' = [v \in DOMAIN accounts \ {u} |-> accounts[v]] /\ issued' = [issued EXCEPT ![u] = 0]
  /\ UNCHANGED <<pageVars, panel, linkVars, calls>>

Serve(c) ==
  /\ \/ ServeSearch(c) \/ ServeDetails(c) \/ ServeActivity(c) \/ ServeOverrides(c) \/ ServePatch(c)
     \/ ServeOverride(c) \/ ServeSanction(c) \/ ServeDelete(c) \/ ServeLink(c) \/ ServeCreate(c) \/ ServeError(c)
  /\ UNCHANGED <<pageVars, panel, linkVars, clicks>>

(***************************************************************************)
(* The rows                                                                *)
(***************************************************************************)
Busy(u) == u \in {slots.saving, slots.deleting}

Search(q) ==
  /\ Click /\ Ask({<<"search", Nobody, q>>})
  /\ UNCHANGED <<accounts, issued, pageVars, panel, linkVars>>

\* Answers replace the list in the order in which they arrive.
ShowSearch(c) ==
  /\ Done(c, "search") /\ Away(c) /\ page' = c.ans
  /\ UNCHANGED <<accounts, issued, slots, forms, panel, linkVars, clicks>>

\* setRole, from the select of a row that is not the administrator's own; its
\* name is saved the same way
SetRole(u, r) ==
  /\ u \in DOMAIN page \ {Admin} /\ ~Busy(u) /\ page[u] # r
  /\ Click /\ slots' = [slots EXCEPT !.saving = u]
  /\ Ask({<<"row", u, [role |-> r]>>})
  /\ UNCHANGED <<accounts, issued, page, forms, panel, linkVars>>

\* The one slot is emptied, whichever row it names by now.
RoleSet(c) ==
  /\ Over(c, "row") /\ Away(c)
  /\ page' = IF c.st = "ok" /\ c.u \in DOMAIN page THEN [page EXCEPT ![c.u] = c.arg.role] ELSE page
  /\ slots' = [slots EXCEPT !.saving = Nobody]
  /\ UNCHANGED <<accounts, issued, forms, panel, linkVars, clicks>>

DeleteAccount(u) ==
  /\ u \in DOMAIN page \ {Admin} /\ ~Busy(u)
  /\ Click /\ slots' = [slots EXCEPT !.deleting = u]
  /\ Ask({<<"delete", u, Nobody>>})
  /\ UNCHANGED <<accounts, issued, page, forms, panel, linkVars>>

AccountDeleted(c) ==
  /\ Over(c, "delete") /\ Away(c)
  /\ page' = IF c.st = "ok" THEN [u \in DOMAIN page \ {c.u} |-> page[u]] ELSE page
  /\ slots' = [slots EXCEPT !.deleting = Nobody]
  /\ UNCHANGED <<accounts, issued, forms, panel, linkVars, clicks>>

\* The form of a ban or mute; other rows' buttons stay live while it is sent.
Target(u) ==
  /\ u \in (DOMAIN page \ {Admin}) \cup {Nobody} /\ u # slots.target
  /\ u # Nobody => ~Busy(u)
  /\ slots' = [slots EXCEPT !.target = u]
  /\ UNCHANGED <<accounts, issued, page, forms, panel, linkVars, calls, clicks>>

ApplyBan(kind) ==
  /\ slots.target # Nobody /\ ~forms.banning
  /\ Click /\ forms' = [forms EXCEPT !.banning = TRUE]
  /\ Ask({<<"sanction", slots.target, kind>>})
  /\ UNCHANGED <<accounts, issued, page, slots, panel, linkVars>>

\* The form that is open by now is closed.
BanApplied(c) ==
  /\ Over(c, "sanction") /\ Away(c) /\ forms' = [forms EXCEPT !.banning = FALSE]
  /\ slots' = IF c.st = "ok" THEN [slots EXCEPT !.target = Nobody] ELSE slots
  /\ UNCHANGED <<accounts, issued, page, panel, linkVars, clicks>>

(***************************************************************************)
(* The panel                                                               *)
(***************************************************************************)
\* openDetails, and the effect of a new detailsUserId, which clears what is
\* shown of a link and reads the activity once more
Cleared(u) ==
  IF u = panel.of THEN UNCHANGED linkVars
  ELSE link' = NoLink /\ linkBusy' = FALSE /\ linkError' = Nobody

Opening(u) == [Closed EXCEPT !.of = u]
Reads(u) == {<<"details", u, Nobody>>, <<"activity", u, Nobody>>}

OpenDetails(u) ==
  /\ u \in DOMAIN page
  /\ Click /\ Ask(Reads(u)) /\ panel' = [Opening(u) EXCEPT !.role = panel.role, !.term = panel.term]
  /\ Cleared(u)
  /\ UNCHANGED <<accounts, issued, pageVars>>

\* Only the target and the activity are reset.
CloseDetails ==
  /\ panel.of # Nobody /\ panel' = [panel EXCEPT !.of = Nobody, !.log = Nobody]
  /\ Cleared(Nobody)
  /\ UNCHANGED <<accounts, issued, pageVars, calls, clicks>>

\* Whoever the panel is about by now: details, the form of the role, and the
\* overrides, which are asked for next
ShowDetails(c) ==
  /\ Done(c, "details")
  /\ panel' = [panel EXCEPT !.details = c.u, !.role = c.ans.role, !.term = c.ans.term]
  /\ AskAfter(c, {<<"overrides", c.u, Nobody>>})
  /\ UNCHANGED <<accounts, issued, pageVars, linkVars, clicks>>

ShowOverrides(c) ==
  /\ Done(c, "overrides") /\ Away(c) /\ panel' = [panel EXCEPT !.denied = c.ans]
  /\ UNCHANGED <<accounts, issued, pageVars, linkVars, clicks>>

ShowActivity(c) ==
  /\ Done(c, "activity") /\ Away(c) /\ panel' = [panel EXCEPT !.log = c.ans]
  /\ UNCHANGED <<accounts, issued, pageVars, linkVars, clicks>>

\* A read that fails leaves the panel without details or activity.
ReadFailed(c) ==
  /\ \E op \in {"search", "details", "activity", "overrides", "put"} : Rejected(c, op)
  /\ Away(c)
  /\ panel' = IF c.op = "activity" THEN [panel EXCEPT !.log = {}] ELSE panel
  /\ UNCHANGED <<accounts, issued, pageVars, linkVars, clicks>>

Shows == panel.of # Nobody /\ panel.details # Nobody

\* "Save role" and "Clear expiry" write the form to the panel's user.
ChooseRole(r, term) ==
  /\ Shows /\ <<r, term>> # <<panel.role, panel.term>>
  /\ panel' = [panel EXCEPT !.role = r, !.term = term]
  /\ UNCHANGED <<accounts, issued, pageVars, linkVars, calls, clicks>>

SaveGrade ==
  /\ Shows /\ Click
  /\ Ask({<<"grade", panel.of, [role |-> panel.role, term |-> panel.term]>>})
  /\ UNCHANGED <<accounts, issued, pageVars, panel, linkVars>>

GradeSaved(c) ==
  /\ Over(c, "grade") /\ Away(c)
  /\ UNCHANGED <<accounts, issued, pageVars, panel, linkVars, clicks>>

EditOverride(op, p) ==
  /\ Shows /\ (op = "drop" => p \in panel.denied)
  /\ Click /\ Ask({<<op, panel.of, p>>})
  /\ UNCHANGED <<accounts, issued, pageVars, panel, linkVars>>

\* A drop counts as done whatever its answer.
OverrideEdited(c) ==
  /\ Done(c, "put") \/ Over(c, "drop")
  /\ Away(c)
  /\ panel' = [panel EXCEPT !.denied = IF c.op = "put" THEN @ \cup {c.arg} ELSE @ \ {c.arg}]
  /\ UNCHANGED <<accounts, issued, pageVars, linkVars, clicks>>

(***************************************************************************)
(* Login links                                                             *)
(***************************************************************************)
\* generateLoginLink from the panel; its button waits for loginLinkBusy
Generate ==
  /\ Shows /\ ~linkBusy
  /\ Click /\ Ask({<<"link", panel.of, Nobody>>})
  /\ linkBusy' = TRUE /\ linkError' = Nobody
  /\ UNCHANGED <<accounts, issued, pageVars, panel, link>>

\* Mutant of LinkAnswer: no comparison with detailsUserIdRef.
LinkAnyway(c) ==
  /\ Over(c, "link") /\ Away(c)
  /\ linkBusy' = FALSE
  /\ IF c.st = "ok" THEN link' = [user |-> c.u, n |-> c.ans] /\ UNCHANGED linkError
     ELSE linkError' = c.u /\ UNCHANGED link
  /\ UNCHANGED <<accounts, issued, pageVars, panel, clicks>>

\* The answer is dropped unless the panel is still, or again, about its user.
LinkAnswer(c) ==
  /\ Over(c, "link") /\ Away(c)
  /\ IF panel.of # c.u THEN UNCHANGED linkVars
     ELSE /\ linkBusy' = FALSE
          /\ IF c.st = "ok" THEN link' = [user |-> c.u, n |-> c.ans] /\ UNCHANGED linkError
             ELSE linkError' = c.u /\ UNCHANGED link
  /\ UNCHANGED <<accounts, issued, pageVars, panel, clicks>>

(***************************************************************************)
(* New users                                                               *)
(***************************************************************************)
CreateAccount(r) ==
  /\ ~forms.creating
  /\ Click /\ forms' = [forms EXCEPT !.creating = TRUE]
  /\ Ask({<<"create", Nobody, r>>})
  /\ UNCHANGED <<accounts, issued, page, slots, panel, linkVars>>

\* The stub row comes first, its panel opens, and a link is minted for it; the
\* effect of the new target runs after loginLinkBusy was set, and clears it.
AccountCreated(c) ==
  /\ Done(c, "create")
  /\ page' = [u \in DOMAIN page \cup {c.ans} |-> IF u = c.ans THEN c.arg ELSE page[u]]
  /\ panel' = [Opening(c.ans) EXCEPT !.role = panel.role, !.term = panel.term]
  /\ AskAfter(c, Reads(c.ans) \cup {<<"link", c.ans, Nobody>>})
  /\ IF c.ans = panel.of THEN linkBusy' = TRUE /\ linkError' = Nobody /\ UNCHANGED link
     ELSE Cleared(c.ans)
  /\ forms' = [forms EXCEPT !.creating = FALSE]
  /\ UNCHANGED <<accounts, issued, slots, clicks>>

CreateFailed(c) ==
  /\ Rejected(c, "create") /\ Away(c)
  /\ forms' = [forms EXCEPT !.creating = FALSE]
  /\ UNCHANGED <<accounts, issued, page, slots, panel, linkVars, clicks>>

(***************************************************************************)
(* Specification                                                           *)
(***************************************************************************)
Clicked ==
  \/ \E q \in Searches : Search(q)
  \/ \E u \in Persons : OpenDetails(u) \/ DeleteAccount(u) \/ OtherAdmin(u) \/ \E r \in Grades : SetRole(u, r)
  \/ \E u \in Persons \cup {Nobody} : Target(u)
  \/ \E kind \in Sanctions : ApplyBan(kind)
  \/ \E r \in Grades, term \in BOOLEAN : ChooseRole(r, term)
  \/ \E op \in {"put", "drop"}, p \in Perms : EditOverride(op, p)
  \/ \E r \in Grades : CreateAccount(r)
  \/ CloseDetails \/ SaveGrade \/ Generate

Answered(c) ==
  \/ ShowSearch(c) \/ RoleSet(c) \/ AccountDeleted(c) \/ BanApplied(c) \/ ShowDetails(c) \/ ShowOverrides(c)
  \/ ShowActivity(c) \/ ReadFailed(c) \/ GradeSaved(c) \/ OverrideEdited(c) \/ LinkAnswer(c) \/ AccountCreated(c)
  \/ CreateFailed(c)

UserNext == Clicked \/ \E c \in calls : Serve(c) \/ Answered(c)

UserSpec == UserInit /\ [][UserNext]_userVars

(***************************************************************************)
(* Properties                                                              *)
(***************************************************************************)
\* "A link generated for user A must not survive into user B's panel" (:357),
\* nor an error or a spinner: what is shown of a login link, whatever answers
\* are still to come, is of the user the panel is about.
LinkHere ==
  /\ link # NoLink => link.user = panel.of
  /\ linkError # Nobody => linkError = panel.of
  /\ linkBusy => \E c \in calls : c.op = "link" /\ c.u = panel.of
=============================================================================
