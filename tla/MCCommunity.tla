----------------------------- MODULE MCCommunity -----------------------------
(* Two tabs of one account and one of another; each workload is a few       *)
(* requests whose handlers overlap in every order.  Or a moderator's tab    *)
(* and three requests of the office, about the messages of one author.      *)
EXTENDS Community, TLC
CONSTANTS a1, a2, b1, ua, ub, o1, o2, j1, j2, j3, r1, r2
MCOwner == a1 :> ua @@ a2 :> ua @@ b1 :> ub
MCMay == [p \in {"post", "editOwn", "deleteOwn"} |-> {ua, ub}]
         @@ [p \in {"poll", "editAny", "deleteAny"} |-> {ub}]
MCStored == 1 :> [by |-> ua, text |-> 0, gone |-> FALSE] @@ 2 :> [by |-> ub, text |-> 0, gone |-> FALSE]
MCPolled == 2 :> [closed |-> FALSE, multi |-> FALSE, votes |-> {}]
R(t, o, m) == [tab |-> t, op |-> o, id |-> m, opt |-> {}]
V(t, m, os) == [tab |-> t, op |-> "vote", id |-> m, opt |-> os]
MCWorkloads == {
  <<>>,
  <<R(a1, "send", 0), R(b1, "send", 0), R(b1, "delete", 1)>>,
  <<R(a1, "send", 0), R(a2, "join", 0)>>,
  <<R(b1, "delete", 1), R(a2, "join", 0), R(a2, "leave", 0), R(a2, "join", 0)>>,
  <<R(a1, "react", 1), R(a2, "react", 1), R(b1, "edit", 1)>>,
  <<V(a1, 2, {o1}), V(b1, 2, {o2}), R(b1, "close", 2)>>,
  <<R(b1, "poll", 0), R(a1, "send", 0), R(a1, "read", 1)>>,
  <<R(b1, "poll", 0), R(a1, "sweep", 0), R(a1, "edit", 1)>>,
  <<R(a1, "withdraw", 0), R(a1, "prove", 0), R(a1, "join", 0), R(a2, "join", 0)>>,
  <<R(a1, "edit", 1), R(b1, "edit", 1), R(a2, "join", 0)>>,
  <<R(a1, "edit", 1), R(b1, "delete", 1), R(b1, "react", 1)>>,
  <<V(a1, 2, {o1}), V(a2, 2, {o2}), R(b1, "sweep", 0)>>}
Task0 == [op |-> "none", user |-> ua, act |-> "dismiss", may |-> TRUE, here |-> FALSE]
Report(u) == [Task0 EXCEPT !.op = "report", !.user = u]
Judge(a, may, here) == [Task0 EXCEPT !.op = "review", !.act = a, !.may = may, !.here = here]
Ask(op) == [Task0 EXCEPT !.op = op]
Desk0 == [jobs |-> (j1 :> Task0 @@ j2 :> Task0 @@ j3 :> Task0), notes |-> 0, drops |-> 0, opens |-> 0,
          faults |-> FALSE, panes |-> 0, joins |-> FALSE]
D(a, b, c) == [Desk0 EXCEPT !.jobs = (j1 :> a @@ j2 :> b @@ j3 :> c)]
MCDesks == {
  None,
  (* the bell                                                                *)
  [Desk0 EXCEPT !.notes = 3, !.drops = 1, !.opens = 2],
  [Desk0 EXCEPT !.notes = 2, !.drops = 1, !.opens = 1, !.faults = TRUE],
  (* verdicts, one of them from the open queue; a request that fails         *)
  [D(Report(ua), Judge("dismiss", TRUE, FALSE), Judge("ban", TRUE, TRUE)) EXCEPT !.panes = 1],
  [D(Report(ua), Judge("delete", TRUE, FALSE), Judge("dismiss", TRUE, FALSE)) EXCEPT !.faults = TRUE],
  [D(Report(ua), Report(ua), Task0) EXCEPT !.panes = 1, !.drops = 1],
  D(Report(None), Judge("mute", TRUE, FALSE), Judge("ban", FALSE, FALSE)),
  (* sanctions and the rooms of their user                                   *)
  [D(Ask("ban"), Ask("lift"), Ask("ban")) EXCEPT !.joins = TRUE],
  [D(Ask("ban"), Ask("mute"), Ask("lift")) EXCEPT !.joins = TRUE]}
=============================================================================
