---------------------------- MODULE MCNewcomers ----------------------------
(***************************************************************************)
(* People: one Telegram account, one address and one code with an elevated *)
(* role and room for two uses, at an instance that starts with invites and *)
(* public registration on.  The administrator acts MaxEdits times; invites *)
(* are turned off only before the account first writes (EditsBounded),     *)
(* form registrations being under way or not, since codes that wait in the *)
(* bot or in tokens multiply the states by three.                          *)
(* Or bots, on two peers, with two updates to an answer and two one-time   *)
(* keys.                                                                   *)
(***************************************************************************)
EXTENDS Registration, Bots, TLC
CONSTANTS adm, q1, q2, d1, d2
VARIABLE part  \* who joins
MCMaxUses == [c \in Codes |-> 2]
EditsBounded ==
  policy'.invites # policy.invites =>
    /\ awaiting = {}
    /\ \A k \in Tokens : tokens[k].st = "free"
    /\ \A p \in Procs : call[p].ident \notin Accounts

L(st, todo1, todo2, enc, replies, faults, ops) ==
  [st |-> st, todo |-> (q1 :> todo1 @@ q2 :> todo2), enc |-> enc, replies |-> replies,
   faults |-> faults, ops |-> ops]
MCPeers == {q1, q2}
MCDevs == {d1, d2}
Quiet == L("disabled", 0, 0, FALSE, FALSE, {}, <<>>)
(* A feed of three updates that restarts and lost answers thin out; keys,    *)
(* replies and a restart; the administrator during the first upload and      *)
(* after it.                                                                 *)
MCLoads ==
  {Quiet,
   L("disabled", 2, 1, FALSE, FALSE, {"crash", "lost", "expire"}, <<>>),
   L("pending", 1, 1, TRUE, FALSE, {}, <<>>),
   L("pending", 1, 0, TRUE, TRUE, {"crash"}, <<>>),
   L("pending", 1, 0, TRUE, FALSE, {"lost"}, <<>>),
   L("pending", 1, 0, TRUE, TRUE, {}, <<"disable", "enable">>),
   L("pending", 1, 0, TRUE, TRUE, {}, <<"rotate">>),
   L("pending", 0, 0, FALSE, FALSE, {}, <<"suspend", "suspend", "disable", "rotate">>)}

(* The passkey step is on at the start.                                      *)
NewcomersInit ==
  /\ part \in {"people", "bots"}
  /\ Init /\ policy.invites /\ policy.public /\ policy.passkey
  /\ BotsInit
  /\ part = "people" => load = Quiet

NewcomersNext ==
  /\ UNCHANGED part
  /\ \/ part = "people" /\ Next /\ UNCHANGED botVars
     \/ part = "bots" /\ BotsNext /\ UNCHANGED vars

NewcomersSpec == NewcomersInit /\ [][NewcomersNext]_<<vars, botVars, part>>
Symmetry == Permutations(Procs) \cup Permutations(Users)
=============================================================================
