------------------------------- MODULE MCE2ee -------------------------------
(* Either a to-device request, put twice at once and again after failures,   *)
(* to two devices, one of which polls, at times twice at once; or one tab of *)
(* user a, and users b and c with a device each: b may publish a second      *)
(* device, c may join or be banned, d is an admin outside the topic.         *)
EXTENDS ToDevice, RoomKeys
CONSTANTS a, b, c, a1, b1, b2, c1
VARIABLE part  \* what this behaviour is about
MCUserOf == a1 :> a @@ b1 :> b @@ b2 :> b @@ c1 :> c
Op(o) == [op |-> o, who |-> a, dev |-> a1, dk |-> FALSE]
Do(o, u) == [op |-> o, who |-> u, dev |-> a1, dk |-> FALSE]
Pub(d, k) == [op |-> "publish", who |-> a, dev |-> d, dk |-> k]
L(rs, n) == [reqs |-> rs, losses |-> n]
MCWorkloads == {
  L(<<Op("send"), Do("ban", c), Op("edit")>>, 0),
  L(<<Do("ban", c), Op("event"), Op("send"), Op("send")>>, 0),
  L(<<Op("send"), Do("ban", c), Op("send")>>, 1),
  L(<<Do("join", c), Op("send"), Op("event")>>, 0),
  L(<<Op("send"), Pub(b2, TRUE), Op("poll")>>, 0),
  L(<<Pub(b2, TRUE), Op("poll"), Op("edit")>>, 1),
  L(<<Op("poll"), Op("poll"), Op("edit")>>, 0),
  L(<<Pub(b2, TRUE), Pub(b1, FALSE), Op("send"), Op("edit")>>, 0),
  L(<<Do("dm", b), Pub(b2, TRUE), Op("poll"), Do("dm", b)>>, 0)}

e2eeVars == <<vars, keysVars, part>>

E2eeInit ==
  /\ part \in {"queue", "keys"} /\ Init /\ KeysInit
  /\ part = "queue" => At(4, "todo") /\ calls[4].op = "dm"

E2eeNext ==
  /\ UNCHANGED part
  /\ \/ part = "queue" /\ Next /\ UNCHANGED keysVars
     \/ part = "keys" /\ KeysNext /\ UNCHANGED vars

E2eeSpec == E2eeInit /\ [][E2eeNext]_e2eeVars
=============================================================================
