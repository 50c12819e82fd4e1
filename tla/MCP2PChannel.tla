---------------------------- MODULE MCP2PChannel ----------------------------
(* The room: four tabs of three accounts, one handler at a time, one seat.  *)
(* The mesh: three views at once, or one of two that is mounted again.      *)
EXTENDS P2PChannel, TLC
CONSTANTS s1, s2, s3, s4, ua, ub, uc
MCUserOf == s1 :> ua @@ s2 :> ub @@ s3 :> uc @@ s4 :> ua
C(seats, a, b, c, drops) == [seats |-> seats, mounts |-> ua :> a @@ ub :> b @@ uc :> c, drops |-> drops]
MCNoCast == C(1, 0, 0, 0, {})
MCCasts == {MCNoCast, C(3, 1, 1, 1, {}), C(2, 1, 1, 1, {ua}), C(2, 1, 2, 0, {ua})}
=============================================================================
