----------------------------- MODULE MCStorage -----------------------------
(* Two purposes, two processes with a call each, and the world inserting.   *)
(* Or up to three files and two messages, one of them a direct one.         *)
EXTENDS Storage, TLC
CONSTANTS c1, c2, p1, p2, f1, f2, f3, m1, m2
MCProcOf == c1 :> p1 @@ c2 :> p2
Photo == [bucket |-> "uploads", declared |-> "jpeg", container |-> "jpeg", kinds |-> {"exif", "icc"}, whole |-> TRUE,
          keep |-> FALSE, raw |-> FALSE, may |-> {"attach"}, size |-> 1]
Sized(n) == [Photo EXCEPT !.size = n]
S(p, stored, msgs, col, turns, n) ==
  [pick |-> p, stored |-> stored, msgs |-> msgs, column |-> col, turns |-> turns, faults |-> n]
Alone(p) == S(f1 :> p, <<>>, {}, FALSE, FALSE, 0)
Two == f1 :> Sized(1) @@ f2 :> Sized(1)
Three == Two @@ f3 :> Sized(1)
MCFleet == S(<<>>, <<>>, {}, FALSE, FALSE, 0)
MCScenes == {
  MCFleet,
  (* the caps                                                                *)
  S(f1 :> Sized(2) @@ f2 :> Sized(2) @@ f3 :> Sized(1), <<>>, {}, FALSE, TRUE, 1),
  (* the kinds of file                                                       *)
  Alone([Photo EXCEPT !.raw = TRUE]),
  Alone([Photo EXCEPT !.keep = TRUE]),
  Alone([Photo EXCEPT !.keep = TRUE, !.may = {"attach", "original"}]),
  (* references and the sweep                                                *)
  S(Two, <<f1>>, {m1}, TRUE, FALSE, 0),
  S(Two, <<f1, f2>>, {m1, m2}, FALSE, FALSE, 1),
  S(Three, <<f1, f2, f3>>, {}, FALSE, FALSE, 0),
  S(Two, <<f1, f2>>, {m2}, TRUE, FALSE, 0)}
=============================================================================
