---------------------------- MODULE KeyRegistry ----------------------------
(***************************************************************************)
(* What packages/db/src/data-keys.ts promises to its callers, with no      *)
(* processes, caches, locks or transactions: for each purpose there is at  *)
(* most one key, it is chosen once, and every caller is handed that key.   *)
(***************************************************************************)
CONSTANTS Purposes, KeyIds, NoKey

VARIABLES
  current,   \* the key of each purpose, NoKey until the first use
  handed     \* the <<purpose, key>> pairs callers have received

vars == <<current, handed>>

Init ==
  /\ current = [pu \in Purposes |-> NoKey]
  /\ handed = {}

\* The first use of a purpose settles its key, for good.
Settle(pu, k) ==
  /\ current[pu] = NoKey
  /\ \A other \in Purposes : current[other] # k
  /\ current' = [current EXCEPT ![pu] = k]
  /\ UNCHANGED handed

Hand(pu) ==
  /\ current[pu] # NoKey
  /\ handed' = handed \cup {<<pu, current[pu]>>}
  /\ UNCHANGED current

Next ==
  \E pu \in Purposes :
    \/ \E k \in KeyIds : Settle(pu, k)
    \/ Hand(pu)

Spec == Init /\ [][Next]_vars
=============================================================================
