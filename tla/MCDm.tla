-------------------------------- MODULE MCDm --------------------------------
(* One pair of users; how many requests overlap and fail is up to the cfg. *)
EXTENDS DmConversation, TLC
Symmetry == Permutations(Calls) \cup Permutations(Users) \cup Permutations(Convs)
=============================================================================
