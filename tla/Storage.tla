------------------------------ MODULE Storage ------------------------------
(***************************************************************************)
(* What packages/db keeps for every process: the data keys and the ledger  *)
(* of uploads.  The sweep reads a body through getDataKeyById; a key that  *)
(* cannot be had is one of the failures that end a sweep, so that nothing  *)
(* else passes between the two.  A behaviour is either the fleet at work   *)
(* on its keys (scene = Fleet) or one of the scenes of Uploads.            *)
(***************************************************************************)
EXTENDS DataKeys, Naturals, Sequences

CONSTANTS Files, Msgs, Dms, DayBytes, Quota, Batch, Scenes, NoFile, Fleet

ASSUME StorageAssumption ==
  /\ Fleet \in Scenes /\ Dms \subseteq Msgs /\ NoFile \notin Files \cup Msgs /\ Files \cap Msgs = {}
  /\ \A s \in Scenes : /\ s.stored \in Seq(Files)
                       /\ \A i, j \in DOMAIN s.stored : s.stored[i] = s.stored[j] => i = j
  /\ DayBytes \in Nat /\ Quota \in Nat /\ Batch \in Nat \ {0}

VARIABLES scene, up, day, volume, disk, log, dead, old, column, msg, sweep, late, faults

Media == INSTANCE Uploads

mediaVars == <<scene, up, day, volume, disk, log, dead, old, column, msg, sweep, late, faults>>
storageVars == <<vars, mediaVars>>

StorageInit == Init /\ Media!Init

StorageNext ==
  \/ scene = Fleet /\ Next /\ UNCHANGED mediaVars
  \/ scene # Fleet /\ Media!Next /\ UNCHANGED vars

StorageSpec ==
  /\ StorageInit /\ [][StorageNext]_storageVars
  /\ Fairness /\ Media!Fairness

KeptWhileShown == Media!KeptWhileShown
VolumeCapped == Media!VolumeCapped
OrphansReclaimed == Media!OrphansReclaimed
=============================================================================
