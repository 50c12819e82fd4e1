----------------------------- MODULE Community -----------------------------
(***************************************************************************)
(* The moderators' office and the conversation of a topic beside it.  A    *)
(* behaviour is either one of Moderation's desks or, with desk = None, one *)
(* of TopicChat's workloads: what a verdict does to a message is one       *)
(* UPDATE that no event announces, so the tabs of TopicChat learn of it at *)
(* their next join.                                                        *)
(***************************************************************************)
EXTENDS Moderation

CONSTANTS Tabs, Members, Options, Calls, Owner, May, Keep, Stored, Polled, Workloads

VARIABLES
  rows, lastId, polls, reacts, members, lastRead, signals, viewers, proofs,
  room, conn, view, chan, calls, lapsed, jammed, sent

Chat == INSTANCE TopicChat WITH Users <- Members

ASSUME CommunityAssumption ==
  /\ Owner \in [Tabs -> Members]
  /\ Keep \in Nat
  /\ Calls = 1..Cardinality(Calls)
  /\ DOMAIN Stored \subseteq Chat!Ids /\ DOMAIN Polled \subseteq DOMAIN Stored

chatVars == <<rows, lastId, polls, reacts, members, lastRead, signals, viewers, proofs,
              room, conn, view, chan, calls, lapsed, jammed, sent>>
communityVars == <<deskVars, chatVars>>

CommunityInit ==
  /\ QueueInit /\ Chat!Init
  /\ desk = None <=> \E i \in Calls : calls[i].pc = "todo"

CommunityNext ==
  \/ desk # None /\ QueueNext /\ UNCHANGED chatVars
  \/ Chat!Next /\ UNCHANGED deskVars

CommunitySpec == CommunityInit /\ [][CommunityNext]_communityVars

ViewAgrees == Chat!ViewAgrees
=============================================================================
