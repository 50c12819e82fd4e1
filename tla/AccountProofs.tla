--------------------------- MODULE AccountProofs ----------------------------
(***************************************************************************)
(* The ways into an account, and what it may do                            *)
(*                                                                         *)
(* A second factor opens one session, for any requests, workloads, sizes   *)
(* of a set of recovery codes and length of the clock.  FactorSpentOnce is *)
(* about logins that are done; EachOnce says it of every login whose factor*)
(* has been accepted, and rests on what a store still knows of it: a       *)
(* recovery code is used up or its set was replaced (UsedUp), digits are   *)
(* remembered for as long as they verify (Kept).  That a set never comes   *)
(* back is SetIssued and the second half of Form: sets are named after the *)
(* request that issued them, which is over.  InTime bounds the clock at the*)
(* SET of the digits: the three steps they are remembered for outlast them.*)
(*                                                                         *)
(* A passkey attempt is not turned down because of the tab's cookie, for   *)
(* any number of GETs and clicks.  ChallengeMatches speaks of a result;    *)
(* Together says of an attempt under way that the options it signs and the *)
(* cookie it will send stand for one challenge, since nothing else is      *)
(* fetched meanwhile (Answering: a GET on its way is the attempt's own or  *)
(* the one prefetch, which busy shows), and Ahead that the authenticator's *)
(* counter is past the one on file.                                        *)
(*                                                                         *)
(* Administration: roles, topics, users and the tokens their changes       *)
(* revoke, for any workload of administrators' requests and sign-ins, one  *)
(* after the other or overlapping.                                         *)
(*                                                                         *)
(* TokensCurrent speaks of the rest between requests and is not inductive. *)
(* On the way, a token that carries other rights than its user has is one  *)
(* a request still has to revoke: the request owes its user a revocation   *)
(* (Owes), or has read the token's row and is about to block it (Caught);  *)
(* a sign-in under way that has read its rights before they changed is as  *)
(* well covered (MintsCovered). RowsKept and FreshIds say that a token     *)
(* nobody can find by its row is in torn.                                  *)
(*                                                                         *)
(* PermsFollowTopics is not inductive either: a request writes the         *)
(* permissions and the lists one statement at a time. Mid says of each     *)
(* request at work, by the statement it comes to, in what the two differ,  *)
(* and that its remaining statements will settle just that. While odd is   *)
(* empty there is one such request (Serial).                               *)
(***************************************************************************)
EXTENDS Accounts, TopicAdmin, Integers, SequenceTheorems, TLAPS

(***************************************************************************)
(* The statements a request may have before it                             *)
(*                                                                         *)
(* For each operation what is left of its handler at each point, and what  *)
(* the next statement leaves.                                              *)
(***************************************************************************)
TopicSteps == {"existing", "clearHome", "wipe", "oldSlug", "dropOld", "renamePerms",
               "updateTopic", "dropNew", "syncPerms"}
Renames(b, ex) == Asks(b, "slug") /\ b.slug # ex.slug
SyncPart(b) == IF DOMAIN b \cap Acts # {} THEN <<"dropNew", "syncPerms">> ELSE <<>>
UpdatePart(b) == First("updateTopic", SyncPart(b))
RenamePart(b) == First("renamePerms", UpdatePart(b))
DropPart(b) == First("dropOld", RenamePart(b))
OldPart(b) == First("oldSlug", DropPart(b))
RestPart(b, ex) == IF Renames(b, ex) THEN OldPart(b) ELSE UpdatePart(b)
WipePart(b, ex) == First("wipe", RestPart(b, ex))
(* Where a topicPatch of the body b, which found the row ex, may be.          *)
PatchStart(b, ex, p) ==
  p \in {RestPart(b, ex), WipePart(b, ex), First("clearHome", RestPart(b, ex)), First("clearHome", WipePart(b, ex))}
TopicAt(b, ex, p) ==
  \/ p \in {<<>>, <<"existing">>, <<"syncPerms">>, SyncPart(b), UpdatePart(b)}
  \/ Renames(b, ex) /\ p \in {RenamePart(b), DropPart(b)}
  \/ PatchStart(b, ex, p)
TopicCreatePoints ==
  {<<"insertTopic">>, <<>>}
TopicDeletePoints ==
  {<<"slugOf", "dropPerms", "dropTopic">>, <<"dropPerms", "dropTopic">>, <<"dropTopic">>, <<>>}
BulkDeletePoints ==
  {<<"slugsOf", "dropAll">>, <<"dropAll">>, <<>>}
GrantPutPoints ==
  {<<"grant">>, <<>>}
GrantDeletePoints ==
  {<<"ungrant">>, <<>>}
RoleCreatePoints ==
  {<<"exists", "insertRole", "clone", "insertPerms">>, <<"insertRole", "clone", "insertPerms">>,
   <<"clone", "insertPerms">>, <<"insertPerms">>, <<>>}
RolePatchPoints ==
  {<<"oldPerms", "deletePerms", "insertPerms", "syncRead", "usersOf", "sessionsOf", "block", "close">>,
   <<"deletePerms", "insertPerms", "syncRead", "usersOf", "sessionsOf", "block", "close">>,
   <<"insertPerms", "syncRead", "usersOf", "sessionsOf", "block", "close">>,
   <<"syncRead", "usersOf", "sessionsOf", "block", "close">>, <<"usersOf", "sessionsOf", "block", "close">>,
   <<"sessionsOf", "block", "close">>, <<"block", "close">>, <<"close">>, <<>>,
   First("syncWrite", <<"syncRead", "usersOf", "sessionsOf", "block", "close">>)}
RoleDeletePoints ==
  {<<"roleRow", "usersOf", "sessionsOf", "block", "close", "deletePerms", "deleteRole">>,
   <<"usersOf", "sessionsOf", "block", "close", "deletePerms", "deleteRole">>,
   <<"sessionsOf", "block", "close", "deletePerms", "deleteRole">>,
   <<"block", "close", "deletePerms", "deleteRole">>, <<"close", "deletePerms", "deleteRole">>,
   <<"deletePerms", "deleteRole">>, <<"deleteRole">>, <<>>}
UserCreatePoints ==
  {<<"insertUser">>, <<>>}
UserPatchPoints ==
  {<<"prior", "updateUser", "sessionsOf", "block", "close">>, <<"updateUser", "sessionsOf", "block", "close">>,
   <<"sessionsOf", "block", "close">>, <<"block", "close">>, <<"close">>, <<>>}
UserDeletePoints ==
  {<<"sessionsOf", "block", "close", "deleteUser">>, <<"block", "close", "deleteUser">>,
   <<"close", "deleteUser">>, <<"deleteUser">>, <<>>}
OverridePutPoints ==
  {<<"override", "sessionsOf", "block", "close">>, <<"sessionsOf", "block", "close">>, <<"block", "close">>,
   <<"close">>, <<>>}
OverrideDeletePoints ==
  {<<"unoverride", "sessionsOf", "block", "close">>, <<"sessionsOf", "block", "close">>, <<"block", "close">>,
   <<"close">>, <<>>}
LoginPoints ==
  {<<"profile", "permissions", "session">>, <<"permissions", "session">>, <<"session">>, <<>>}
LoadPoints ==
  {<<"load">>, <<>>}
AtPoint(op, p) ==
  /\ op = "topicCreate" => p \in TopicCreatePoints
  /\ op = "topicDelete" => p \in TopicDeletePoints
  /\ op = "bulkDelete" => p \in BulkDeletePoints
  /\ op = "grantPut" => p \in GrantPutPoints
  /\ op = "grantDelete" => p \in GrantDeletePoints
  /\ op = "roleCreate" => p \in RoleCreatePoints
  /\ op = "rolePatch" => p \in RolePatchPoints
  /\ op = "roleDelete" => p \in RoleDeletePoints
  /\ op = "userCreate" => p \in UserCreatePoints
  /\ op = "userPatch" => p \in UserPatchPoints
  /\ op = "userDelete" => p \in UserDeletePoints
  /\ op = "overridePut" => p \in OverridePutPoints
  /\ op = "overrideDelete" => p \in OverrideDeletePoints
  /\ op = "login" => p \in LoginPoints
  /\ op = "load" => p \in LoadPoints

LEMMA FirstFacts ==
  ASSUME NEW T, NEW x \in T, NEW s \in Seq(T)
  PROVE  First(x, s) \in Seq(T) /\ First(x, s) # <<>> /\ Head(First(x, s)) = x /\ Tail(First(x, s)) = s
  BY ConcatProperties, HeadTailProperties DEF First

LEMMA TopicCreateMoves ==
  ASSUME NEW p \in TopicCreatePoints, p # <<>>
  PROVE  \/ Head(p) = "insertTopic" /\ p = <<"insertTopic">> /\ Tail(p) = <<>>
  <1>1. p = <<"insertTopic">>
    BY DEF TopicCreatePoints
  <1> QED BY <1>1

LEMMA TopicDeleteMoves ==
  ASSUME NEW p \in TopicDeletePoints, p # <<>>
  PROVE  \/ /\ Head(p) = "slugOf"
            /\ p = <<"slugOf", "dropPerms", "dropTopic">>
            /\ Tail(p) = <<"dropPerms", "dropTopic">>
         \/ Head(p) = "dropPerms" /\ p = <<"dropPerms", "dropTopic">> /\ Tail(p) = <<"dropTopic">>
         \/ Head(p) = "dropTopic" /\ p = <<"dropTopic">> /\ Tail(p) = <<>>
  <1>1. CASE p = <<"slugOf", "dropPerms", "dropTopic">>
    <2>1. /\ Head(<<"slugOf", "dropPerms", "dropTopic">>) = "slugOf"
          /\ Tail(<<"slugOf", "dropPerms", "dropTopic">>) = <<"dropPerms", "dropTopic">>
      OBVIOUS
    <2> QED BY <1>1, <2>1
  <1>2. CASE p = <<"dropPerms", "dropTopic">>
    <2>1. Head(<<"dropPerms", "dropTopic">>) = "dropPerms" /\ Tail(<<"dropPerms", "dropTopic">>) = <<"dropTopic">>
      OBVIOUS
    <2> QED BY <1>2, <2>1
  <1>3. CASE p = <<"dropTopic">>
    <2>1. Head(<<"dropTopic">>) = "dropTopic" /\ Tail(<<"dropTopic">>) = <<>>
      OBVIOUS
    <2> QED BY <1>3, <2>1
  <1> QED BY <1>1, <1>2, <1>3 DEF TopicDeletePoints

LEMMA BulkDeleteMoves ==
  ASSUME NEW p \in BulkDeletePoints, p # <<>>
  PROVE  \/ Head(p) = "slugsOf" /\ p = <<"slugsOf", "dropAll">> /\ Tail(p) = <<"dropAll">>
         \/ Head(p) = "dropAll" /\ p = <<"dropAll">> /\ Tail(p) = <<>>
  <1>1. CASE p = <<"slugsOf", "dropAll">>
    <2>1. Head(<<"slugsOf", "dropAll">>) = "slugsOf" /\ Tail(<<"slugsOf", "dropAll">>) = <<"dropAll">>
      OBVIOUS
    <2> QED BY <1>1, <2>1
  <1>2. CASE p = <<"dropAll">>
    <2>1. Head(<<"dropAll">>) = "dropAll" /\ Tail(<<"dropAll">>) = <<>>
      OBVIOUS
    <2> QED BY <1>2, <2>1
  <1> QED BY <1>1, <1>2 DEF BulkDeletePoints

LEMMA GrantPutMoves ==
  ASSUME NEW p \in GrantPutPoints, p # <<>>
  PROVE  \/ Head(p) = "grant" /\ p = <<"grant">> /\ Tail(p) = <<>>
  <1>1. p = <<"grant">>
    BY DEF GrantPutPoints
  <1> QED BY <1>1

LEMMA GrantDeleteMoves ==
  ASSUME NEW p \in GrantDeletePoints, p # <<>>
  PROVE  \/ Head(p) = "ungrant" /\ p = <<"ungrant">> /\ Tail(p) = <<>>
  <1>1. p = <<"ungrant">>
    BY DEF GrantDeletePoints
  <1> QED BY <1>1

LEMMA RoleCreateMoves ==
  ASSUME NEW p \in RoleCreatePoints, p # <<>>
  PROVE  \/ /\ Head(p) = "exists"
            /\ p = <<"exists", "insertRole", "clone", "insertPerms">>
            /\ Tail(p) = <<"insertRole", "clone", "insertPerms">>
         \/ /\ Head(p) = "insertRole"
            /\ p = <<"insertRole", "clone", "insertPerms">>
            /\ Tail(p) = <<"clone", "insertPerms">>
         \/ Head(p) = "clone" /\ p = <<"clone", "insertPerms">> /\ Tail(p) = <<"insertPerms">>
         \/ Head(p) = "insertPerms" /\ p = <<"insertPerms">> /\ Tail(p) = <<>>
  <1>1. CASE p = <<"exists", "insertRole", "clone", "insertPerms">>
    <2>1. /\ Head(<<"exists", "insertRole", "clone", "insertPerms">>) = "exists"
          /\ Tail(<<"exists", "insertRole", "clone", "insertPerms">>) = <<"insertRole", "clone", "insertPerms">>
      OBVIOUS
    <2> QED BY <1>1, <2>1
  <1>2. CASE p = <<"insertRole", "clone", "insertPerms">>
    <2>1. /\ Head(<<"insertRole", "clone", "insertPerms">>) = "insertRole"
          /\ Tail(<<"insertRole", "clone", "insertPerms">>) = <<"clone", "insertPerms">>
      OBVIOUS
    <2> QED BY <1>2, <2>1
  <1>3. CASE p = <<"clone", "insertPerms">>
    <2>1. Head(<<"clone", "insertPerms">>) = "clone" /\ Tail(<<"clone", "insertPerms">>) = <<"insertPerms">>
      OBVIOUS
    <2> QED BY <1>3, <2>1
  <1>4. CASE p = <<"insertPerms">>
    <2>1. Head(<<"insertPerms">>) = "insertPerms" /\ Tail(<<"insertPerms">>) = <<>>
      OBVIOUS
    <2> QED BY <1>4, <2>1
  <1> QED BY <1>1, <1>2, <1>3, <1>4 DEF RoleCreatePoints

LEMMA RolePatchMoves ==
  ASSUME NEW p \in RolePatchPoints, p # <<>>
  PROVE  \/ /\ Head(p) = "oldPerms"
            /\ p = <<"oldPerms", "deletePerms", "insertPerms", "syncRead", "usersOf", "sessionsOf", "block", "close">>
            /\ Tail(p) = <<"deletePerms", "insertPerms", "syncRead", "usersOf", "sessionsOf", "block", "close">>
         \/ /\ Head(p) = "deletePerms"
            /\ p = <<"deletePerms", "insertPerms", "syncRead", "usersOf", "sessionsOf", "block", "close">>
            /\ Tail(p) = <<"insertPerms", "syncRead", "usersOf", "sessionsOf", "block", "close">>
         \/ /\ Head(p) = "insertPerms"
            /\ p = <<"insertPerms", "syncRead", "usersOf", "sessionsOf", "block", "close">>
            /\ Tail(p) = <<"syncRead", "usersOf", "sessionsOf", "block", "close">>
         \/ /\ Head(p) = "syncRead"
            /\ p = <<"syncRead", "usersOf", "sessionsOf", "block", "close">>
            /\ Tail(p) = <<"usersOf", "sessionsOf", "block", "close">>
         \/ /\ Head(p) = "usersOf"
            /\ p = <<"usersOf", "sessionsOf", "block", "close">>
            /\ Tail(p) = <<"sessionsOf", "block", "close">>
         \/ Head(p) = "sessionsOf" /\ p = <<"sessionsOf", "block", "close">> /\ Tail(p) = <<"block", "close">>
         \/ Head(p) = "block" /\ p = <<"block", "close">> /\ Tail(p) = <<"close">>
         \/ Head(p) = "close" /\ p = <<"close">> /\ Tail(p) = <<>>
         \/ /\ Head(p) = "syncWrite"
            /\ p = First("syncWrite", <<"syncRead", "usersOf", "sessionsOf", "block", "close">>)
            /\ Tail(p) = <<"syncRead", "usersOf", "sessionsOf", "block", "close">>
  <1>1. CASE p = <<"oldPerms", "deletePerms", "insertPerms", "syncRead", "usersOf", "sessionsOf", "block", "close">>
    <2>1. /\ Head(<<"oldPerms", "deletePerms", "insertPerms", "syncRead", "usersOf", "sessionsOf", "block", "close">>) = "oldPerms"
          /\ Tail(<<"oldPerms", "deletePerms", "insertPerms", "syncRead", "usersOf", "sessionsOf", "block", "close">>) = <<"deletePerms", "insertPerms", "syncRead", "usersOf", "sessionsOf", "block", "close">>
      OBVIOUS
    <2> QED BY <1>1, <2>1
  <1>2. CASE p = <<"deletePerms", "insertPerms", "syncRead", "usersOf", "sessionsOf", "block", "close">>
    <2>1. /\ Head(<<"deletePerms", "insertPerms", "syncRead", "usersOf", "sessionsOf", "block", "close">>) = "deletePerms"
          /\ Tail(<<"deletePerms", "insertPerms", "syncRead", "usersOf", "sessionsOf", "block", "close">>) = <<"insertPerms", "syncRead", "usersOf", "sessionsOf", "block", "close">>
      OBVIOUS
    <2> QED BY <1>2, <2>1
  <1>3. CASE p = <<"insertPerms", "syncRead", "usersOf", "sessionsOf", "block", "close">>
    <2>1. /\ Head(<<"insertPerms", "syncRead", "usersOf", "sessionsOf", "block", "close">>) = "insertPerms"
          /\ Tail(<<"insertPerms", "syncRead", "usersOf", "sessionsOf", "block", "close">>) = <<"syncRead", "usersOf", "sessionsOf", "block", "close">>
      OBVIOUS
    <2> QED BY <1>3, <2>1
  <1>4. CASE p = <<"syncRead", "usersOf", "sessionsOf", "block", "close">>
    <2>1. /\ Head(<<"syncRead", "usersOf", "sessionsOf", "block", "close">>) = "syncRead"
          /\ Tail(<<"syncRead", "usersOf", "sessionsOf", "block", "close">>) = <<"usersOf", "sessionsOf", "block", "close">>
      OBVIOUS
    <2> QED BY <1>4, <2>1
  <1>5. CASE p = <<"usersOf", "sessionsOf", "block", "close">>
    <2>1. /\ Head(<<"usersOf", "sessionsOf", "block", "close">>) = "usersOf"
          /\ Tail(<<"usersOf", "sessionsOf", "block", "close">>) = <<"sessionsOf", "block", "close">>
      OBVIOUS
    <2> QED BY <1>5, <2>1
  <1>6. CASE p = <<"sessionsOf", "block", "close">>
    <2>1. /\ Head(<<"sessionsOf", "block", "close">>) = "sessionsOf"
          /\ Tail(<<"sessionsOf", "block", "close">>) = <<"block", "close">>
      OBVIOUS
    <2> QED BY <1>6, <2>1
  <1>7. CASE p = <<"block", "close">>
    <2>1. Head(<<"block", "close">>) = "block" /\ Tail(<<"block", "close">>) = <<"close">>
      OBVIOUS
    <2> QED BY <1>7, <2>1
  <1>8. CASE p = <<"close">>
    <2>1. Head(<<"close">>) = "close" /\ Tail(<<"close">>) = <<>>
      OBVIOUS
    <2> QED BY <1>8, <2>1
  <1>9. CASE p = First("syncWrite", <<"syncRead", "usersOf", "sessionsOf", "block", "close">>)
    <2> DEFINE T == {"syncWrite", "syncRead", "usersOf", "sessionsOf", "block", "close"}   s == <<"syncRead", "usersOf", "sessionsOf", "block", "close">>
    <2>1. s \in Seq(T) /\ "syncWrite" \in T
      OBVIOUS
    <2> HIDE DEF T, s
    <2>2. Head(First("syncWrite", s)) = "syncWrite" /\ Tail(First("syncWrite", s)) = s
      BY <2>1, FirstFacts
    <2> QED BY <1>9, <2>2 DEF s
  <1> QED BY <1>1, <1>2, <1>3, <1>4, <1>5, <1>6, <1>7, <1>8, <1>9 DEF RolePatchPoints

LEMMA RoleDeleteMoves ==
  ASSUME NEW p \in RoleDeletePoints, p # <<>>
  PROVE  \/ /\ Head(p) = "roleRow"
            /\ p = <<"roleRow", "usersOf", "sessionsOf", "block", "close", "deletePerms", "deleteRole">>
            /\ Tail(p) = <<"usersOf", "sessionsOf", "block", "close", "deletePerms", "deleteRole">>
         \/ /\ Head(p) = "usersOf"
            /\ p = <<"usersOf", "sessionsOf", "block", "close", "deletePerms", "deleteRole">>
            /\ Tail(p) = <<"sessionsOf", "block", "close", "deletePerms", "deleteRole">>
         \/ /\ Head(p) = "sessionsOf"
            /\ p = <<"sessionsOf", "block", "close", "deletePerms", "deleteRole">>
            /\ Tail(p) = <<"block", "close", "deletePerms", "deleteRole">>
         \/ /\ Head(p) = "block"
            /\ p = <<"block", "close", "deletePerms", "deleteRole">>
            /\ Tail(p) = <<"close", "deletePerms", "deleteRole">>
         \/ /\ Head(p) = "close"
            /\ p = <<"close", "deletePerms", "deleteRole">>
            /\ Tail(p) = <<"deletePerms", "deleteRole">>
         \/ Head(p) = "deletePerms" /\ p = <<"deletePerms", "deleteRole">> /\ Tail(p) = <<"deleteRole">>
         \/ Head(p) = "deleteRole" /\ p = <<"deleteRole">> /\ Tail(p) = <<>>
  <1>1. CASE p = <<"roleRow", "usersOf", "sessionsOf", "block", "close", "deletePerms", "deleteRole">>
    <2>1. /\ Head(<<"roleRow", "usersOf", "sessionsOf", "block", "close", "deletePerms", "deleteRole">>) = "roleRow"
          /\ Tail(<<"roleRow", "usersOf", "sessionsOf", "block", "close", "deletePerms", "deleteRole">>) = <<"usersOf", "sessionsOf", "block", "close", "deletePerms", "deleteRole">>
      OBVIOUS
    <2> QED BY <1>1, <2>1
  <1>2. CASE p = <<"usersOf", "sessionsOf", "block", "close", "deletePerms", "deleteRole">>
    <2>1. /\ Head(<<"usersOf", "sessionsOf", "block", "close", "deletePerms", "deleteRole">>) = "usersOf"
          /\ Tail(<<"usersOf", "sessionsOf", "block", "close", "deletePerms", "deleteRole">>) = <<"sessionsOf", "block", "close", "deletePerms", "deleteRole">>
      OBVIOUS
    <2> QED BY <1>2, <2>1
  <1>3. CASE p = <<"sessionsOf", "block", "close", "deletePerms", "deleteRole">>
    <2>1. /\ Head(<<"sessionsOf", "block", "close", "deletePerms", "deleteRole">>) = "sessionsOf"
          /\ Tail(<<"sessionsOf", "block", "close", "deletePerms", "deleteRole">>) = <<"block", "close", "deletePerms", "deleteRole">>
      OBVIOUS
    <2> QED BY <1>3, <2>1
  <1>4. CASE p = <<"block", "close", "deletePerms", "deleteRole">>
    <2>1. /\ Head(<<"block", "close", "deletePerms", "deleteRole">>) = "block"
          /\ Tail(<<"block", "close", "deletePerms", "deleteRole">>) = <<"close", "deletePerms", "deleteRole">>
      OBVIOUS
    <2> QED BY <1>4, <2>1
  <1>5. CASE p = <<"close", "deletePerms", "deleteRole">>
    <2>1. /\ Head(<<"close", "deletePerms", "deleteRole">>) = "close"
          /\ Tail(<<"close", "deletePerms", "deleteRole">>) = <<"deletePerms", "deleteRole">>
      OBVIOUS
    <2> QED BY <1>5, <2>1
  <1>6. CASE p = <<"deletePerms", "deleteRole">>
    <2>1. /\ Head(<<"deletePerms", "deleteRole">>) = "deletePerms"
          /\ Tail(<<"deletePerms", "deleteRole">>) = <<"deleteRole">>
      OBVIOUS
    <2> QED BY <1>6, <2>1
  <1>7. CASE p = <<"deleteRole">>
    <2>1. Head(<<"deleteRole">>) = "deleteRole" /\ Tail(<<"deleteRole">>) = <<>>
      OBVIOUS
    <2> QED BY <1>7, <2>1
  <1> QED BY <1>1, <1>2, <1>3, <1>4, <1>5, <1>6, <1>7 DEF RoleDeletePoints

LEMMA UserCreateMoves ==
  ASSUME NEW p \in UserCreatePoints, p # <<>>
  PROVE  \/ Head(p) = "insertUser" /\ p = <<"insertUser">> /\ Tail(p) = <<>>
  <1>1. p = <<"insertUser">>
    BY DEF UserCreatePoints
  <1> QED BY <1>1

LEMMA UserPatchMoves ==
  ASSUME NEW p \in UserPatchPoints, p # <<>>
  PROVE  \/ /\ Head(p) = "prior"
            /\ p = <<"prior", "updateUser", "sessionsOf", "block", "close">>
            /\ Tail(p) = <<"updateUser", "sessionsOf", "block", "close">>
         \/ /\ Head(p) = "updateUser"
            /\ p = <<"updateUser", "sessionsOf", "block", "close">>
            /\ Tail(p) = <<"sessionsOf", "block", "close">>
         \/ Head(p) = "sessionsOf" /\ p = <<"sessionsOf", "block", "close">> /\ Tail(p) = <<"block", "close">>
         \/ Head(p) = "block" /\ p = <<"block", "close">> /\ Tail(p) = <<"close">>
         \/ Head(p) = "close" /\ p = <<"close">> /\ Tail(p) = <<>>
  <1>1. CASE p = <<"prior", "updateUser", "sessionsOf", "block", "close">>
    <2>1. /\ Head(<<"prior", "updateUser", "sessionsOf", "block", "close">>) = "prior"
          /\ Tail(<<"prior", "updateUser", "sessionsOf", "block", "close">>) = <<"updateUser", "sessionsOf", "block", "close">>
      OBVIOUS
    <2> QED BY <1>1, <2>1
  <1>2. CASE p = <<"updateUser", "sessionsOf", "block", "close">>
    <2>1. /\ Head(<<"updateUser", "sessionsOf", "block", "close">>) = "updateUser"
          /\ Tail(<<"updateUser", "sessionsOf", "block", "close">>) = <<"sessionsOf", "block", "close">>
      OBVIOUS
    <2> QED BY <1>2, <2>1
  <1>3. CASE p = <<"sessionsOf", "block", "close">>
    <2>1. /\ Head(<<"sessionsOf", "block", "close">>) = "sessionsOf"
          /\ Tail(<<"sessionsOf", "block", "close">>) = <<"block", "close">>
      OBVIOUS
    <2> QED BY <1>3, <2>1
  <1>4. CASE p = <<"block", "close">>
    <2>1. Head(<<"block", "close">>) = "block" /\ Tail(<<"block", "close">>) = <<"close">>
      OBVIOUS
    <2> QED BY <1>4, <2>1
  <1>5. CASE p = <<"close">>
    <2>1. Head(<<"close">>) = "close" /\ Tail(<<"close">>) = <<>>
      OBVIOUS
    <2> QED BY <1>5, <2>1
  <1> QED BY <1>1, <1>2, <1>3, <1>4, <1>5 DEF UserPatchPoints

LEMMA UserDeleteMoves ==
  ASSUME NEW p \in UserDeletePoints, p # <<>>
  PROVE  \/ /\ Head(p) = "sessionsOf"
            /\ p = <<"sessionsOf", "block", "close", "deleteUser">>
            /\ Tail(p) = <<"block", "close", "deleteUser">>
         \/ Head(p) = "block" /\ p = <<"block", "close", "deleteUser">> /\ Tail(p) = <<"close", "deleteUser">>
         \/ Head(p) = "close" /\ p = <<"close", "deleteUser">> /\ Tail(p) = <<"deleteUser">>
         \/ Head(p) = "deleteUser" /\ p = <<"deleteUser">> /\ Tail(p) = <<>>
  <1>1. CASE p = <<"sessionsOf", "block", "close", "deleteUser">>
    <2>1. /\ Head(<<"sessionsOf", "block", "close", "deleteUser">>) = "sessionsOf"
          /\ Tail(<<"sessionsOf", "block", "close", "deleteUser">>) = <<"block", "close", "deleteUser">>
      OBVIOUS
    <2> QED BY <1>1, <2>1
  <1>2. CASE p = <<"block", "close", "deleteUser">>
    <2>1. /\ Head(<<"block", "close", "deleteUser">>) = "block"
          /\ Tail(<<"block", "close", "deleteUser">>) = <<"close", "deleteUser">>
      OBVIOUS
    <2> QED BY <1>2, <2>1
  <1>3. CASE p = <<"close", "deleteUser">>
    <2>1. Head(<<"close", "deleteUser">>) = "close" /\ Tail(<<"close", "deleteUser">>) = <<"deleteUser">>
      OBVIOUS
    <2> QED BY <1>3, <2>1
  <1>4. CASE p = <<"deleteUser">>
    <2>1. Head(<<"deleteUser">>) = "deleteUser" /\ Tail(<<"deleteUser">>) = <<>>
      OBVIOUS
    <2> QED BY <1>4, <2>1
  <1> QED BY <1>1, <1>2, <1>3, <1>4 DEF UserDeletePoints

LEMMA OverridePutMoves ==
  ASSUME NEW p \in OverridePutPoints, p # <<>>
  PROVE  \/ /\ Head(p) = "override"
            /\ p = <<"override", "sessionsOf", "block", "close">>
            /\ Tail(p) = <<"sessionsOf", "block", "close">>
         \/ Head(p) = "sessionsOf" /\ p = <<"sessionsOf", "block", "close">> /\ Tail(p) = <<"block", "close">>
         \/ Head(p) = "block" /\ p = <<"block", "close">> /\ Tail(p) = <<"close">>
         \/ Head(p) = "close" /\ p = <<"close">> /\ Tail(p) = <<>>
  <1>1. CASE p = <<"override", "sessionsOf", "block", "close">>
    <2>1. /\ Head(<<"override", "sessionsOf", "block", "close">>) = "override"
          /\ Tail(<<"override", "sessionsOf", "block", "close">>) = <<"sessionsOf", "block", "close">>
      OBVIOUS
    <2> QED BY <1>1, <2>1
  <1>2. CASE p = <<"sessionsOf", "block", "close">>
    <2>1. /\ Head(<<"sessionsOf", "block", "close">>) = "sessionsOf"
          /\ Tail(<<"sessionsOf", "block", "close">>) = <<"block", "close">>
      OBVIOUS
    <2> QED BY <1>2, <2>1
  <1>3. CASE p = <<"block", "close">>
    <2>1. Head(<<"block", "close">>) = "block" /\ Tail(<<"block", "close">>) = <<"close">>
      OBVIOUS
    <2> QED BY <1>3, <2>1
  <1>4. CASE p = <<"close">>
    <2>1. Head(<<"close">>) = "close" /\ Tail(<<"close">>) = <<>>
      OBVIOUS
    <2> QED BY <1>4, <2>1
  <1> QED BY <1>1, <1>2, <1>3, <1>4 DEF OverridePutPoints

LEMMA OverrideDeleteMoves ==
  ASSUME NEW p \in OverrideDeletePoints, p # <<>>
  PROVE  \/ /\ Head(p) = "unoverride"
            /\ p = <<"unoverride", "sessionsOf", "block", "close">>
            /\ Tail(p) = <<"sessionsOf", "block", "close">>
         \/ Head(p) = "sessionsOf" /\ p = <<"sessionsOf", "block", "close">> /\ Tail(p) = <<"block", "close">>
         \/ Head(p) = "block" /\ p = <<"block", "close">> /\ Tail(p) = <<"close">>
         \/ Head(p) = "close" /\ p = <<"close">> /\ Tail(p) = <<>>
  <1>1. CASE p = <<"unoverride", "sessionsOf", "block", "close">>
    <2>1. /\ Head(<<"unoverride", "sessionsOf", "block", "close">>) = "unoverride"
          /\ Tail(<<"unoverride", "sessionsOf", "block", "close">>) = <<"sessionsOf", "block", "close">>
      OBVIOUS
    <2> QED BY <1>1, <2>1
  <1>2. CASE p = <<"sessionsOf", "block", "close">>
    <2>1. /\ Head(<<"sessionsOf", "block", "close">>) = "sessionsOf"
          /\ Tail(<<"sessionsOf", "block", "close">>) = <<"block", "close">>
      OBVIOUS
    <2> QED BY <1>2, <2>1
  <1>3. CASE p = <<"block", "close">>
    <2>1. Head(<<"block", "close">>) = "block" /\ Tail(<<"block", "close">>) = <<"close">>
      OBVIOUS
    <2> QED BY <1>3, <2>1
  <1>4. CASE p = <<"close">>
    <2>1. Head(<<"close">>) = "close" /\ Tail(<<"close">>) = <<>>
      OBVIOUS
    <2> QED BY <1>4, <2>1
  <1> QED BY <1>1, <1>2, <1>3, <1>4 DEF OverrideDeletePoints

LEMMA LoginMoves ==
  ASSUME NEW p \in LoginPoints, p # <<>>
  PROVE  \/ /\ Head(p) = "profile"
            /\ p = <<"profile", "permissions", "session">>
            /\ Tail(p) = <<"permissions", "session">>
         \/ Head(p) = "permissions" /\ p = <<"permissions", "session">> /\ Tail(p) = <<"session">>
         \/ Head(p) = "session" /\ p = <<"session">> /\ Tail(p) = <<>>
  <1>1. CASE p = <<"profile", "permissions", "session">>
    <2>1. /\ Head(<<"profile", "permissions", "session">>) = "profile"
          /\ Tail(<<"profile", "permissions", "session">>) = <<"permissions", "session">>
      OBVIOUS
    <2> QED BY <1>1, <2>1
  <1>2. CASE p = <<"permissions", "session">>
    <2>1. Head(<<"permissions", "session">>) = "permissions" /\ Tail(<<"permissions", "session">>) = <<"session">>
      OBVIOUS
    <2> QED BY <1>2, <2>1
  <1>3. CASE p = <<"session">>
    <2>1. Head(<<"session">>) = "session" /\ Tail(<<"session">>) = <<>>
      OBVIOUS
    <2> QED BY <1>3, <2>1
  <1> QED BY <1>1, <1>2, <1>3 DEF LoginPoints

LEMMA LoadMoves ==
  ASSUME NEW p \in LoadPoints, p # <<>>
  PROVE  \/ Head(p) = "load" /\ p = <<"load">> /\ Tail(p) = <<>>
  <1>1. p = <<"load">>
    BY DEF LoadPoints
  <1> QED BY <1>1

LEMMA TopicParts ==
  ASSUME NEW b, NEW ex
  PROVE  /\ Head(UpdatePart(b)) = "updateTopic" /\ Tail(UpdatePart(b)) = SyncPart(b)
         /\ Head(RenamePart(b)) = "renamePerms" /\ Tail(RenamePart(b)) = UpdatePart(b)
         /\ Head(DropPart(b)) = "dropOld" /\ Tail(DropPart(b)) = RenamePart(b)
         /\ Head(OldPart(b)) = "oldSlug" /\ Tail(OldPart(b)) = DropPart(b)
         /\ Head(WipePart(b, ex)) = "wipe" /\ Tail(WipePart(b, ex)) = RestPart(b, ex)
         /\ Head(First("clearHome", RestPart(b, ex))) = "clearHome"
         /\ Tail(First("clearHome", RestPart(b, ex))) = RestPart(b, ex)
         /\ Head(First("clearHome", WipePart(b, ex))) = "clearHome"
         /\ Tail(First("clearHome", WipePart(b, ex))) = WipePart(b, ex)
  <1>1. <<"dropNew", "syncPerms">> \in Seq(TopicSteps) /\ <<>> \in Seq(TopicSteps)
    BY DEF TopicSteps
  <1>2. SyncPart(b) \in Seq(TopicSteps)
    BY <1>1 DEF SyncPart
  <1>3. /\ UpdatePart(b) \in Seq(TopicSteps)
        /\ Head(UpdatePart(b)) = "updateTopic" /\ Tail(UpdatePart(b)) = SyncPart(b)
    <2>1. "updateTopic" \in TopicSteps
      BY DEF TopicSteps
    <2> QED BY <1>2, <2>1, FirstFacts DEF UpdatePart
  <1>4. /\ RenamePart(b) \in Seq(TopicSteps)
        /\ Head(RenamePart(b)) = "renamePerms" /\ Tail(RenamePart(b)) = UpdatePart(b)
    <2>1. "renamePerms" \in TopicSteps
      BY DEF TopicSteps
    <2> QED BY <1>3, <2>1, FirstFacts DEF RenamePart
  <1>5. /\ DropPart(b) \in Seq(TopicSteps)
        /\ Head(DropPart(b)) = "dropOld" /\ Tail(DropPart(b)) = RenamePart(b)
    <2>1. "dropOld" \in TopicSteps
      BY DEF TopicSteps
    <2> QED BY <1>4, <2>1, FirstFacts DEF DropPart
  <1>6. /\ OldPart(b) \in Seq(TopicSteps)
        /\ Head(OldPart(b)) = "oldSlug" /\ Tail(OldPart(b)) = DropPart(b)
    <2>1. "oldSlug" \in TopicSteps
      BY DEF TopicSteps
    <2> QED BY <1>5, <2>1, FirstFacts DEF OldPart
  <1>7. RestPart(b, ex) \in Seq(TopicSteps)
    BY <1>3, <1>6 DEF RestPart
  <1>8. /\ WipePart(b, ex) \in Seq(TopicSteps)
        /\ Head(WipePart(b, ex)) = "wipe" /\ Tail(WipePart(b, ex)) = RestPart(b, ex)
    <2>1. "wipe" \in TopicSteps
      BY DEF TopicSteps
    <2> QED BY <1>7, <2>1, FirstFacts DEF WipePart
  <1>9. "clearHome" \in TopicSteps
    BY DEF TopicSteps
  <1>10. /\ Head(First("clearHome", RestPart(b, ex))) = "clearHome"
         /\ Tail(First("clearHome", RestPart(b, ex))) = RestPart(b, ex)
    BY <1>7, <1>9, FirstFacts
  <1>11. /\ Head(First("clearHome", WipePart(b, ex))) = "clearHome"
         /\ Tail(First("clearHome", WipePart(b, ex))) = WipePart(b, ex)
    BY <1>8, <1>9, FirstFacts
  <1> QED BY <1>3, <1>4, <1>5, <1>6, <1>8, <1>10, <1>11

LEMMA TopicPatchMoves ==
  ASSUME NEW b, NEW ex, NEW p, TopicAt(b, ex, p), p # <<>>
  PROVE  \/ Head(p) = "existing" /\ p = <<"existing">>
         \/ Head(p) = "syncPerms" /\ p = <<"syncPerms">> /\ Tail(p) = <<>>
         \/ Head(p) = "dropNew" /\ p = <<"dropNew", "syncPerms">> /\ p = SyncPart(b) /\ Tail(p) = <<"syncPerms">>
         \/ Head(p) = "updateTopic" /\ p = UpdatePart(b) /\ Tail(p) = SyncPart(b)
         \/ Head(p) = "renamePerms" /\ Renames(b, ex) /\ p = RenamePart(b) /\ Tail(p) = UpdatePart(b)
         \/ Head(p) = "dropOld" /\ Renames(b, ex) /\ p = DropPart(b) /\ Tail(p) = RenamePart(b)
         \/ Head(p) = "oldSlug" /\ Renames(b, ex) /\ p = OldPart(b) /\ Tail(p) = DropPart(b)
         \/ Head(p) = "wipe" /\ p = WipePart(b, ex) /\ Tail(p) = RestPart(b, ex)
         \/ /\ Head(p) = "clearHome" /\ PatchStart(b, ex, p)
            /\ Tail(p) \in {RestPart(b, ex), WipePart(b, ex)}
  <1>1. Head(<<"existing">>) = "existing"
    OBVIOUS
  <1>2. Head(<<"syncPerms">>) = "syncPerms" /\ Tail(<<"syncPerms">>) = <<>>
    OBVIOUS
  <1>3. /\ Head(<<"dropNew", "syncPerms">>) = "dropNew"
        /\ Tail(<<"dropNew", "syncPerms">>) = <<"syncPerms">>
    OBVIOUS
  <1>4. CASE p \in {<<"existing">>, <<"syncPerms">>}
    BY <1>1, <1>2, <1>4
  <1>5. CASE p = SyncPart(b)
    BY <1>3, <1>5 DEF SyncPart
  <1>6. CASE p = UpdatePart(b)
    BY <1>6, TopicParts
  <1>7. CASE Renames(b, ex) /\ p \in {RenamePart(b), DropPart(b)}
    BY <1>7, TopicParts
  <1>8. CASE p = RestPart(b, ex)
    BY <1>8, TopicParts DEF RestPart
  <1>9. CASE p = WipePart(b, ex)
    BY <1>9, TopicParts
  <1>10. CASE p \in {First("clearHome", RestPart(b, ex)), First("clearHome", WipePart(b, ex))}
    BY <1>10, TopicParts DEF PatchStart
  <1> QED BY <1>4, <1>5, <1>6, <1>7, <1>8, <1>9, <1>10 DEF TopicAt, PatchStart

LEMMA PatchProgramStarts ==
  ASSUME NEW b, NEW ex
  PROVE  PatchStart(b, ex, PatchProgram(b, ex))
  BY DEF PatchProgram, PatchStart, RestPart, WipePart, OldPart, DropPart, RenamePart, UpdatePart,
         SyncPart, Renames

LEMMA Programs ==
  ASSUME NEW q
  PROVE  /\ q.op = "topicPatch" => Program(q) = <<"existing">>
         /\ q.op = "topicCreate" => Program(q) = <<"insertTopic">>
         /\ q.op = "topicDelete" => Program(q) = <<"slugOf", "dropPerms", "dropTopic">>
         /\ q.op = "bulkDelete" => Program(q) = <<"slugsOf", "dropAll">>
         /\ q.op = "grantPut" => Program(q) = <<"grant">>
         /\ q.op = "grantDelete" => Program(q) = <<"ungrant">>
         /\ q.op = "roleCreate" => Program(q) = <<"exists", "insertRole", "clone", "insertPerms">>
         /\ q.op = "rolePatch" => Program(q) = <<"oldPerms", "deletePerms", "insertPerms", "syncRead", "usersOf", "sessionsOf", "block", "close">>
         /\ q.op = "roleDelete" => Program(q) = <<"roleRow", "usersOf", "sessionsOf", "block", "close", "deletePerms", "deleteRole">>
         /\ q.op = "userCreate" => Program(q) = <<"insertUser">>
         /\ q.op = "userPatch" => Program(q) = <<"prior", "updateUser", "sessionsOf", "block", "close">>
         /\ q.op = "userDelete" => Program(q) = <<"sessionsOf", "block", "close", "deleteUser">>
         /\ q.op = "overridePut" => Program(q) = <<"override", "sessionsOf", "block", "close">>
         /\ q.op = "overrideDelete" => Program(q) = <<"unoverride", "sessionsOf", "block", "close">>
         /\ q.op = "login" => Program(q) = <<"profile", "permissions", "session">>
         /\ q.op = "load" => Program(q) = <<"load">>
  <1>1. q.op = "topicPatch" => Program(q) = <<"existing">>
    BY DEF Program, PutProgram
  <1>2. q.op = "topicCreate" => Program(q) = <<"insertTopic">>
    BY DEF Program, PutProgram
  <1>3. q.op = "topicDelete" => Program(q) = <<"slugOf", "dropPerms", "dropTopic">>
    BY DEF Program, PutProgram
  <1>4. q.op = "bulkDelete" => Program(q) = <<"slugsOf", "dropAll">>
    BY DEF Program, PutProgram
  <1>5. q.op = "grantPut" => Program(q) = <<"grant">>
    BY DEF Program, PutProgram
  <1>6. q.op = "grantDelete" => Program(q) = <<"ungrant">>
    BY DEF Program, PutProgram
  <1>7. q.op = "roleCreate" => Program(q) = <<"exists", "insertRole", "clone", "insertPerms">>
    BY DEF Program, PutProgram
  <1>8. q.op = "rolePatch" => Program(q) = <<"oldPerms", "deletePerms", "insertPerms", "syncRead", "usersOf", "sessionsOf", "block", "close">>
    BY DEF Program, PutProgram
  <1>9. q.op = "roleDelete" => Program(q) = <<"roleRow", "usersOf", "sessionsOf", "block", "close", "deletePerms", "deleteRole">>
    BY DEF Program, PutProgram
  <1>10. q.op = "userCreate" => Program(q) = <<"insertUser">>
    BY DEF Program, PutProgram
  <1>11. q.op = "userPatch" => Program(q) = <<"prior", "updateUser", "sessionsOf", "block", "close">>
    BY DEF Program, PutProgram
  <1>12. q.op = "userDelete" => Program(q) = <<"sessionsOf", "block", "close", "deleteUser">>
    BY DEF Program, PutProgram
  <1>13. q.op = "overridePut" => Program(q) = <<"override", "sessionsOf", "block", "close">>
    BY DEF Program, PutProgram
  <1>14. q.op = "overrideDelete" => Program(q) = <<"unoverride", "sessionsOf", "block", "close">>
    BY DEF Program, PutProgram
  <1>15. q.op = "login" => Program(q) = <<"profile", "permissions", "session">>
    BY DEF Program, PutProgram
  <1>16. q.op = "load" => Program(q) = <<"load">>
    BY DEF Program, PutProgram
  <1> QED BY <1>1, <1>2, <1>3, <1>4, <1>5, <1>6, <1>7, <1>8, <1>9, <1>10, <1>11, <1>12, <1>13, <1>14, <1>15, <1>16

(***************************************************************************)
(* Rows                                                                    *)
(*                                                                         *)
(* What a PATCH makes of a topic's row.                                    *)
(***************************************************************************)
RowFields == {"slug", "view", "read", "post", "reply", "home", "e2ee", "history", "locked", "version"}

LEMMA RowForm ==
  ASSUME NEW x
  PROVE  x \in TopicRow <=>
           /\ x = [f \in RowFields |-> x[f]]
           /\ x.slug \in Slugs
           /\ x.view \subseteq Roles /\ x.read \subseteq Roles /\ x.post \subseteq Roles /\ x.reply \subseteq Roles
           /\ x.home \in BOOLEAN /\ x.e2ee \in BOOLEAN /\ x.history \in BOOLEAN /\ x.locked \in BOOLEAN
           /\ x.version \in Nat
  BY DEF TopicRow, RowFields

LEMMA MergedRow ==
  ASSUME NEW row \in TopicRow, NEW b,
         "slug" \in DOMAIN b => b["slug"] \in Slugs,
         \A a \in Acts \cap DOMAIN b : b[a] \subseteq Roles,
         \A f \in {"home", "e2ee", "history", "locked"} \cap DOMAIN b : b[f] \in BOOLEAN,
         "version" \in DOMAIN b => b["version"] \in Nat
  PROVE  Merge(row, b) \in TopicRow
  <1> DEFINE m == Merge(row, b)
  <1>1. DOMAIN row = RowFields
    BY RowForm
  <1>2. m = [f \in RowFields |-> IF f \in DOMAIN b THEN b[f] ELSE row[f]]
    BY <1>1 DEF Merge
  <1> HIDE DEF m
  <1>3. m = [f \in RowFields |-> m[f]]
    BY <1>2
  <1>4. \A f \in RowFields : m[f] = IF f \in DOMAIN b THEN b[f] ELSE row[f]
    BY <1>2
  <1>5. m.slug \in Slugs
    BY <1>4, RowForm DEF RowFields
  <1>6. /\ m.view \subseteq Roles /\ m.read \subseteq Roles
        /\ m.post \subseteq Roles /\ m.reply \subseteq Roles
    BY <1>4, RowForm DEF RowFields, Acts
  <1>7. m.home \in BOOLEAN /\ m.e2ee \in BOOLEAN /\ m.history \in BOOLEAN /\ m.locked \in BOOLEAN
    BY <1>4, RowForm DEF RowFields
  <1>8. m.version \in Nat
    BY <1>4, RowForm DEF RowFields
  <1>9. m \in TopicRow
    BY <1>3, <1>5, <1>6, <1>7, <1>8, RowForm
  <1> QED BY <1>9 DEF m

LEMMA MergeBody ==
  ASSUME NEW row \in TopicRow, NEW b, Asked(b)
  PROVE  Merge(row, b) \in TopicRow
  BY MergedRow DEF Asked

LEMMA PatchFields ==
  ASSUME NEW ex \in TopicRow, NEW b, Asked(b)
  PROVE  /\ "slug" \in DOMAIN PatchOf(b, ex) <=> "slug" \in DOMAIN b
         /\ "slug" \in DOMAIN b => PatchOf(b, ex).slug = b.slug
         /\ \A a \in Acts : a \in DOMAIN PatchOf(b, ex) <=> a \in DOMAIN b
         /\ \A a \in Acts \cap DOMAIN b : PatchOf(b, ex)[a] = b[a]
         /\ \A f \in {"home", "e2ee", "history", "locked"} \cap DOMAIN PatchOf(b, ex) : PatchOf(b, ex)[f] \in BOOLEAN
         /\ "version" \in DOMAIN PatchOf(b, ex) => PatchOf(b, ex)["version"] \in Nat
  <1> DEFINE p == PatchOf(b, ex)
             D == (DOMAIN b \cap RowFields) \cup (IF Flips(b) THEN {"history"} ELSE {})
                    \cup (IF Asks(b, "password") THEN {"locked"} ELSE {})
                    \cup (IF Clears(b) \/ Bumps(b) THEN {"version"} ELSE {})
             V(f) == CASE f = "history" -> FALSE
                       [] f = "locked"  -> ~Clears(b)
                       [] f = "version" -> IF Clears(b) THEN 0 ELSE ex.version + 1
                       [] OTHER         -> b[f]
  <1>1. DOMAIN ex = RowFields /\ ex.version \in Nat
    BY RowForm
  <1>2. p = [f \in D |-> V(f)]
    BY <1>1, Zenon DEF PatchOf
  <1>3. "history" \in D => V("history") = FALSE
    BY Zenon
  <1>4. V("locked") = ~Clears(b)
    <2>1. "locked" # "history"
      OBVIOUS
    <2> QED BY <2>1, Zenon
  <1>5. V("version") \in Nat
    <2>1. "version" # "history" /\ "version" # "locked" /\ 0 \in Nat /\ ex.version + 1 \in Nat
      BY <1>1
    <2>2. V("version") = IF Clears(b) THEN 0 ELSE ex.version + 1
      BY <2>1, Zenon
    <2> QED BY <2>1, <2>2, Zenon
  <1>6. \A f : f \notin {"history", "locked", "version"} => V(f) = b[f]
    BY Zenon
  <1>7. \A f \in {"slug", "home", "e2ee"} \cup Acts : f \in D <=> f \in DOMAIN b
    BY DEF RowFields, Acts
  <1>8. Clears(b) \in BOOLEAN
    BY DEF Clears, Asks
  <1> HIDE DEF V, D
  <1>9. \A f \in D : p[f] = V(f)
    BY <1>2
  <1>10. DOMAIN p = D
    BY <1>2
  <1> HIDE DEF p
  <1>11. "slug" \in DOMAIN p <=> "slug" \in DOMAIN b
    BY <1>7, <1>10
  <1>12. "slug" \in DOMAIN b => p.slug = b.slug
    BY <1>6, <1>7, <1>9
  <1>13. \A a \in Acts : a \in DOMAIN p <=> a \in DOMAIN b
    BY <1>7, <1>10
  <1>14. \A a \in Acts \cap DOMAIN b : p[a] = b[a]
    BY <1>6, <1>7, <1>9 DEF Acts
  <1>15. \A f \in {"home", "e2ee"} \cap DOMAIN p : p[f] \in BOOLEAN
    BY <1>6, <1>7, <1>9, <1>10 DEF Asked
  <1>16. "history" \in DOMAIN p => p["history"] \in BOOLEAN
    BY <1>3, <1>9, <1>10
  <1>17. "locked" \in DOMAIN p => p["locked"] \in BOOLEAN
    BY <1>4, <1>8, <1>9, <1>10
  <1>18. "version" \in DOMAIN p => p["version"] \in Nat
    BY <1>5, <1>9, <1>10
  <1>19. \A f \in {"home", "e2ee", "history", "locked"} \cap DOMAIN p : p[f] \in BOOLEAN
    BY <1>15, <1>16, <1>17
  <1> QED BY <1>11, <1>12, <1>13, <1>14, <1>18, <1>19 DEF p

LEMMA MergePatch ==
  ASSUME NEW row \in TopicRow, NEW ex \in TopicRow, NEW b, Asked(b)
  PROVE  Merge(row, PatchOf(b, ex)) \in TopicRow
  <1> DEFINE p == PatchOf(b, ex)
  <1>1. /\ "slug" \in DOMAIN p => p["slug"] \in Slugs
        /\ \A a \in Acts \cap DOMAIN p : p[a] \subseteq Roles
        /\ \A f \in {"home", "e2ee", "history", "locked"} \cap DOMAIN p : p[f] \in BOOLEAN
        /\ "version" \in DOMAIN p => p["version"] \in Nat
    BY PatchFields DEF Asked
  <1> HIDE DEF p
  <1>2. Merge(row, p) \in TopicRow
    BY <1>1, MergedRow
  <1> QED BY <1>2 DEF p

LEMMA EmptyRow ==
  ASSUME NEW s \in Slugs PROVE EmptyTopic(s) \in TopicRow
  BY DEF EmptyTopic, TopicRow

(***************************************************************************)
(* Types                                                                   *)
(*                                                                         *)
(* AdminShape is the type invariant: besides the tables it types what each *)
(* request holds at the point where it is.                                 *)
(***************************************************************************)
(* The provers do not know that a literal is a string. *)
Right == (Slugs \cup {Absent}) \X (Acts \cup STRING)
Fields == {"st", "prog", "body", "perms", "row", "had", "todo", "at", "ids", "ok"}
(* What a request's record may hold: q is the request, c its record.          *)
RolesCall(q, c) ==
  /\ c.perms \subseteq Right /\ c.todo \subseteq Right
  /\ q.op = "roleCreate" => c.had \subseteq Right
  /\ q.op = "rolePatch" /\ c.prog # <<>> /\ Head(c.prog) \in {"deletePerms", "insertPerms"} =>
       c.had \subseteq Right /\ \A p \in c.had : p[2] \in Parsed
  /\ c.prog # <<>> /\ Head(c.prog) \in {"syncRead", "syncWrite"} => \A p \in c.todo : p[2] \in Parsed
  /\ c.prog # <<>> /\ Head(c.prog) = "syncWrite" => c.row \in TopicRow /\ c.at \in Right /\ c.at[1] \in Slugs /\ c.at[2] \in Parsed
PatchCall(c) ==
  /\ TopicAt(c.body, c.row, c.prog)
  /\ c.prog \notin {<<>>, <<"existing">>} => c.row \in TopicRow
  /\ c.prog # <<>> /\ Head(c.prog) \in {"dropOld", "renamePerms"} => c.had \subseteq Roles \X Right
BulkCall(c) == c.ids \subseteq Topics /\ c.todo \subseteq Slugs
CallOK(q, c) ==
  /\ c.st \in {"new", "run", "done"}
  /\ c.st # "run" => c.prog = <<>>
  /\ AtPoint(q.op, c.prog)
  /\ Asked(c.body)
  /\ q.op = "topicPatch" => PatchCall(c)
  /\ q.op = "bulkDelete" => BulkCall(c)
  /\ q.op \in {"roleCreate", "rolePatch"} => RolesCall(q, c)
  /\ q.op = "topicDelete" /\ c.prog = <<"dropPerms", "dropTopic">> => c.row \in TopicRow \cup {Absent}
FormState == [rows : [Topics -> TopicRow \cup {Absent}], perms : [Roles -> SUBSET Right]]
AdminShape ==
  /\ work \in Workloads
  /\ roles \subseteq Roles /\ held \subseteq Roles \X Right
  /\ topic \in [Topics -> TopicRow \cup {Absent}]
  /\ role \in [Users -> Roles \cup {Absent}]
  /\ copy \in [Tabs -> FormState]
  /\ DOMAIN serving = DOMAIN work.reqs
  /\ \A i \in DOMAIN serving : DOMAIN serving[i] = Fields /\ CallOK(Req(i), serving[i])
Owner(op, s) ==
  /\ s \in TopicSteps <=> op = "topicPatch"
  /\ s = "insertTopic" => op = "topicCreate"
  /\ s \in {"slugOf", "dropPerms", "dropTopic"} => op = "topicDelete"
  /\ s \in {"slugsOf", "dropAll"} => op = "bulkDelete"
  /\ s = "grant" => op = "grantPut"
  /\ s = "ungrant" => op = "grantDelete"
  /\ s \in {"exists", "insertRole", "clone"} => op = "roleCreate"
  /\ s = "insertPerms" => op \in {"roleCreate", "rolePatch"}
  /\ s \in {"oldPerms", "syncRead", "syncWrite"} => op = "rolePatch"
  /\ s \in {"deletePerms", "usersOf"} => op \in {"rolePatch", "roleDelete"}
  /\ s \in {"sessionsOf", "block", "close"} => op \in {"rolePatch", "roleDelete", "userPatch", "userDelete", "overridePut", "overrideDelete"}
  /\ s \in {"roleRow", "deleteRole"} => op = "roleDelete"
  /\ s = "insertUser" => op = "userCreate"
  /\ s \in {"prior", "updateUser"} => op = "userPatch"
  /\ s = "deleteUser" => op = "userDelete"
  /\ s = "override" => op = "overridePut"
  /\ s = "unoverride" => op = "overrideDelete"
  /\ s \in {"profile", "permissions", "session"} => op = "login"
  /\ s = "load" => op = "load"

LEMMA Owners ==
  ASSUME NEW op \in Ops, NEW b, NEW ex, NEW p, p # <<>>, AtPoint(op, p), op = "topicPatch" => TopicAt(b, ex, p)
  PROVE  Owner(op, Head(p))
  <1>1. CASE op = "topicPatch"
    BY <1>1, TopicPatchMoves DEF Owner, TopicSteps
  <1>2. CASE op = "topicCreate"
    BY <1>2, TopicCreateMoves DEF AtPoint, Owner, TopicSteps
  <1>3. CASE op = "topicDelete"
    BY <1>3, TopicDeleteMoves DEF AtPoint, Owner, TopicSteps
  <1>4. CASE op = "bulkDelete"
    BY <1>4, BulkDeleteMoves DEF AtPoint, Owner, TopicSteps
  <1>5. CASE op = "grantPut"
    BY <1>5, GrantPutMoves DEF AtPoint, Owner, TopicSteps
  <1>6. CASE op = "grantDelete"
    BY <1>6, GrantDeleteMoves DEF AtPoint, Owner, TopicSteps
  <1>7. CASE op = "roleCreate"
    BY <1>7, RoleCreateMoves DEF AtPoint, Owner, TopicSteps
  <1>8. CASE op = "rolePatch"
    BY <1>8, RolePatchMoves DEF AtPoint, Owner, TopicSteps
  <1>9. CASE op = "roleDelete"
    BY <1>9, RoleDeleteMoves DEF AtPoint, Owner, TopicSteps
  <1>10. CASE op = "userCreate"
    BY <1>10, UserCreateMoves DEF AtPoint, Owner, TopicSteps
  <1>11. CASE op = "userPatch"
    BY <1>11, UserPatchMoves DEF AtPoint, Owner, TopicSteps
  <1>12. CASE op = "userDelete"
    BY <1>12, UserDeleteMoves DEF AtPoint, Owner, TopicSteps
  <1>13. CASE op = "overridePut"
    BY <1>13, OverridePutMoves DEF AtPoint, Owner, TopicSteps
  <1>14. CASE op = "overrideDelete"
    BY <1>14, OverrideDeleteMoves DEF AtPoint, Owner, TopicSteps
  <1>15. CASE op = "login"
    BY <1>15, LoginMoves DEF AtPoint, Owner, TopicSteps
  <1>16. CASE op = "load"
    BY <1>16, LoadMoves DEF AtPoint, Owner, TopicSteps
  <1> QED BY <1>1, <1>2, <1>3, <1>4, <1>5, <1>6, <1>7, <1>8, <1>9, <1>10, <1>11, <1>12, <1>13, <1>14, <1>15, <1>16 DEF Ops

LEMMA LeavesPoint ==
  ASSUME NEW op \in Ops \ {"topicPatch"}, NEW p, p # <<>>, AtPoint(op, p)
  PROVE  AtPoint(op, Tail(p)) /\ AtPoint(op, <<>>)
  <1>1. CASE op = "topicCreate"
    BY <1>1, TopicCreateMoves DEF AtPoint, TopicCreatePoints
  <1>2. CASE op = "topicDelete"
    BY <1>2, TopicDeleteMoves DEF AtPoint, TopicDeletePoints
  <1>3. CASE op = "bulkDelete"
    BY <1>3, BulkDeleteMoves DEF AtPoint, BulkDeletePoints
  <1>4. CASE op = "grantPut"
    BY <1>4, GrantPutMoves DEF AtPoint, GrantPutPoints
  <1>5. CASE op = "grantDelete"
    BY <1>5, GrantDeleteMoves DEF AtPoint, GrantDeletePoints
  <1>6. CASE op = "roleCreate"
    BY <1>6, RoleCreateMoves DEF AtPoint, RoleCreatePoints
  <1>7. CASE op = "rolePatch"
    BY <1>7, RolePatchMoves DEF AtPoint, RolePatchPoints
  <1>8. CASE op = "roleDelete"
    BY <1>8, RoleDeleteMoves DEF AtPoint, RoleDeletePoints
  <1>9. CASE op = "userCreate"
    BY <1>9, UserCreateMoves DEF AtPoint, UserCreatePoints
  <1>10. CASE op = "userPatch"
    BY <1>10, UserPatchMoves DEF AtPoint, UserPatchPoints
  <1>11. CASE op = "userDelete"
    BY <1>11, UserDeleteMoves DEF AtPoint, UserDeletePoints
  <1>12. CASE op = "overridePut"
    BY <1>12, OverridePutMoves DEF AtPoint, OverridePutPoints
  <1>13. CASE op = "overrideDelete"
    BY <1>13, OverrideDeleteMoves DEF AtPoint, OverrideDeletePoints
  <1>14. CASE op = "login"
    BY <1>14, LoginMoves DEF AtPoint, LoginPoints
  <1>15. CASE op = "load"
    BY <1>15, LoadMoves DEF AtPoint, LoadPoints
  <1> QED BY <1>1, <1>2, <1>3, <1>4, <1>5, <1>6, <1>7, <1>8, <1>9, <1>10, <1>11, <1>12, <1>13, <1>14, <1>15 DEF Ops

LEMMA Finishes ==
  ASSUME NEW op \in Ops, op # "topicPatch"
  PROVE  AtPoint(op, <<>>)
  BY DEF AtPoint, Ops, TopicCreatePoints, TopicDeletePoints, BulkDeletePoints, GrantPutPoints,
         GrantDeletePoints, RoleCreatePoints, RolePatchPoints, RoleDeletePoints, UserCreatePoints,
         UserPatchPoints, UserDeletePoints, OverridePutPoints, OverrideDeletePoints, LoginPoints,
         LoadPoints

(* Request i took a step that changed, of its record, the fields in F.        *)
Touched(i, F) ==
  /\ work' = work /\ DOMAIN serving' = DOMAIN serving
  /\ \A j \in Requests : j # i => serving'[j] = serving[j]
  /\ DOMAIN serving'[i] = Fields
  /\ \A f \in Fields \ F : serving'[i][f] = serving[i][f]
TablesOK ==
  /\ roles \subseteq Roles /\ held \subseteq Roles \X Right
  /\ topic \in [Topics -> TopicRow \cup {Absent}]
  /\ role \in [Users -> Roles \cup {Absent}]
  /\ copy \in [Tabs -> FormState]

LEMMA ShapeStep ==
  ASSUME AdminShape, NEW i \in Requests, NEW F, Touched(i, F), TablesOK', CallOK(Req(i), serving'[i])
  PROVE  AdminShape'
  BY DEF AdminShape, TablesOK, Touched, Requests, Req

LEMMA ShapeTables == ASSUME AdminShape PROVE TablesOK
  BY DEF AdminShape, TablesOK

LEMMA Called ==
  ASSUME AdminShape, NEW i \in Requests
  PROVE  /\ DOMAIN serving[i] = Fields /\ CallOK(Req(i), serving[i])
         /\ AdminRequest(Req(i)) /\ Req(i).op \in Ops /\ i \in Nat \ Users
  <1>1. work \in Workloads /\ i \in DOMAIN work.reqs
    BY DEF AdminShape, Requests
  <1>2. AdminRequest(Req(i)) /\ i \in Nat \ Users
    BY <1>1, WorkloadAssumption DEF Req
  <1>3. Req(i).op \in Ops
    BY <1>2 DEF AdminRequest
  <1> QED BY <1>2, <1>3 DEF AdminShape, Requests

LEMMA CalledAt ==
  ASSUME AdminShape, NEW i \in Requests, NEW s, At(i, s)
  PROVE  /\ InFlight(i) /\ serving[i].st = "run" /\ serving[i].prog # <<>> /\ Head(serving[i].prog) = s
         /\ AtPoint(Req(i).op, serving[i].prog) /\ Owner(Req(i).op, s)
  <1>1. CallOK(Req(i), serving[i]) /\ Req(i).op \in Ops
    BY Called
  <1>2. serving[i].prog # <<>> /\ Head(serving[i].prog) = s /\ InFlight(i)
    BY DEF At
  <1>3. Req(i).op = "topicPatch" => TopicAt(serving[i].body, serving[i].row, serving[i].prog)
    BY <1>1 DEF CallOK, PatchCall
  <1>4. AtPoint(Req(i).op, serving[i].prog)
    BY <1>1 DEF CallOK
  <1>5. Owner(Req(i).op, Head(serving[i].prog))
    BY <1>1, <1>2, <1>3, <1>4, Owners
  <1> QED BY <1>2, <1>4, <1>5 DEF InFlight

(* Operations whose requests hold nothing that the tables depend on. *)
Plain == Ops \ {"topicPatch", "topicDelete", "bulkDelete", "roleCreate", "rolePatch"}

LEMMA PlainStep ==
  ASSUME AdminShape, NEW i \in Requests, NEW s, At(i, s), Req(i).op \in Plain,
         NEW F, Touched(i, F), "st" \notin F, "body" \notin F,
         serving'[i].prog \in {<<>>, Tail(serving[i].prog)}, TablesOK'
  PROVE  AdminShape'
  <1>1. CallOK(Req(i), serving[i]) /\ AtPoint(Req(i).op, serving[i].prog) /\ serving[i].prog # <<>>
    BY Called, CalledAt
  <1>2. serving'[i].st = "run" /\ serving'[i].body = serving[i].body
    BY CalledAt DEF Touched, Fields
  <1>3. AtPoint(Req(i).op, serving'[i].prog)
    BY <1>1, LeavesPoint DEF Plain
  <1>4. CallOK(Req(i), serving'[i])
    BY <1>1, <1>2, <1>3 DEF CallOK, Plain
  <1> QED BY <1>4, ShapeStep

LEMMA AdvanceTouched ==
  ASSUME AdminShape, NEW i \in Requests, Advance(i, serving[i]), work' = work
  PROVE  Touched(i, {"prog"}) /\ serving'[i].prog = Tail(serving[i].prog)
  BY Called DEF Advance, Touched, Requests, Fields

LEMMA RefuseTouched ==
  ASSUME AdminShape, NEW i \in Requests, Refuse(i), work' = work
  PROVE  Touched(i, {"prog", "ok"}) /\ serving'[i].prog = <<>>
  BY Called DEF Refuse, Touched, Requests, Fields

(***************************************************************************)
(* What each statement does to its request                                 *)
(***************************************************************************)
LEMMA ClearHomeDoes ==
  ASSUME AdminShape, NEW i \in Requests, ClearHome(i)
  PROVE  /\ Touched(i, {"prog"})
         /\ serving'[i].prog = Tail(serving[i].prog)
  BY Called, CalledAt DEF ClearHome, Advance, Refuse, Touched, Requests, Fields, Else, db, seats

LEMMA WipeDoes ==
  ASSUME AdminShape, NEW i \in Requests, Wipe(i)
  PROVE  /\ Touched(i, {"prog"})
         /\ serving'[i].prog = Tail(serving[i].prog)
  BY Called, CalledAt DEF Wipe, Advance, Refuse, Touched, Requests, Fields, Else, db, seats

LEMMA DropOldDoes ==
  ASSUME AdminShape, NEW i \in Requests, DropOld(i)
  PROVE  /\ Touched(i, {"prog"})
         /\ serving'[i].prog = Tail(serving[i].prog)
  BY Called, CalledAt DEF DropOld, Advance, Refuse, Touched, Requests, Fields, Else, db, seats

LEMMA RenamePermsDoes ==
  ASSUME AdminShape, NEW i \in Requests, RenamePerms(i)
  PROVE  /\ Touched(i, {"prog"})
         /\ serving'[i].prog = Tail(serving[i].prog)
  BY Called, CalledAt DEF RenamePerms, Advance, Refuse, Touched, Requests, Fields, Else, db, seats

LEMMA DropNewDoes ==
  ASSUME AdminShape, NEW i \in Requests, DropNew(i)
  PROVE  /\ Touched(i, {"prog"})
         /\ serving'[i].prog = Tail(serving[i].prog)
  BY Called, CalledAt DEF DropNew, Advance, Refuse, Touched, Requests, Fields, Else, db, seats

LEMMA SyncPermsDoes ==
  ASSUME AdminShape, NEW i \in Requests, SyncPerms(i)
  PROVE  /\ Touched(i, {"prog"})
         /\ serving'[i].prog = Tail(serving[i].prog)
  BY Called, CalledAt DEF SyncPerms, Advance, Refuse, Touched, Requests, Fields, Else, db, seats

LEMMA DropPermsDoes ==
  ASSUME AdminShape, NEW i \in Requests, DropPerms(i)
  PROVE  /\ Touched(i, {"prog"})
         /\ serving'[i].prog = Tail(serving[i].prog)
  BY Called, CalledAt DEF DropPerms, Advance, Refuse, Touched, Requests, Fields, Else, db, seats

LEMMA DropTopicDoes ==
  ASSUME AdminShape, NEW i \in Requests, DropTopic(i)
  PROVE  /\ Touched(i, {"prog"})
         /\ serving'[i].prog = Tail(serving[i].prog)
  BY Called, CalledAt DEF DropTopic, Advance, Refuse, Touched, Requests, Fields, Else, db, seats

LEMMA UngrantDoes ==
  ASSUME AdminShape, NEW i \in Requests, Ungrant(i)
  PROVE  /\ Touched(i, {"prog"})
         /\ serving'[i].prog = Tail(serving[i].prog)
  BY Called, CalledAt DEF Ungrant, Advance, Refuse, Touched, Requests, Fields, Else, db, seats

LEMMA DeletePermsDoes ==
  ASSUME AdminShape, NEW i \in Requests, DeletePerms(i)
  PROVE  /\ Touched(i, {"prog"})
         /\ serving'[i].prog = Tail(serving[i].prog)
  BY Called, CalledAt DEF DeletePerms, Advance, Refuse, Touched, Requests, Fields, Else, db, seats

LEMMA SyncWriteDoes ==
  ASSUME AdminShape, NEW i \in Requests, SyncWrite(i)
  PROVE  /\ Touched(i, {"prog"})
         /\ serving'[i].prog = Tail(serving[i].prog)
  BY Called, CalledAt DEF SyncWrite, Advance, Refuse, Touched, Requests, Fields, Else, db, seats

LEMMA DeleteRoleDoes ==
  ASSUME AdminShape, NEW i \in Requests, DeleteRole(i)
  PROVE  /\ Touched(i, {"prog"})
         /\ serving'[i].prog = Tail(serving[i].prog)
  BY Called, CalledAt DEF DeleteRole, Advance, Refuse, Touched, Requests, Fields, Else, db, seats

LEMMA BlockDoes ==
  ASSUME AdminShape, NEW i \in Requests, Block(i)
  PROVE  /\ Touched(i, {"prog"})
         /\ serving'[i].prog = Tail(serving[i].prog)
  BY Called, CalledAt DEF Block, Advance, Refuse, Touched, Requests, Fields, Else, db, seats

LEMMA CloseDoes ==
  ASSUME AdminShape, NEW i \in Requests, Close(i)
  PROVE  /\ Touched(i, {"prog"})
         /\ serving'[i].prog = Tail(serving[i].prog)
  BY Called, CalledAt DEF Close, Advance, Refuse, Touched, Requests, Fields, Else, db, seats

LEMMA InsertUserDoes ==
  ASSUME AdminShape, NEW i \in Requests, InsertUser(i)
  PROVE  /\ Touched(i, {"prog"})
         /\ serving'[i].prog = Tail(serving[i].prog)
  BY Called, CalledAt DEF InsertUser, Advance, Refuse, Touched, Requests, Fields, Else, db, seats

LEMMA DeleteUserDoes ==
  ASSUME AdminShape, NEW i \in Requests, DeleteUser(i)
  PROVE  /\ Touched(i, {"prog"})
         /\ serving'[i].prog = Tail(serving[i].prog)
  BY Called, CalledAt DEF DeleteUser, Advance, Refuse, Touched, Requests, Fields, Else, db, seats

LEMMA OverrideDoes ==
  ASSUME AdminShape, NEW i \in Requests, Override(i)
  PROVE  /\ Touched(i, {"prog"})
         /\ serving'[i].prog = Tail(serving[i].prog)
  BY Called, CalledAt DEF Override, Advance, Refuse, Touched, Requests, Fields, Else, db, seats

LEMMA UnoverrideDoes ==
  ASSUME AdminShape, NEW i \in Requests, Unoverride(i)
  PROVE  /\ Touched(i, {"prog"})
         /\ serving'[i].prog = Tail(serving[i].prog)
  BY Called, CalledAt DEF Unoverride, Advance, Refuse, Touched, Requests, Fields, Else, db, seats

LEMMA OldSlugDoes ==
  ASSUME AdminShape, NEW i \in Requests, OldSlug(i)
  PROVE  /\ Touched(i, {"prog", "had"})
         /\ serving'[i].prog = Tail(serving[i].prog)
         /\ serving'[i].had = {h \in held : h[2] \in TopicPerms(serving[i].row.slug)}
  BY Called, CalledAt, Zenon DEF OldSlug, Advance, Refuse, Touched, Requests, Fields, Else, db, seats

LEMMA SlugOfDoes ==
  ASSUME AdminShape, NEW i \in Requests, SlugOf(i)
  PROVE  /\ Touched(i, {"prog", "row"})
         /\ serving'[i].prog = Tail(serving[i].prog)
         /\ serving'[i].row = topic[Req(i).t]
  BY Called, CalledAt DEF SlugOf, Advance, Refuse, Touched, Requests, Fields, Else, db, seats

LEMMA SessionsOfDoes ==
  ASSUME AdminShape, NEW i \in Requests, SessionsOf(i)
  PROVE  /\ Touched(i, {"prog", "had"})
         /\ serving'[i].prog = Tail(serving[i].prog)
         /\ serving'[i].had = {o[1] : o \in {x \in open : x[2] \in Targets(i)}}
  BY Called, CalledAt, Zenon DEF SessionsOf, Advance, Refuse, Touched, Requests, Fields, Else, db, seats

LEMMA PriorDoes ==
  ASSUME AdminShape, NEW i \in Requests, Prior(i)
  PROVE  /\ Touched(i, {"prog", "at"})
         /\ serving'[i].prog = Tail(serving[i].prog)
         /\ serving'[i].at = role[Req(i).u]
  BY Called, CalledAt DEF Prior, Advance, Refuse, Touched, Requests, Fields, Else, db, seats

LEMMA PermissionsDoes ==
  ASSUME AdminShape, NEW i \in Requests, Permissions(i)
  PROVE  /\ Touched(i, {"prog", "perms"})
         /\ serving'[i].prog = Tail(serving[i].prog)
         /\ serving'[i].perms = Resolve(Req(i).u, PermsOf(serving[i].at))
  BY Called, CalledAt DEF Permissions, Advance, Refuse, Touched, Requests, Fields, Else, db, seats

LEMMA CloneDoes ==
  ASSUME AdminShape, NEW i \in Requests, Clone(i)
  PROVE  /\ Touched(i, {"prog", "perms", "todo"})
         /\ serving'[i].prog = Tail(serving[i].prog)
         /\ serving'[i].perms = (IF Req(i).from = Absent THEN {} ELSE PermsOf(Req(i).from))
         /\ serving'[i].todo = (IF Req(i).from = Absent THEN {} ELSE PermsOf(Req(i).from))
  BY Called, CalledAt, Zenon DEF Clone, Advance, Refuse, Touched, Requests, Fields, Else, db, seats

LEMMA DropAllDoes ==
  ASSUME AdminShape, NEW i \in Requests, DropAll(i)
  PROVE  /\ Touched(i, {"prog", "ids"})
         /\ serving'[i].prog = Tail(serving[i].prog)
         /\ serving'[i].ids = {t \in serving[i].ids : topic[t] # Absent}
  BY Called, CalledAt, Zenon DEF DropAll, Advance, Refuse, Touched, Requests, Fields, Else, db, seats

LEMMA InsertTopicDoes ==
  ASSUME AdminShape, NEW i \in Requests, InsertTopic(i)
  PROVE  /\ Touched(i, {"prog", "ok"})
         /\ serving'[i].prog = IF SlugTaken(Absent, Req(i).slug) \/ topic[Req(i).t] # Absent THEN <<>> ELSE Tail(serving[i].prog)
  <1>1. work' = work /\ IF SlugTaken(Absent, Req(i).slug) \/ topic[Req(i).t] # Absent THEN Refuse(i) ELSE Advance(i, serving[i])
    BY DEF InsertTopic, Else
  <1>2. Touched(i, {"prog"}) => Touched(i, {"prog", "ok"})
    BY DEF Touched
  <1> QED BY <1>1, <1>2, AdvanceTouched, RefuseTouched

LEMMA GrantDoes ==
  ASSUME AdminShape, NEW i \in Requests, Grant(i)
  PROVE  /\ Touched(i, {"prog", "ok"})
         /\ serving'[i].prog = IF topic[Req(i).t] = Absent THEN <<>> ELSE Tail(serving[i].prog)
  <1>1. work' = work /\ IF topic[Req(i).t] = Absent THEN Refuse(i) ELSE Advance(i, serving[i])
    BY DEF Grant, Else
  <1>2. Touched(i, {"prog"}) => Touched(i, {"prog", "ok"})
    BY DEF Touched
  <1> QED BY <1>1, <1>2, AdvanceTouched, RefuseTouched

LEMMA ExistsDoes ==
  ASSUME AdminShape, NEW i \in Requests, Exists(i)
  PROVE  /\ Touched(i, {"prog", "ok"})
         /\ serving'[i].prog = IF Req(i).r \in roles THEN <<>> ELSE Tail(serving[i].prog)
  <1>1. work' = work /\ IF Req(i).r \in roles THEN Refuse(i) ELSE Advance(i, serving[i])
    BY DEF Exists, Else
  <1>2. Touched(i, {"prog"}) => Touched(i, {"prog", "ok"})
    BY DEF Touched
  <1> QED BY <1>1, <1>2, AdvanceTouched, RefuseTouched

LEMMA InsertRoleDoes ==
  ASSUME AdminShape, NEW i \in Requests, InsertRole(i)
  PROVE  /\ Touched(i, {"prog", "ok"})
         /\ serving'[i].prog = IF Req(i).r \in roles THEN <<>> ELSE Tail(serving[i].prog)
  <1>1. work' = work /\ IF Req(i).r \in roles THEN Refuse(i) ELSE Advance(i, serving[i])
    BY DEF InsertRole
  <1>2. Touched(i, {"prog"}) => Touched(i, {"prog", "ok"})
    BY DEF Touched
  <1> QED BY <1>1, <1>2, AdvanceTouched, RefuseTouched

LEMMA RoleRowDoes ==
  ASSUME AdminShape, NEW i \in Requests, RoleRow(i)
  PROVE  /\ Touched(i, {"prog", "ok"})
         /\ serving'[i].prog = IF Req(i).r \notin roles \/ Req(i).r \in work.system THEN <<>> ELSE Tail(serving[i].prog)
  <1>1. work' = work /\ IF Req(i).r \notin roles \/ Req(i).r \in work.system THEN Refuse(i) ELSE Advance(i, serving[i])
    BY DEF RoleRow, Else
  <1>2. Touched(i, {"prog"}) => Touched(i, {"prog", "ok"})
    BY DEF Touched
  <1> QED BY <1>1, <1>2, AdvanceTouched, RefuseTouched

LEMMA UpdateUserDoes ==
  ASSUME AdminShape, NEW i \in Requests, UpdateUser(i)
  PROVE  /\ Touched(i, {"prog", "ok"})
         /\ serving'[i].prog = IF role[Req(i).u] = Absent THEN <<>> ELSE Tail(serving[i].prog)
  <1>1. work' = work /\ IF role[Req(i).u] = Absent THEN Refuse(i) ELSE Advance(i, serving[i])
    BY DEF UpdateUser, Else
  <1>2. Touched(i, {"prog"}) => Touched(i, {"prog", "ok"})
    BY DEF Touched
  <1> QED BY <1>1, <1>2, AdvanceTouched, RefuseTouched

LEMMA SessionDoes ==
  ASSUME AdminShape, NEW i \in Requests, Session(i)
  PROVE  /\ Touched(i, {"prog", "ok"})
         /\ serving'[i].prog = IF role[Req(i).u] = Absent THEN <<>> ELSE Tail(serving[i].prog)
  <1>1. work' = work /\ IF role[Req(i).u] = Absent THEN Refuse(i) ELSE Advance(i, serving[i])
    BY DEF Session
  <1>2. Touched(i, {"prog"}) => Touched(i, {"prog", "ok"})
    BY DEF Touched
  <1> QED BY <1>1, <1>2, AdvanceTouched, RefuseTouched

LEMMA ProfileDoes ==
  ASSUME AdminShape, NEW i \in Requests, Profile(i)
  PROVE  /\ Touched(i, {"prog", "ok", "at"})
         /\ role[Req(i).u] = Absent => serving'[i].prog = <<>>
         /\ role[Req(i).u] # Absent => serving'[i].prog = Tail(serving[i].prog) /\ serving'[i].at = role[Req(i).u]
  <1>1. DOMAIN serving[i] = Fields /\ i \in DOMAIN serving
    BY Called DEF Requests
  <1>2. CASE role[Req(i).u] = Absent
    BY <1>1, <1>2 DEF Profile, Refuse, Touched, Requests, Fields, Else
  <1>3. CASE role[Req(i).u] # Absent
    BY <1>1, <1>3 DEF Profile, Advance, Touched, Requests, Fields, Else
  <1> QED BY <1>2, <1>3

LEMMA OldPermsDoes ==
  ASSUME AdminShape, NEW i \in Requests, OldPerms(i)
  PROVE  /\ Touched(i, {"prog", "ok", "todo", "had"})
         /\ Req(i).r \notin roles => serving'[i].prog = <<>>
         /\ Req(i).r \in roles =>
              /\ serving'[i].prog = Tail(serving[i].prog) /\ serving'[i].todo = serving[i].perms
              /\ serving'[i].had = {p \in (serving[i].perms \ PermsOf(Req(i).r)) \cup (PermsOf(Req(i).r) \ serving[i].perms) : p[2] \in Parsed}
  <1> DEFINE H == {p \in (serving[i].perms \ PermsOf(Req(i).r)) \cup (PermsOf(Req(i).r) \ serving[i].perms) : p[2] \in Parsed}
  <1>1. DOMAIN serving[i] = Fields /\ i \in DOMAIN serving
    BY Called DEF Requests
  <1>2. CASE Req(i).r \notin roles
    BY <1>1, <1>2 DEF OldPerms, Refuse, Touched, Requests, Fields
  <1>3. CASE Req(i).r \in roles
    <2>1. Advance(i, [serving[i] EXCEPT !.todo = serving[i].perms, !.had = H]) /\ work' = work
      BY <1>3 DEF OldPerms
    <2> HIDE DEF H
    <2>2. Touched(i, {"prog", "ok", "todo", "had"}) /\ serving'[i].prog = Tail(serving[i].prog)
      BY <1>1, <2>1 DEF Advance, Touched, Requests, Fields
    <2>3. serving'[i].todo = serving[i].perms /\ serving'[i].had = H
      BY <1>1, <2>1 DEF Advance, Fields
    <2> QED BY <1>3, <2>2, <2>3 DEF H
  <1> QED BY <1>2, <1>3

LEMMA SlugsOfDoes ==
  ASSUME AdminShape, NEW i \in Requests, SlugsOf(i), NEW ids, ids = {t \in Req(i).ts : topic[t] # Absent}
  PROVE  /\ Touched(i, {"prog", "ids", "todo"})
         /\ ids = {} => serving'[i].prog = <<>> /\ serving'[i].ids = serving[i].ids /\ serving'[i].todo = serving[i].todo
         /\ ids # {} => /\ serving'[i].prog = Tail(serving[i].prog)
                        /\ serving'[i].ids = ids /\ serving'[i].todo = {topic[t].slug : t \in ids}
  <1>1. DOMAIN serving[i] = Fields /\ i \in DOMAIN serving
    BY Called DEF Requests
  <1>2. CASE ids = {}
    <2>1. serving' = [serving EXCEPT ![i].prog = <<>>] /\ work' = work
      BY <1>2 DEF SlugsOf, Else
    <2> QED BY <1>1, <1>2, <2>1 DEF Touched, Requests, Fields
  <1>3. CASE ids # {}
    <2> DEFINE S == {topic[t].slug : t \in ids}
    <2>1. Advance(i, [serving[i] EXCEPT !.ids = ids, !.todo = S]) /\ work' = work
      BY <1>3 DEF SlugsOf, Else
    <2> HIDE DEF S
    <2>2. Touched(i, {"prog", "ids", "todo"}) /\ serving'[i].prog = Tail(serving[i].prog)
      BY <1>1, <2>1, Zenon DEF Advance, Touched, Requests, Fields
    <2>3. serving'[i].ids = ids /\ serving'[i].todo = S
      BY <1>1, <2>1, Zenon DEF Advance, Fields
    <2> QED BY <1>3, <2>2, <2>3 DEF S
  <1> QED BY <1>2, <1>3

LEMMA UsersOfDoes ==
  ASSUME AdminShape, NEW i \in Requests, UsersOf(i), NEW us, us = {u \in Users : role[u] = Req(i).r}
  PROVE  /\ Touched(i, {"prog", "ids"})
         /\ us = {} => serving'[i].prog = SubSeq(serving[i].prog, 5, Len(serving[i].prog))
         /\ us # {} => serving'[i].prog = Tail(serving[i].prog) /\ serving'[i].ids = us
  <1>1. DOMAIN serving[i] = Fields /\ i \in DOMAIN serving
    BY Called DEF Requests
  <1>2. CASE us = {}
    <2>1. serving' = [serving EXCEPT ![i].prog = SubSeq(@, 5, Len(@))] /\ work' = work
      BY <1>2 DEF UsersOf, Else
    <2> QED BY <1>1, <1>2, <2>1 DEF Touched, Requests, Fields
  <1>3. CASE us # {}
    <2>1. Advance(i, [serving[i] EXCEPT !.ids = us]) /\ work' = work
      BY <1>3 DEF UsersOf, Else
    <2> QED BY <1>1, <1>3, <2>1, Zenon DEF Advance, Touched, Requests, Fields
  <1> QED BY <1>2, <1>3

LEMMA ExistingDoes ==
  ASSUME AdminShape, NEW i \in Requests, Existing(i), NEW ex, ex = topic[Req(i).t]
  PROVE  /\ Touched(i, {"prog", "row", "ok"})
         /\ ex = Absent => serving'[i].prog = <<>>
         /\ ex # Absent => serving'[i].row = ex /\ serving'[i].prog = PatchProgram(serving[i].body, ex)
  <1>1. DOMAIN serving[i] = Fields /\ i \in DOMAIN serving
    BY Called DEF Requests
  <1>2. CASE ex = Absent
    BY <1>1, <1>2 DEF Existing, Refuse, Touched, Requests, Fields, Else
  <1>3. CASE ex # Absent
    <2> DEFINE P == PatchProgram(serving[i].body, ex)
    <2>1. serving' = [serving EXCEPT ![i].row = ex, ![i].prog = P] /\ work' = work
      BY <1>3 DEF Existing, Else
    <2> HIDE DEF P
    <2>2. Touched(i, {"prog", "row", "ok"}) /\ serving'[i].row = ex /\ serving'[i].prog = P
      BY <1>1, <2>1 DEF Touched, Requests, Fields
    <2> QED BY <1>3, <2>2 DEF P
  <1> QED BY <1>2, <1>3

(* The UPDATE of a topic is refused, or the row is merged.                    *)
UpdateRefused(i) ==
  LET t == Req(i).t   p == PatchOf(serving[i].body, serving[i].row)
  IN topic[t] = Absent \/ (Asks(p, "slug") /\ SlugTaken(t, p.slug))

LEMMA UpdateTopicDoes ==
  ASSUME AdminShape, NEW i \in Requests, UpdateTopic(i), NEW t, t = Req(i).t,
         NEW p, p = PatchOf(serving[i].body, serving[i].row)
  PROVE  /\ Touched(i, {"prog", "row", "ok"})
         /\ UpdateRefused(i) => serving'[i].prog = <<>> /\ "failed" \in odd' /\ topic' = topic
         /\ ~UpdateRefused(i) =>
              /\ topic[t] # Absent /\ topic' = [topic EXCEPT ![t] = Merge(topic[t], p)] /\ odd' = odd
              /\ serving'[i].prog = Tail(serving[i].prog)
              /\ serving'[i].row = Merge(topic'[t], [slug |-> Merge(serving[i].row, p).slug])
  <1>1. DOMAIN serving[i] = Fields /\ i \in DOMAIN serving
    BY Called DEF Requests
  <1>2. CASE UpdateRefused(i)
    <2>1. Refuse(i) /\ odd' = odd \cup {"failed"} /\ topic' = topic /\ work' = work
      BY <1>2 DEF UpdateTopic, UpdateRefused
    <2> QED BY <1>1, <1>2, <2>1 DEF Refuse, Touched, Requests, Fields
  <1>3. CASE ~UpdateRefused(i)
    <2> DEFINE R == Merge(topic'[t], [slug |-> Merge(serving[i].row, p).slug])
    <2>1. topic' = [topic EXCEPT ![t] = Merge(topic[t], p)] /\ odd' = odd /\ work' = work /\ topic[t] # Absent
      BY <1>3 DEF UpdateTopic, UpdateRefused
    <2>2. Advance(i, [serving[i] EXCEPT !.row = R])
      BY <1>3 DEF UpdateTopic, UpdateRefused
    <2> HIDE DEF R
    <2>3. Touched(i, {"prog", "row", "ok"}) /\ serving'[i].prog = Tail(serving[i].prog) /\ serving'[i].row = R
      BY <1>1, <2>1, <2>2 DEF Advance, Touched, Requests, Fields
    <2> QED BY <1>3, <2>1, <2>3 DEF R
  <1> QED BY <1>2, <1>3

LEMMA InsertPermsDoes ==
  ASSUME AdminShape, NEW i \in Requests, InsertPerms(i)
  PROVE  \/ /\ serving[i].todo = {} /\ Touched(i, {"prog", "todo"})
            /\ serving'[i].prog = Tail(serving[i].prog) /\ serving'[i].todo = serving[i].had
            /\ UNCHANGED <<held, odd, torn>>
         \/ /\ Touched(i, {"prog", "ok"}) /\ serving'[i].prog = <<>>
            /\ Req(i).op = "rolePatch" /\ "failed" \in odd' /\ UNCHANGED <<held, torn>>
         \/ \E p \in serving[i].todo :
              /\ Touched(i, {"todo"}) /\ serving'[i].todo = serving[i].todo \ {p}
              /\ held' = held \cup {<<Req(i).r, p>>} /\ odd' = odd
              /\ torn' = IF Req(i).op = "rolePatch" THEN torn ELSE torn \cup Bearers(Req(i).r)
  <1>1. DOMAIN serving[i] = Fields /\ i \in DOMAIN serving
    BY Called DEF Requests
  <1>2. CASE serving[i].todo = {}
    <2>1. Advance(i, [serving[i] EXCEPT !.todo = serving[i].had]) /\ UNCHANGED <<held, odd, torn, work>>
      BY <1>2 DEF InsertPerms
    <2> QED BY <1>1, <1>2, <2>1 DEF Advance, Touched, Requests, Fields
  <1>3. CASE serving[i].todo # {}
    <2>1. PICK p \in serving[i].todo :
            IF <<Req(i).r, p>> \in held /\ Req(i).op = "rolePatch"
            THEN Refuse(i) /\ odd' = odd \cup {"failed"} /\ UNCHANGED <<held, torn>>
            ELSE /\ UNCHANGED odd
                 /\ held' = held \cup {<<Req(i).r, p>>}
                 /\ torn' = IF Req(i).op = "rolePatch" THEN torn ELSE torn \cup Bearers(Req(i).r)
                 /\ serving' = [serving EXCEPT ![i].todo = @ \ {p}]
      BY <1>3 DEF InsertPerms
    <2>2. work' = work
      BY DEF InsertPerms
    <2>3. CASE <<Req(i).r, p>> \in held /\ Req(i).op = "rolePatch"
      BY <1>1, <2>1, <2>2, <2>3 DEF Refuse, Touched, Requests, Fields
    <2>4. CASE ~(<<Req(i).r, p>> \in held /\ Req(i).op = "rolePatch")
      <3>1. Touched(i, {"todo"}) /\ serving'[i].todo = serving[i].todo \ {p}
        BY <1>1, <2>1, <2>2, <2>4 DEF Touched, Requests, Fields
      <3> QED BY <2>1, <2>4, <3>1
    <2> QED BY <2>3, <2>4
  <1> QED BY <1>2, <1>3

Named(p) == {t \in Topics : topic[t] # Absent /\ topic[t].slug = p[1]}

LEMMA SyncReadDoes ==
  ASSUME AdminShape, NEW i \in Requests, SyncRead(i)
  PROVE  \/ /\ serving[i].todo = {} /\ Touched(i, {"prog"})
            /\ serving'[i].prog = Tail(serving[i].prog) /\ odd' = odd
         \/ \E p \in serving[i].todo :
              /\ Named(p) = {} \/ \E t \in Named(p) : Req(i).r \in topic[t][p[2]] /\ p \in serving[i].perms
              /\ Touched(i, {"todo"}) /\ serving'[i].todo = serving[i].todo \ {p}
              /\ odd' = IF Named(p) = {} /\ p[1] # Absent THEN odd \cup {"unlisted"} ELSE odd
         \/ \E p \in serving[i].todo : \E t \in Named(p) :
              /\ Touched(i, {"todo", "at", "row", "prog"}) /\ serving'[i].todo = serving[i].todo \ {p}
              /\ serving'[i].at = p /\ serving'[i].row = topic[t]
              /\ serving'[i].prog = First("syncWrite", serving[i].prog) /\ odd' = odd
  <1>1. DOMAIN serving[i] = Fields /\ i \in DOMAIN serving /\ work' = work
    BY Called, Zenon DEF Requests, SyncRead
  <1>2. CASE serving[i].todo = {}
    <2>1. Advance(i, serving[i]) /\ odd' = odd
      BY <1>2 DEF SyncRead
    <2> QED BY <1>1, <1>2, <2>1 DEF Advance, Touched, Requests, Fields
  <1>3. CASE serving[i].todo # {}
    <2> DEFINE Short(p) == Named(p) = {} \/ \E t \in Named(p) : Req(i).r \in topic[t][p[2]] /\ p \in serving[i].perms
    <2>1. PICK p \in serving[i].todo :
            IF Short(p)
            THEN /\ serving' = [serving EXCEPT ![i].todo = @ \ {p}]
                 /\ odd' = IF Named(p) = {} /\ p[1] # Absent THEN odd \cup {"unlisted"} ELSE odd
            ELSE /\ serving' = [serving EXCEPT ![i].todo = @ \ {p}, ![i].at = p,
                          ![i].row = topic[CHOOSE t \in Named(p) : TRUE],
                          ![i].prog = First("syncWrite", @)]
                 /\ odd' = odd
      <3> HIDE DEF Short
      <3>1. \A p \in IF serving[i].todo \cap serving[i].perms # {} THEN serving[i].todo \cap serving[i].perms ELSE serving[i].todo :
              p \in serving[i].todo
        OBVIOUS
      <3> QED BY <1>3, <3>1, Zenon DEF SyncRead, Named, Short
    <2>2. CASE Short(p)
      <3>1. Touched(i, {"todo"}) /\ serving'[i].todo = serving[i].todo \ {p}
        BY <1>1, <2>1, <2>2 DEF Touched, Requests, Fields
      <3> QED BY <2>1, <2>2, <3>1, Zenon
    <2>3. CASE ~Short(p)
      <3> DEFINE t == CHOOSE o \in Named(p) : TRUE
                 P == First("syncWrite", serving[i].prog)
      <3>1. t \in Named(p)
        BY <2>3
      <3>2. serving' = [serving EXCEPT ![i].todo = @ \ {p}, ![i].at = p, ![i].row = topic[t], ![i].prog = P] /\ odd' = odd
        BY <2>1, <2>3, Zenon
      <3> HIDE DEF t, P
      <3>3. /\ Touched(i, {"todo", "at", "row", "prog"}) /\ serving'[i].todo = serving[i].todo \ {p}
            /\ serving'[i].at = p /\ serving'[i].row = topic[t] /\ serving'[i].prog = P
        BY <1>1, <3>2 DEF Touched, Requests, Fields
      <3>4. serving'[i].prog = First("syncWrite", serving[i].prog)
        BY <3>3 DEF P
      <3> HIDE DEF Short
      <3> QED BY <3>1, <3>2, <3>3, <3>4
    <2> QED BY <2>2, <2>3
  <1> QED BY <1>2, <1>3

(***************************************************************************)
(* Entries and answers                                                     *)
(***************************************************************************)
Enters(i) == Press(i) \/ SaveRole(i) \/ SignIn(i)
Shows(i) ==
  \/ SavedTopic(i) \/ DeletedTopic(i) \/ DeletedTopics(i) \/ CreatedTopic(i) \/ SavedRole(i)
  \/ CreatedRole(i) \/ DeletedRole(i) \/ Settled(i) \/ SignedIn(i)

LEMMA EnterDoes ==
  ASSUME AdminShape, NEW i \in Requests, Enters(i)
  PROVE  /\ Touched(i, {"st", "prog", "body", "perms"})
         /\ serving[i].st = "new" /\ serving'[i].st = "run" /\ serving'[i].prog = Program(Req(i))
         /\ work.lap \/ \A j \in Requests : j < i => serving[j].st = "done"
         /\ odd' = IF Changes(i) /\ \E j \in Requests : InFlight(j) /\ Changes(j) THEN odd \cup {"lapped"} ELSE odd
         /\ UNCHANGED <<db, seats, sock, cache, audit, torn>>
  <1>1. DOMAIN serving[i] = Fields /\ i \in DOMAIN serving
    BY Called DEF Requests
  <1>2. PICK c : Enter(i, c) /\ DOMAIN c = Fields /\ \A f \in Fields \ {"body", "perms"} : c[f] = serving[i][f]
    <2>1. CASE Press(i)
      <3>1. PICK b : Enter(i, [serving[i] EXCEPT !.body = b])
        BY <2>1 DEF Press
      <3> QED BY <1>1, <3>1 DEF Fields
    <2>2. CASE SaveRole(i)
      <3>1. PICK p : Enter(i, [serving[i] EXCEPT !.perms = p])
        BY <2>2 DEF SaveRole
      <3> QED BY <1>1, <3>1 DEF Fields
    <2>3. CASE SignIn(i)
      BY <1>1, <2>3 DEF SignIn, Fields
    <2> QED BY <2>1, <2>2, <2>3 DEF Enters
  <1>3. Touched(i, {"st", "prog", "body", "perms"}) /\ serving'[i].st = "run" /\ serving'[i].prog = Program(Req(i))
    BY <1>1, <1>2 DEF Enter, Touched, Requests, Fields
  <1> QED BY <1>2, <1>3 DEF Enter

LEMMA StartsAtPoint ==
  ASSUME NEW q, q.op \in Ops, q.op # "topicPatch"
  PROVE  AtPoint(q.op, Program(q))
  BY Programs DEF AtPoint, Ops, TopicCreatePoints, TopicDeletePoints, BulkDeletePoints, GrantPutPoints,
         GrantDeletePoints, RoleCreatePoints, RolePatchPoints, RoleDeletePoints, UserCreatePoints,
         UserPatchPoints, UserDeletePoints, OverridePutPoints, OverrideDeletePoints, LoginPoints,
         LoadPoints

LEMMA FormRow ==
  ASSUME AdminShape, NEW b \in Tabs, NEW t \in Topics, copy[b].rows[t] # Absent
  PROVE  copy[b].rows[t] \in TopicRow
  BY DEF AdminShape, FormState

LEMMA RowList ==
  ASSUME NEW row \in TopicRow, NEW a \in Acts PROVE row[a] \subseteq Roles
  BY RowForm DEF Acts

LEMMA PressAsks ==
  ASSUME AdminShape, NEW i \in Requests, Press(i)
  PROVE  Asked(serving'[i].body)
  <1> DEFINE q == Req(i)
             b == IF q.op = "topicPatch" THEN TopicBody(q) ELSE <<>>
  <1>1. DOMAIN serving[i] = Fields /\ i \in DOMAIN serving /\ AdminRequest(q)
    BY Called DEF Requests
  <1>2. Enter(i, [serving[i] EXCEPT !.body = b])
    BY DEF Press
  <1>3. serving'[i].body = b
    <2> HIDE DEF b
    <2> QED BY <1>1, <1>2 DEF Enter, Fields
  <1>4. CASE q.op # "topicPatch"
    <2>1. DOMAIN <<>> = {}
      OBVIOUS
    <2>2. Asked(<<>>)
      BY <2>1 DEF Asked
    <2> QED BY <1>3, <1>4, <2>2
  <1>5. CASE q.op = "topicPatch" /\ ~Ticks(q)
    BY <1>1, <1>3, <1>5 DEF TopicBody, AdminRequest
  <1>6. CASE q.op = "topicPatch" /\ Ticks(q)
    <2>1. q.field \in Acts /\ q.tick \in Roles \cup {"everyone"} /\ q.tab \in Tabs /\ q.t \in Topics
      BY <1>1, <1>6 DEF AdminRequest, Ticks
    <2>2. copy[q.tab].rows[q.t] \in TopicRow
      BY <1>6, <2>1, FormRow DEF Press
    <2>3. Ticked(q) \subseteq Roles
      BY <2>1, <2>2, RowList DEF Ticked
    <2>4. Listing(Ticked(q), q.tick) \subseteq Roles
      BY <2>1, <2>3, WorkloadAssumption DEF Listing
    <2>5. \A f \in DOMAIN b : f \in Acts /\ b[f] \subseteq Roles
      <3>1. b = [f \in {q.field} |-> Listing(Ticked(q), q.tick)]
        BY <1>6 DEF TopicBody
      <3> HIDE DEF b
      <3> QED BY <2>1, <2>4, <3>1
    <2> HIDE DEF b
    <2>6. Asked(b)
      BY <2>5 DEF Asked, Acts
    <2> QED BY <1>3, <2>6
  <1> QED BY <1>4, <1>5, <1>6

LEMMA SaveRoleDoes ==
  ASSUME AdminShape, NEW i \in Requests, SaveRole(i)
  PROVE  /\ serving'[i].perms = RolePerms(Req(i)) /\ serving'[i].perms \subseteq Right
         /\ serving'[i].body = serving[i].body
         /\ copy' \in [Tabs -> FormState]
  <1> DEFINE q == Req(i)   p == RolePerms(q)
  <1>1. DOMAIN serving[i] = Fields /\ i \in DOMAIN serving /\ AdminRequest(q)
    BY Called DEF Requests
  <1>2. q.r \in Roles /\ q.tab \in Tabs /\ q.perm \in Right
    BY <1>1 DEF AdminRequest, SaveRole, Perm, Right
  <1>3. copy \in [Tabs -> FormState]
    BY DEF AdminShape
  <1>4. p \subseteq Right
    BY <1>2, <1>3 DEF RolePerms, FormState
  <1>5. Enter(i, [serving[i] EXCEPT !.perms = p]) /\ copy' = [copy EXCEPT ![q.tab].perms[q.r] = p]
    BY DEF SaveRole
  <1> HIDE DEF p
  <1>6. serving'[i].perms = p /\ serving'[i].body = serving[i].body
    BY <1>1, <1>5 DEF Enter, Fields
  <1>7. copy' \in [Tabs -> FormState]
    BY <1>2, <1>3, <1>4, <1>5 DEF FormState
  <1> QED BY <1>4, <1>6, <1>7 DEF p

LEMMA SignInDoes ==
  ASSUME AdminShape, NEW i \in Requests, SignIn(i)
  PROVE  Req(i).op = "login" /\ serving'[i].body = serving[i].body /\ copy' = copy
  <1>1. DOMAIN serving[i] = Fields /\ i \in DOMAIN serving
    BY Called DEF Requests
  <1> QED BY <1>1 DEF SignIn, Enter, Fields

LEMMA EnterShape ==
  ASSUME AdminShape, NEW i \in Requests, Enters(i)
  PROVE  AdminShape'
  <1> DEFINE q == Req(i)   c == serving[i]   d == serving'[i]
  <1>1. /\ Touched(i, {"st", "prog", "body", "perms"}) /\ d.st = "run" /\ d.prog = Program(q)
        /\ UNCHANGED db /\ c.st = "new"
    BY EnterDoes
  <1>2. CallOK(q, c) /\ q.op \in Ops
    BY Called
  <1>3. /\ Asked(d.body) /\ copy' \in [Tabs -> FormState]
        /\ q.op = "rolePatch" => d.perms \subseteq Right
        /\ q.op # "rolePatch" => d.perms = c.perms
    <2>0. DOMAIN serving[i] = Fields /\ i \in DOMAIN serving /\ Asked(c.body) /\ copy \in [Tabs -> FormState]
      BY <1>2, Called DEF Requests, CallOK, AdminShape
    <2>1. CASE Press(i)
      <3>1. PICK b : Enter(i, [c EXCEPT !.body = b])
        BY <2>1 DEF Press
      <3>2. d.perms = c.perms
        BY <2>0, <3>1 DEF Enter, Fields
      <3> QED BY <2>0, <2>1, <3>2, PressAsks DEF Press
    <2>2. CASE SaveRole(i)
      BY <2>0, <2>2, SaveRoleDoes DEF SaveRole
    <2>3. CASE SignIn(i)
      <3>1. d.perms = c.perms
        BY <2>0, <2>3 DEF SignIn, Enter, Fields
      <3> QED BY <2>0, <2>3, <3>1, SignInDoes
    <2> QED BY <2>1, <2>2, <2>3 DEF Enters
  <1>4. d.row = c.row /\ d.had = c.had /\ d.todo = c.todo /\ d.ids = c.ids /\ d.at = c.at
    BY <1>1 DEF Touched, Fields
  <1>5. AtPoint(q.op, d.prog)
    BY <1>1, <1>2, StartsAtPoint DEF AtPoint
  <1>6. CallOK(q, d)
    <2>1. q.op = "topicPatch" => PatchCall(d)
      BY <1>1, Programs DEF PatchCall, TopicAt
    <2>2. q.op = "bulkDelete" => BulkCall(d)
      BY <1>2, <1>4 DEF CallOK, BulkCall
    <2>3. q.op = "topicDelete" => d.prog # <<"dropPerms", "dropTopic">>
      <3>1. <<"dropPerms", "dropTopic">> # <<"slugOf", "dropPerms", "dropTopic">>
        OBVIOUS
      <3> QED BY <1>1, <3>1, Programs
    <2>4. q.op \in {"roleCreate", "rolePatch"} => Head(d.prog) \in {"exists", "oldPerms"}
      BY <1>1, Programs
    <2>5. q.op \in {"roleCreate", "rolePatch"} => RolesCall(q, d)
      BY <1>2, <1>3, <1>4, <2>4 DEF CallOK, RolesCall
    <2> HIDE DEF q, c, d
    <2> QED BY <1>1, <1>3, <1>5, <2>1, <2>2, <2>3, <2>5 DEF CallOK
  <1>7. TablesOK'
    BY <1>1, <1>3, ShapeTables DEF TablesOK, db
  <1> QED BY <1>1, <1>6, <1>7, ShapeStep

LEMMA AnswerDoes ==
  ASSUME AdminShape, NEW i \in Requests, NEW rows, NEW perms, Answer(i, rows, perms)
  PROVE  /\ Touched(i, {"st"}) /\ serving'[i].st = "done" /\ Ended(i)
         /\ copy' = [copy EXCEPT ![Req(i).tab] = [rows |-> rows, perms |-> perms]]
         /\ UNCHANGED <<db, seats, sock, cache, audit, torn, odd>>
  <1>1. DOMAIN serving[i] = Fields /\ i \in DOMAIN serving
    BY Called DEF Requests
  <1> QED BY <1>1 DEF Answer, Touched, Requests, Fields

LEMMA ShowDoes ==
  ASSUME AdminShape, NEW i \in Requests, Shows(i)
  PROVE  /\ Touched(i, {"st"}) /\ serving'[i].st = "done" /\ Ended(i)
         /\ UNCHANGED <<db, seats, sock, cache, audit, torn, odd>>
  <1>1. CASE SignedIn(i)
    <2>1. DOMAIN serving[i] = Fields /\ i \in DOMAIN serving
      BY Called DEF Requests
    <2> QED BY <1>1, <2>1 DEF SignedIn, Touched, Requests, Fields
  <1>2. CASE ~SignedIn(i)
    <2>1. \E rows, perms : Answer(i, rows, perms)
      BY <1>2 DEF Shows, SavedTopic, DeletedTopic, DeletedTopics, CreatedTopic, SavedRole, CreatedRole,
                  DeletedRole, Settled
    <2> QED BY <2>1, AnswerDoes
  <1> QED BY <1>1, <1>2

LEMMA EndedCall ==
  ASSUME AdminShape, NEW i \in Requests, Touched(i, {"st"}), serving'[i].st = "done", Ended(i)
  PROVE  CallOK(Req(i), serving'[i])
  <1> DEFINE q == Req(i)   c == serving[i]   d == serving'[i]
  <1>1. CallOK(q, c) /\ q.op \in Ops /\ c.prog = <<>>
    BY Called DEF Ended
  <1>2. /\ d.prog = c.prog /\ d.body = c.body /\ d.row = c.row /\ d.perms = c.perms /\ d.had = c.had
        /\ d.todo = c.todo /\ d.ids = c.ids /\ d.at = c.at
    BY DEF Touched, Fields
  <1>3. d.st = "done"
    OBVIOUS
  <1> HIDE DEF q, c, d
  <1>4. PatchCall(c) => PatchCall(d)
    BY <1>2 DEF PatchCall
  <1>5. BulkCall(c) => BulkCall(d)
    BY <1>2 DEF BulkCall
  <1>6. RolesCall(q, c) => RolesCall(q, d)
    BY <1>2 DEF RolesCall
  <1>7. CallOK(q, d)
    BY <1>1, <1>2, <1>3, <1>4, <1>5, <1>6 DEF CallOK
  <1> QED BY <1>7 DEF q, d

LEMMA FormsAsAnswered ==
  ASSUME AdminShape, NEW i \in Requests, NEW rows, NEW perms, Answer(i, rows, perms),
         rows \in [Topics -> TopicRow \cup {Absent}], perms \in [Roles -> SUBSET Right]
  PROVE  copy' \in [Tabs -> FormState]
  <1>1. Req(i).tab \in Tabs
    BY Called DEF AdminRequest
  <1>2. copy \in [Tabs -> FormState]
    BY DEF AdminShape
  <1>3. [rows |-> rows, perms |-> perms] \in FormState
    BY DEF FormState
  <1> QED BY <1>1, <1>2, <1>3, AnswerDoes

LEMMA ShowShape ==
  ASSUME AdminShape, NEW i \in Requests, Shows(i)
  PROVE  AdminShape'
  <1> DEFINE q == Req(i)   c == serving[i]
  <1>1. /\ Touched(i, {"st"}) /\ serving'[i].st = "done" /\ Ended(i)
        /\ UNCHANGED db
    BY ShowDoes
  <1>2. AdminRequest(q) /\ CallOK(q, c) /\ q.op \in Ops
    BY Called
  <1>3. q.tab \in Tabs /\ q.t \in Topics /\ q.r \in Roles
    BY <1>2 DEF AdminRequest
  <1>4. copy[q.tab].rows \in [Topics -> TopicRow \cup {Absent}] /\ copy[q.tab].perms \in [Roles -> SUBSET Right]
    BY <1>3 DEF AdminShape, FormState
  <1>5. copy' \in [Tabs -> FormState]
    <2>1. CASE SavedTopic(i)
      <3> DEFINE row == Rows(i)[q.t]
                 new == IF row = Absent THEN row ELSE Merge(row, c.body)
      <3>1. new \in TopicRow \cup {Absent}
        BY <1>2, <1>3, <1>4, MergeBody DEF CallOK, Rows
      <3>2. PICK rows : Answer(i, rows, Perms(i)) /\ rows = IF c.ok THEN [Rows(i) EXCEPT ![q.t] = new] ELSE Rows(i)
        BY <2>1 DEF SavedTopic
      <3> HIDE DEF new
      <3> QED BY <1>3, <1>4, <3>1, <3>2, FormsAsAnswered DEF Rows, Perms
    <2>2. CASE DeletedTopic(i)
      BY <1>3, <1>4, <2>2, FormsAsAnswered DEF DeletedTopic, Rows, Perms
    <2>3. CASE DeletedTopics(i)
      BY <1>3, <1>4, <2>3, FormsAsAnswered DEF DeletedTopics, Rows, Perms
    <2>4. CASE CreatedTopic(i)
      <3>1. EmptyTopic(q.slug) \in TopicRow
        BY <1>2, <2>4, EmptyRow DEF CreatedTopic, AdminRequest
      <3> QED BY <1>3, <1>4, <2>4, <3>1, FormsAsAnswered DEF CreatedTopic, Rows, Perms
    <2>5. CASE SavedRole(i) \/ Settled(i)
      BY <1>4, <2>5, FormsAsAnswered DEF SavedRole, Settled, Rows, Perms
    <2>6. CASE CreatedRole(i)
      <3>1. c.perms \subseteq Right
        BY <1>2, <2>6 DEF CreatedRole, CallOK, RolesCall
      <3> QED BY <1>3, <1>4, <2>6, <3>1, FormsAsAnswered DEF CreatedRole, Rows, Perms
    <2>7. CASE DeletedRole(i)
      BY <1>3, <1>4, <2>7, FormsAsAnswered DEF DeletedRole, Rows, Perms
    <2>8. CASE SignedIn(i)
      BY <2>8 DEF SignedIn, AdminShape
    <2> QED BY <2>1, <2>2, <2>3, <2>4, <2>5, <2>6, <2>7, <2>8 DEF Shows
  <1>6. TablesOK'
    BY <1>1, <1>5, ShapeTables DEF TablesOK, db
  <1> QED BY <1>1, <1>6, EndedCall, ShapeStep

LEMMA ReloadDoes ==
  ASSUME AdminShape, NEW i \in Requests, Reload(i)
  PROVE  /\ Touched(i, {"st", "prog"}) /\ serving'[i].st = "done" /\ serving'[i].prog = <<>>
         /\ Req(i).op = "load" /\ copy' = [copy EXCEPT ![Req(i).tab] = FormData]
         /\ UNCHANGED <<db, seats, sock, cache, audit, torn, odd>>
  <1>1. DOMAIN serving[i] = Fields /\ i \in DOMAIN serving
    BY Called DEF Requests
  <1> QED BY <1>1 DEF Reload, Touched, Requests, Fields

LEMMA ReloadShape ==
  ASSUME AdminShape, NEW i \in Requests, Reload(i)
  PROVE  AdminShape'
  <1> DEFINE q == Req(i)   d == serving'[i]
  <1>1. Touched(i, {"st", "prog"}) /\ d.st = "done" /\ d.prog = <<>> /\ q.op = "load" /\ UNCHANGED db
    BY ReloadDoes
  <1>2. CallOK(q, serving[i]) /\ AdminRequest(q) /\ q.op \in Ops
    BY Called
  <1>3. d.body = serving[i].body
    BY <1>1 DEF Touched, Fields
  <1>4. AtPoint(q.op, <<>>)
    BY <1>1, <1>2, Finishes
  <1>5. CallOK(q, d)
    BY <1>1, <1>2, <1>3, <1>4 DEF CallOK
  <1>6. FormData \in FormState
    BY DEF FormData, FormState, PermsOf, AdminShape
  <1>7. copy' \in [Tabs -> FormState]
    BY <1>2, <1>6, ReloadDoes DEF AdminShape, AdminRequest
  <1>8. TablesOK'
    BY <1>1, <1>7, ShapeTables DEF TablesOK, db
  <1> QED BY <1>1, <1>5, <1>8, ShapeStep

(***************************************************************************)
(* The types are kept                                                      *)
(***************************************************************************)
LEMMA SkipsFour ==
  /\ SubSeq(<<"usersOf", "sessionsOf", "block", "close">>, 5, Len(<<"usersOf", "sessionsOf", "block", "close">>)) = <<>>
  /\ SubSeq(<<"usersOf", "sessionsOf", "block", "close", "deletePerms", "deleteRole">>, 5,
            Len(<<"usersOf", "sessionsOf", "block", "close", "deletePerms", "deleteRole">>)) = <<"deletePerms", "deleteRole">>
  <1> DEFINE T == {"usersOf", "sessionsOf", "block", "close", "deletePerms", "deleteRole"}
             s == <<"usersOf", "sessionsOf", "block", "close">>
             l == <<"usersOf", "sessionsOf", "block", "close", "deletePerms", "deleteRole">>
  <1>1. s \in Seq(T) /\ Len(s) = 4
    OBVIOUS
  <1>2. l \in Seq(T) /\ Len(l) = 6 /\ l[5] = "deletePerms" /\ l[6] = "deleteRole"
    OBVIOUS
  <1> HIDE DEF s, l
  <1>3. SubSeq(s, 5, Len(s)) = <<>>
    BY <1>1, SubSeqEmpty
  <1>4. /\ SubSeq(l, 5, Len(l)) \in Seq(T) /\ Len(SubSeq(l, 5, Len(l))) = 2
        /\ SubSeq(l, 5, Len(l))[1] = l[5] /\ SubSeq(l, 5, Len(l))[2] = l[6]
    BY <1>2, SubSeqProperties
  <1>5. \A z \in Seq(T) : Len(z) = 2 /\ z[1] = "deletePerms" /\ z[2] = "deleteRole" => z = <<"deletePerms", "deleteRole">>
    <2> HIDE DEF T
    <2> QED OBVIOUS
  <1>6. SubSeq(l, 5, Len(l)) = <<"deletePerms", "deleteRole">>
    BY <1>2, <1>4, <1>5
  <1> QED BY <1>3, <1>6 DEF s, l

LEMMA UsersOfMoves ==
  ASSUME AdminShape, NEW i \in Requests, UsersOf(i), NEW us, us = {u \in Users : role[u] = Req(i).r}
  PROVE  \/ /\ Req(i).op = "rolePatch" /\ serving[i].prog = <<"usersOf", "sessionsOf", "block", "close">>
            /\ us = {} => serving'[i].prog = <<>>
            /\ us # {} => serving'[i].prog = <<"sessionsOf", "block", "close">>
         \/ /\ Req(i).op = "roleDelete"
            /\ serving[i].prog = <<"usersOf", "sessionsOf", "block", "close", "deletePerms", "deleteRole">>
            /\ us = {} => serving'[i].prog = <<"deletePerms", "deleteRole">>
            /\ us # {} => serving'[i].prog = <<"sessionsOf", "block", "close", "deletePerms", "deleteRole">>
  <1>1. At(i, "usersOf")
    BY DEF UsersOf
  <1>2. /\ AtPoint(Req(i).op, serving[i].prog) /\ serving[i].prog # <<>> /\ Head(serving[i].prog) = "usersOf"
        /\ Req(i).op \in {"rolePatch", "roleDelete"}
    BY <1>1, CalledAt DEF Owner
  <1>3. /\ us = {} => serving'[i].prog = SubSeq(serving[i].prog, 5, Len(serving[i].prog))
        /\ us # {} => serving'[i].prog = Tail(serving[i].prog)
    BY UsersOfDoes
  <1>4. CASE Req(i).op = "rolePatch"
    <2>1. serving[i].prog = <<"usersOf", "sessionsOf", "block", "close">> /\ Tail(serving[i].prog) = <<"sessionsOf", "block", "close">>
      BY <1>2, <1>4, RolePatchMoves DEF AtPoint
    <2> QED BY <1>3, <1>4, <2>1, SkipsFour
  <1>5. CASE Req(i).op = "roleDelete"
    <2>1. /\ serving[i].prog = <<"usersOf", "sessionsOf", "block", "close", "deletePerms", "deleteRole">>
          /\ Tail(serving[i].prog) = <<"sessionsOf", "block", "close", "deletePerms", "deleteRole">>
      BY <1>2, <1>5, RoleDeleteMoves DEF AtPoint
    <2> QED BY <1>3, <1>5, <2>1, SkipsFour
  <1> QED BY <1>2, <1>4, <1>5

(* The plain operations' statements. *)
LEMMA PlainShape ==
  ASSUME AdminShape, NEW i \in Requests,
         \/ Grant(i) \/ Ungrant(i) \/ InsertTopic(i) \/ RoleRow(i) \/ DeleteRole(i) \/ InsertUser(i)
         \/ Prior(i) \/ UpdateUser(i) \/ DeleteUser(i) \/ Override(i) \/ Unoverride(i) \/ Profile(i)
         \/ Permissions(i) \/ Session(i)
  PROVE  AdminShape'
  <1> DEFINE q == Req(i)
  <1>1. AdminRequest(q) /\ q.op \in Ops
    BY Called
  <1>2. TablesOK
    BY ShapeTables
  <1>3. CASE Grant(i)
    <2>1. At(i, "grant") /\ Touched(i, {"prog", "ok"}) /\ serving'[i].prog \in {<<>>, Tail(serving[i].prog)}
      BY <1>3, GrantDoes DEF Grant
    <2>2. TablesOK'
      BY <1>2, <1>3 DEF TablesOK, Grant, Else
    <2>3. q.op = "grantPut"
      BY <2>1, CalledAt DEF Owner
    <2> QED BY <1>1, <2>1, <2>2, <2>3, PlainStep DEF Plain
  <1>4. CASE Ungrant(i)
    <2>1. At(i, "ungrant") /\ Touched(i, {"prog"}) /\ serving'[i].prog \in {<<>>, Tail(serving[i].prog)}
      BY <1>4, UngrantDoes DEF Ungrant
    <2>2. TablesOK'
      BY <1>2, <1>4 DEF TablesOK, Ungrant, Else
    <2>3. q.op = "grantDelete"
      BY <2>1, CalledAt DEF Owner
    <2> QED BY <1>1, <2>1, <2>2, <2>3, PlainStep DEF Plain
  <1>5. CASE InsertTopic(i)
    <2>1. At(i, "insertTopic") /\ Touched(i, {"prog", "ok"}) /\ serving'[i].prog \in {<<>>, Tail(serving[i].prog)}
      BY <1>5, InsertTopicDoes DEF InsertTopic
    <2>2. q.op = "topicCreate"
      BY <2>1, CalledAt DEF Owner
    <2>3. EmptyTopic(q.slug) \in TopicRow
      BY <1>1, <2>2, EmptyRow DEF AdminRequest
    <2>4. TablesOK'
      BY <1>1, <1>2, <1>5, <2>3 DEF TablesOK, InsertTopic, Else
    <2> QED BY <1>1, <2>1, <2>2, <2>4, PlainStep DEF Plain
  <1>6. CASE RoleRow(i)
    <2>1. At(i, "roleRow") /\ Touched(i, {"prog", "ok"}) /\ serving'[i].prog \in {<<>>, Tail(serving[i].prog)}
      BY <1>6, RoleRowDoes DEF RoleRow
    <2>2. TablesOK'
      BY <1>2, <1>6 DEF TablesOK, RoleRow, Else, db
    <2>3. q.op = "roleDelete"
      BY <2>1, CalledAt DEF Owner
    <2> QED BY <1>1, <2>1, <2>2, <2>3, PlainStep DEF Plain
  <1>7. CASE DeleteRole(i)
    <2>1. At(i, "deleteRole") /\ Touched(i, {"prog"}) /\ serving'[i].prog \in {<<>>, Tail(serving[i].prog)}
      BY <1>7, DeleteRoleDoes DEF DeleteRole
    <2>2. TablesOK'
      BY <1>2, <1>7 DEF TablesOK, DeleteRole, Else
    <2>3. q.op = "roleDelete"
      BY <2>1, CalledAt DEF Owner
    <2> QED BY <1>1, <2>1, <2>2, <2>3, PlainStep DEF Plain
  <1>8. CASE InsertUser(i)
    <2>1. At(i, "insertUser") /\ Touched(i, {"prog"}) /\ serving'[i].prog \in {<<>>, Tail(serving[i].prog)}
      BY <1>8, InsertUserDoes DEF InsertUser
    <2>2. TablesOK'
      BY <1>1, <1>2, <1>8 DEF TablesOK, InsertUser, Else, AdminRequest
    <2>3. q.op = "userCreate"
      BY <2>1, CalledAt DEF Owner
    <2> QED BY <1>1, <2>1, <2>2, <2>3, PlainStep DEF Plain
  <1>9. CASE Prior(i)
    <2>1. At(i, "prior") /\ Touched(i, {"prog", "at"}) /\ serving'[i].prog \in {<<>>, Tail(serving[i].prog)}
      BY <1>9, PriorDoes DEF Prior
    <2>2. TablesOK'
      BY <1>2, <1>9 DEF TablesOK, Prior, Else, db
    <2>3. q.op = "userPatch"
      BY <2>1, CalledAt DEF Owner
    <2> QED BY <1>1, <2>1, <2>2, <2>3, PlainStep DEF Plain
  <1>10. CASE UpdateUser(i)
    <2>1. At(i, "updateUser") /\ Touched(i, {"prog", "ok"}) /\ serving'[i].prog \in {<<>>, Tail(serving[i].prog)}
      BY <1>10, UpdateUserDoes DEF UpdateUser
    <2>2. TablesOK'
      BY <1>1, <1>2, <1>10 DEF TablesOK, UpdateUser, Else, AdminRequest
    <2>3. q.op = "userPatch"
      BY <2>1, CalledAt DEF Owner
    <2> QED BY <1>1, <2>1, <2>2, <2>3, PlainStep DEF Plain
  <1>11. CASE DeleteUser(i)
    <2>1. At(i, "deleteUser") /\ Touched(i, {"prog"}) /\ serving'[i].prog \in {<<>>, Tail(serving[i].prog)}
      BY <1>11, DeleteUserDoes DEF DeleteUser
    <2>2. TablesOK'
      BY <1>1, <1>2, <1>11 DEF TablesOK, DeleteUser, AdminRequest
    <2>3. q.op = "userDelete"
      BY <2>1, CalledAt DEF Owner
    <2> QED BY <1>1, <2>1, <2>2, <2>3, PlainStep DEF Plain
  <1>12. CASE Override(i)
    <2>1. At(i, "override") /\ Touched(i, {"prog"}) /\ serving'[i].prog \in {<<>>, Tail(serving[i].prog)}
      BY <1>12, OverrideDoes DEF Override
    <2>2. TablesOK'
      BY <1>2, <1>12 DEF TablesOK, Override, Else
    <2>3. q.op = "overridePut"
      BY <2>1, CalledAt DEF Owner
    <2> QED BY <1>1, <2>1, <2>2, <2>3, PlainStep DEF Plain
  <1>13. CASE Unoverride(i)
    <2>1. At(i, "unoverride") /\ Touched(i, {"prog"}) /\ serving'[i].prog \in {<<>>, Tail(serving[i].prog)}
      BY <1>13, UnoverrideDoes DEF Unoverride
    <2>2. TablesOK'
      BY <1>2, <1>13 DEF TablesOK, Unoverride, Else
    <2>3. q.op = "overrideDelete"
      BY <2>1, CalledAt DEF Owner
    <2> QED BY <1>1, <2>1, <2>2, <2>3, PlainStep DEF Plain
  <1>14. CASE Profile(i)
    <2>1. At(i, "profile") /\ Touched(i, {"prog", "ok", "at"}) /\ serving'[i].prog \in {<<>>, Tail(serving[i].prog)}
      BY <1>14, ProfileDoes DEF Profile
    <2>2. TablesOK'
      BY <1>2, <1>14 DEF TablesOK, Profile, Else, db
    <2>3. q.op = "login"
      BY <2>1, CalledAt DEF Owner
    <2> QED BY <1>1, <2>1, <2>2, <2>3, PlainStep DEF Plain
  <1>15. CASE Permissions(i)
    <2>1. At(i, "permissions") /\ Touched(i, {"prog", "perms"}) /\ serving'[i].prog \in {<<>>, Tail(serving[i].prog)}
      BY <1>15, PermissionsDoes DEF Permissions
    <2>2. TablesOK'
      BY <1>2, <1>15 DEF TablesOK, Permissions, Else, db
    <2>3. q.op = "login"
      BY <2>1, CalledAt DEF Owner
    <2> QED BY <1>1, <2>1, <2>2, <2>3, PlainStep DEF Plain
  <1>16. CASE Session(i)
    <2>1. At(i, "session") /\ Touched(i, {"prog", "ok"}) /\ serving'[i].prog \in {<<>>, Tail(serving[i].prog)}
      BY <1>16, SessionDoes DEF Session
    <2>2. TablesOK'
      BY <1>2, <1>16 DEF TablesOK, Session, db
    <2>3. q.op = "login"
      BY <2>1, CalledAt DEF Owner
    <2> QED BY <1>1, <2>1, <2>2, <2>3, PlainStep DEF Plain
  <1> QED BY <1>3, <1>4, <1>5, <1>6, <1>7, <1>8, <1>9, <1>10, <1>11, <1>12, <1>13, <1>14, <1>15, <1>16

(* A role's save or creation goes on without touching its own lists. *)
LEMMA RolesGoOn ==
  ASSUME AdminShape, NEW i \in Requests, NEW s, At(i, s), Req(i).op \in {"roleCreate", "rolePatch"},
         NEW F, Touched(i, F), F \cap {"st", "body", "perms", "todo"} = {},
         serving'[i].prog \in {<<>>, Tail(serving[i].prog)},
         Req(i).op = "roleCreate" => "had" \notin F,
         serving'[i].prog # <<>> => Head(serving'[i].prog) # "syncWrite",
         serving'[i].prog # <<>> /\ Head(serving'[i].prog) = "syncRead" => s = "syncWrite",
         serving'[i].prog # <<>> /\ Req(i).op = "rolePatch" => Head(serving'[i].prog) \notin {"deletePerms", "insertPerms"}
  PROVE  CallOK(Req(i), serving'[i])
  <1> DEFINE q == Req(i)   c == serving[i]   d == serving'[i]
  <1>1. CallOK(q, c) /\ AtPoint(q.op, c.prog) /\ c.prog # <<>> /\ q.op \in Ops
    BY Called, CalledAt
  <1>2. d.st = "run" /\ d.body = c.body /\ d.perms = c.perms /\ d.todo = c.todo
    BY CalledAt DEF Touched, Fields
  <1>3. AtPoint(q.op, d.prog)
    BY <1>1, LeavesPoint
  <1>4. RolesCall(q, d)
    <2>1. q.op = "roleCreate" => d.had = c.had
      BY DEF Touched, Fields
    <2>2. Head(c.prog) = s
      BY CalledAt
    <2> QED BY <1>1, <1>2, <2>1, <2>2 DEF CallOK, RolesCall
  <1> QED BY <1>1, <1>2, <1>3, <1>4 DEF CallOK

LEMMA RevokeShape ==
  ASSUME AdminShape, NEW i \in Requests, UsersOf(i) \/ SessionsOf(i) \/ Block(i) \/ Close(i)
  PROVE  AdminShape'
  <1> DEFINE q == Req(i)   c == serving[i]   d == serving'[i]
  <1>1. CallOK(q, c) /\ q.op \in Ops
    BY Called
  <1>2. TablesOK'
    BY ShapeTables DEF TablesOK, UsersOf, SessionsOf, Block, Close, Else, db
  <1>3. CASE UsersOf(i)
    <2>1. PICK us : us = {u \in Users : role[u] = Req(i).r}
      OBVIOUS
    <2>2. Touched(i, {"prog", "ids"})
      BY <1>3, <2>1, UsersOfDoes
    <2>3. /\ q.op = "rolePatch" => d.prog \in {<<>>, <<"sessionsOf", "block", "close">>}
          /\ q.op = "roleDelete" => d.prog \in {<<"deletePerms", "deleteRole">>, <<"sessionsOf", "block", "close", "deletePerms", "deleteRole">>}
          /\ q.op \in {"rolePatch", "roleDelete"}
      BY <1>3, <2>1, UsersOfMoves
    <2>4. d.st = "run" /\ d.body = c.body /\ d.perms = c.perms /\ d.todo = c.todo
      BY <1>3, <2>2, CalledAt DEF Touched, Fields, UsersOf
    <2>5. AtPoint(q.op, d.prog)
      BY <2>3 DEF AtPoint, RolePatchPoints, RoleDeletePoints
    <2>6. q.op = "rolePatch" => RolesCall(q, d)
      <3>1. Head(<<"sessionsOf", "block", "close">>) = "sessionsOf"
        OBVIOUS
      <3> QED BY <1>1, <2>3, <2>4, <3>1 DEF CallOK, RolesCall
    <2>7. CallOK(q, d)
      BY <1>1, <2>3, <2>4, <2>5, <2>6 DEF CallOK
    <2> QED BY <1>2, <2>2, <2>7, ShapeStep
  <1>4. CASE SessionsOf(i) \/ Block(i) \/ Close(i)
    <2>1. PICK s \in {"sessionsOf", "block", "close"} : At(i, s)
      BY <1>4 DEF SessionsOf, Block, Close
    <2>2. Touched(i, {"prog", "had"}) /\ d.prog = Tail(c.prog)
      <3>1. Touched(i, {"prog"}) => Touched(i, {"prog", "had"})
        BY DEF Touched
      <3> QED BY <1>4, <3>1, SessionsOfDoes, BlockDoes, CloseDoes
    <2>3. /\ AtPoint(q.op, c.prog) /\ c.prog # <<>> /\ Head(c.prog) = s
          /\ q.op \in {"rolePatch", "roleDelete", "userPatch", "userDelete", "overridePut", "overrideDelete"}
      BY <2>1, CalledAt DEF Owner
    <2>4. CASE q.op \in Plain
      BY <1>2, <2>1, <2>2, <2>4, PlainStep
    <2>5. CASE q.op = "rolePatch"
      <3>1. d.prog \in {<<"block", "close">>, <<"close">>, <<>>}
        BY <2>2, <2>3, <2>5, RolePatchMoves DEF AtPoint
      <3>2. Head(<<"block", "close">>) = "block" /\ Head(<<"close">>) = "close"
        OBVIOUS
      <3>3. d.prog # <<>> => Head(d.prog) \notin {"deletePerms", "insertPerms", "syncRead", "syncWrite"}
        BY <3>1, <3>2
      <3>4. CallOK(q, d)
        BY <2>1, <2>2, <2>5, <3>3, RolesGoOn
      <3> QED BY <1>2, <2>2, <3>4, ShapeStep
    <2> QED BY <1>1, <2>3, <2>4, <2>5 DEF Plain
  <1> QED BY <1>3, <1>4

LEMMA RoleCreateShape ==
  ASSUME AdminShape, NEW i \in Requests, Exists(i) \/ InsertRole(i) \/ Clone(i)
  PROVE  AdminShape'
  <1> DEFINE q == Req(i)   c == serving[i]   d == serving'[i]
  <1>1. CallOK(q, c) /\ AdminRequest(q) /\ q.op \in Ops
    BY Called
  <1>2. PICK s \in {"exists", "insertRole", "clone"} : At(i, s)
    BY DEF Exists, InsertRole, Clone
  <1>3. q.op = "roleCreate" /\ AtPoint(q.op, c.prog) /\ c.prog # <<>> /\ Head(c.prog) = s
    BY <1>2, CalledAt DEF Owner
  <1>4. TablesOK'
    <2>1. roles' \subseteq Roles
      BY <1>1 DEF Exists, InsertRole, Clone, db, AdminShape, AdminRequest
    <2> QED BY <2>1, ShapeTables DEF TablesOK, Exists, InsertRole, Clone, Else, db
  <1>5. CASE Exists(i) \/ InsertRole(i)
    <2>1. Touched(i, {"prog", "ok"}) /\ d.prog \in {<<>>, Tail(c.prog)}
      BY <1>5, ExistsDoes, InsertRoleDoes
    <2>2. Tail(c.prog) \in {<<"insertRole", "clone", "insertPerms">>, <<"clone", "insertPerms">>, <<"insertPerms">>, <<>>}
      BY <1>3, RoleCreateMoves DEF AtPoint
    <2>3. /\ Head(<<"insertRole", "clone", "insertPerms">>) = "insertRole"
          /\ Head(<<"clone", "insertPerms">>) = "clone" /\ Head(<<"insertPerms">>) = "insertPerms"
      OBVIOUS
    <2>4. d.prog # <<>> => Head(d.prog) \notin {"syncRead", "syncWrite"}
      BY <2>1, <2>2, <2>3
    <2>5. CallOK(q, d)
      BY <1>2, <1>3, <2>1, <2>4, RolesGoOn
    <2> QED BY <1>4, <2>1, <2>5, ShapeStep
  <1>6. CASE Clone(i)
    <2> DEFINE p == IF q.from = Absent THEN {} ELSE PermsOf(q.from)
    <2>1. Touched(i, {"prog", "perms", "todo"}) /\ d.prog = Tail(c.prog) /\ d.perms = p /\ d.todo = p
      BY <1>6, CloneDoes
    <2>2. c.prog = <<"clone", "insertPerms">> /\ Tail(c.prog) = <<"insertPerms">>
      <3>1. At(i, "clone")
        BY <1>6 DEF Clone
      <3>2. Head(c.prog) = "clone"
        BY <3>1, CalledAt
      <3> QED BY <1>3, <3>2, RoleCreateMoves DEF AtPoint
    <2>3. p \subseteq Right
      BY DEF PermsOf, AdminShape
    <2> HIDE DEF p
    <2>4. d.st = "run" /\ d.body = c.body /\ d.had = c.had /\ c.had \subseteq Right
      BY <1>1, <1>2, <1>3, <2>1, CalledAt DEF Touched, Fields, CallOK, RolesCall
    <2>5. Head(<<"insertPerms">>) = "insertPerms"
      OBVIOUS
    <2>6. RolesCall(q, d)
      BY <1>3, <2>1, <2>2, <2>3, <2>4, <2>5 DEF RolesCall
    <2>7. AtPoint(q.op, d.prog)
      BY <1>3, <2>1, <2>2 DEF AtPoint, RoleCreatePoints
    <2>8. CallOK(q, d)
      BY <1>1, <1>3, <2>4, <2>6, <2>7 DEF CallOK
    <2> QED BY <1>4, <2>1, <2>8, ShapeStep
  <1> QED BY <1>5, <1>6

LEMMA InsertPermsShape ==
  ASSUME AdminShape, NEW i \in Requests, InsertPerms(i)
  PROVE  AdminShape'
  <1> DEFINE q == Req(i)   c == serving[i]   d == serving'[i]
  <1>1. CallOK(q, c) /\ AdminRequest(q) /\ q.r \in Roles
    BY Called DEF AdminRequest
  <1>2. At(i, "insertPerms")
    BY DEF InsertPerms
  <1>3. /\ q.op \in {"roleCreate", "rolePatch"} /\ AtPoint(q.op, c.prog) /\ c.prog # <<>>
        /\ Head(c.prog) = "insertPerms" /\ c.st = "run" /\ RolesCall(q, c)
    BY <1>1, <1>2, CalledAt DEF Owner, CallOK
  <1>4. /\ q.op = "rolePatch" => Tail(c.prog) = <<"syncRead", "usersOf", "sessionsOf", "block", "close">>
        /\ q.op = "roleCreate" => Tail(c.prog) = <<>>
    BY <1>3, RolePatchMoves, RoleCreateMoves DEF AtPoint
  <1>5. Head(<<"syncRead", "usersOf", "sessionsOf", "block", "close">>) = "syncRead"
    OBVIOUS
  <1>6. c.todo \subseteq Right /\ c.perms \subseteq Right /\ c.had \subseteq Right
    BY <1>3 DEF RolesCall
  <1>7. held' \subseteq Roles \X Right
    <2>1. held \subseteq Roles \X Right
      BY DEF AdminShape
    <2>2. held' = held \/ \E p \in c.todo : held' = held \cup {<<q.r, p>>}
      BY InsertPermsDoes
    <2> QED BY <1>1, <1>6, <2>1, <2>2
  <1>8. TablesOK'
    BY <1>7, ShapeTables DEF TablesOK, InsertPerms
  <1>9. CASE c.todo = {} /\ Touched(i, {"prog", "todo"}) /\ d.prog = Tail(c.prog) /\ d.todo = c.had
    <2>1. d.st = "run" /\ d.body = c.body /\ d.perms = c.perms /\ d.had = c.had
      BY <1>3, <1>9 DEF Touched, Fields
    <2>2. AtPoint(q.op, d.prog)
      BY <1>1, <1>3, <1>9, Called, LeavesPoint
    <2>3. CASE q.op = "rolePatch"
      <3>1. RolesCall(q, d)
        BY <1>3, <1>4, <1>5, <1>6, <1>9, <2>1, <2>3 DEF RolesCall
      <3>2. CallOK(q, d)
        BY <1>1, <2>1, <2>2, <2>3, <3>1 DEF CallOK
      <3> QED BY <1>8, <1>9, <3>2, ShapeStep
    <2>4. CASE q.op = "roleCreate"
      <3>1. d.prog = <<>>
        BY <1>4, <1>9, <2>4
      <3>2. CallOK(q, d)
        BY <1>1, <1>6, <1>9, <2>1, <2>2, <2>4, <3>1 DEF CallOK, RolesCall
      <3> QED BY <1>8, <1>9, <3>2, ShapeStep
    <2> QED BY <1>3, <2>3, <2>4
  <1>10. CASE Touched(i, {"prog", "ok"}) /\ d.prog = <<>>
    <2>1. CallOK(q, d)
      BY <1>2, <1>3, <1>10, RolesGoOn
    <2> QED BY <1>8, <1>10, <2>1, ShapeStep
  <1>11. ASSUME NEW p \in c.todo, Touched(i, {"todo"}), d.todo = c.todo \ {p}
         PROVE  AdminShape'
    <2>1. /\ d.st = "run" /\ d.body = c.body /\ d.perms = c.perms /\ d.prog = c.prog /\ d.had = c.had
          /\ d.row = c.row /\ d.at = c.at
      BY <1>3, <1>11 DEF Touched, Fields
    <2>2. RolesCall(q, d)
      BY <1>3, <1>6, <1>11, <2>1 DEF RolesCall
    <2>3. CallOK(q, d)
      BY <1>1, <1>3, <2>1, <2>2 DEF CallOK
    <2> QED BY <1>8, <1>11, <2>3, ShapeStep
  <1> QED BY <1>9, <1>10, <1>11, InsertPermsDoes

LEMMA EditedRow ==
  ASSUME NEW row \in TopicRow, NEW a \in Acts, NEW S \in SUBSET Roles
  PROVE  [row EXCEPT ![a] = S] \in TopicRow
  BY DEF TopicRow, Acts

LEMMA HomelessRow ==
  ASSUME NEW row \in TopicRow
  PROVE  [row EXCEPT !.home = FALSE] \in TopicRow
  BY DEF TopicRow

LEMMA DeletePermsShape ==
  ASSUME AdminShape, NEW i \in Requests, DeletePerms(i)
  PROVE  AdminShape'
  <1> DEFINE q == Req(i)   c == serving[i]   d == serving'[i]
  <1>1. CallOK(q, c) /\ q.op \in Ops
    BY Called
  <1>2. At(i, "deletePerms")
    BY DEF DeletePerms
  <1>3. /\ q.op \in {"rolePatch", "roleDelete"} /\ AtPoint(q.op, c.prog) /\ c.prog # <<>>
        /\ Head(c.prog) = "deletePerms" /\ c.st = "run"
    BY <1>2, CalledAt DEF Owner
  <1>4. Touched(i, {"prog"}) /\ d.prog = Tail(c.prog)
    BY DeletePermsDoes
  <1>5. TablesOK'
    BY ShapeTables DEF TablesOK, DeletePerms
  <1>6. CASE q.op = "roleDelete"
    BY <1>2, <1>4, <1>5, <1>6, PlainStep DEF Plain, Ops
  <1>7. CASE q.op = "rolePatch"
    <2>1. d.prog = <<"insertPerms", "syncRead", "usersOf", "sessionsOf", "block", "close">>
      BY <1>3, <1>4, <1>7, RolePatchMoves DEF AtPoint
    <2>2. Head(<<"insertPerms", "syncRead", "usersOf", "sessionsOf", "block", "close">>) = "insertPerms"
      OBVIOUS
    <2>3. d.st = "run" /\ d.body = c.body /\ d.perms = c.perms /\ d.todo = c.todo /\ d.had = c.had
      BY <1>3, <1>4 DEF Touched, Fields
    <2>4. RolesCall(q, d)
      BY <1>1, <1>3, <1>7, <2>1, <2>2, <2>3 DEF CallOK, RolesCall
    <2>5. AtPoint(q.op, d.prog)
      BY <1>1, <1>3, <1>4, <1>7, LeavesPoint
    <2>6. CallOK(q, d)
      BY <1>1, <1>7, <2>3, <2>4, <2>5 DEF CallOK
    <2> QED BY <1>4, <1>5, <2>6, ShapeStep
  <1> QED BY <1>3, <1>6, <1>7

LEMMA OldPermsShape ==
  ASSUME AdminShape, NEW i \in Requests, OldPerms(i)
  PROVE  AdminShape'
  <1> DEFINE q == Req(i)   c == serving[i]   d == serving'[i]
  <1>1. CallOK(q, c) /\ q.op \in Ops
    BY Called
  <1>2. At(i, "oldPerms")
    BY DEF OldPerms
  <1>3. /\ q.op = "rolePatch" /\ AtPoint(q.op, c.prog) /\ c.prog # <<>>
        /\ Head(c.prog) = "oldPerms" /\ c.st = "run"
    BY <1>2, CalledAt DEF Owner
  <1>4. Touched(i, {"prog", "ok", "todo", "had"})
    BY OldPermsDoes
  <1>5. TablesOK'
    BY ShapeTables DEF TablesOK, OldPerms, db
  <1>6. d.st = "run" /\ d.body = c.body /\ d.perms = c.perms
    BY <1>3, <1>4 DEF Touched, Fields
  <1>7. CASE q.r \notin roles
    <2>1. d.prog = <<>>
      BY <1>7, OldPermsDoes
    <2>2. Touched(i, {"prog", "ok"})
      <3>1. serving' = [serving EXCEPT ![i].prog = <<>>, ![i].ok = FALSE] /\ work' = work
        BY <1>7 DEF OldPerms, Refuse
      <3> QED BY <3>1, Called DEF Touched, Requests, Fields
    <2>3. CallOK(q, d)
      BY <1>2, <1>3, <2>1, <2>2, RolesGoOn
    <2> QED BY <1>4, <1>5, <2>3, ShapeStep
  <1>8. CASE q.r \in roles
    <2>1. /\ d.prog = Tail(c.prog) /\ d.todo = c.perms
          /\ d.had = {p \in (c.perms \ PermsOf(q.r)) \cup (PermsOf(q.r) \ c.perms) : p[2] \in Parsed}
      BY <1>8, OldPermsDoes
    <2>2. d.prog = <<"deletePerms", "insertPerms", "syncRead", "usersOf", "sessionsOf", "block", "close">>
      BY <1>3, <2>1, RolePatchMoves DEF AtPoint
    <2>3. Head(<<"deletePerms", "insertPerms", "syncRead", "usersOf", "sessionsOf", "block", "close">>) = "deletePerms"
      OBVIOUS
    <2>4. c.perms \subseteq Right /\ PermsOf(q.r) \subseteq Right
      BY <1>1, <1>3 DEF CallOK, RolesCall, PermsOf, AdminShape
    <2>5. RolesCall(q, d)
      BY <1>3, <1>6, <2>1, <2>2, <2>3, <2>4 DEF RolesCall
    <2>6. AtPoint(q.op, d.prog)
      BY <1>1, <1>3, <2>1, LeavesPoint
    <2>7. CallOK(q, d)
      BY <1>1, <1>3, <1>6, <2>5, <2>6 DEF CallOK
    <2> QED BY <1>4, <1>5, <2>7, ShapeStep
  <1> QED BY <1>7, <1>8

SavePoint == <<"syncRead", "usersOf", "sessionsOf", "block", "close">>

LEMMA SyncReadShape ==
  ASSUME AdminShape, NEW i \in Requests, SyncRead(i)
  PROVE  AdminShape'
  <1> DEFINE q == Req(i)   c == serving[i]   d == serving'[i]
  <1>1. CallOK(q, c) /\ q.op \in Ops
    BY Called
  <1>2. At(i, "syncRead")
    BY Zenon DEF SyncRead
  <1>3. /\ q.op = "rolePatch" /\ AtPoint(q.op, c.prog) /\ c.prog # <<>>
        /\ Head(c.prog) = "syncRead" /\ c.st = "run"
    BY <1>2, CalledAt DEF Owner
  <1>4. c.prog = SavePoint /\ Tail(c.prog) = <<"usersOf", "sessionsOf", "block", "close">>
    BY <1>3, RolePatchMoves DEF AtPoint, SavePoint
  <1>5. TablesOK'
    BY ShapeTables, Zenon DEF TablesOK, SyncRead, db
  <1>6. c.perms \subseteq Right /\ c.todo \subseteq Right /\ \A p \in c.todo : p[2] \in Parsed
    BY <1>1, <1>3 DEF CallOK, RolesCall
  <1>7. CASE Touched(i, {"prog"}) /\ d.prog = Tail(c.prog)
    <2>1. Head(<<"usersOf", "sessionsOf", "block", "close">>) = "usersOf"
      OBVIOUS
    <2>2. CallOK(q, d)
      BY <1>2, <1>3, <1>4, <1>7, <2>1, RolesGoOn
    <2> QED BY <1>5, <1>7, <2>2, ShapeStep
  <1>8. ASSUME NEW p \in c.todo, Touched(i, {"todo"}), d.todo = c.todo \ {p}
        PROVE  AdminShape'
    <2>1. /\ d.st = "run" /\ d.body = c.body /\ d.perms = c.perms /\ d.prog = c.prog /\ d.had = c.had
          /\ d.row = c.row /\ d.at = c.at
      BY <1>3, <1>8 DEF Touched, Fields
    <2>2. RolesCall(q, d)
      BY <1>1, <1>3, <1>6, <1>8, <2>1 DEF CallOK, RolesCall
    <2>3. CallOK(q, d)
      BY <1>1, <1>3, <2>1, <2>2 DEF CallOK
    <2> QED BY <1>5, <1>8, <2>3, ShapeStep
  <1>9. ASSUME NEW p \in c.todo, NEW t \in Named(p), Touched(i, {"todo", "at", "row", "prog"}),
               d.todo = c.todo \ {p}, d.at = p, d.row = topic[t], d.prog = First("syncWrite", c.prog)
        PROVE  AdminShape'
    <2>1. t \in Topics /\ topic[t] # Absent /\ topic[t].slug = p[1] /\ topic[t] \in TopicRow
      BY <1>9 DEF Named, AdminShape
    <2>2. topic[t].slug \in Slugs
      BY <2>1, RowForm
    <2>3. d.row \in TopicRow /\ d.at \in Right /\ d.at[1] \in Slugs /\ d.at[2] \in Parsed
      BY <1>6, <1>9, <2>1, <2>2
    <2>4. d.prog \in RolePatchPoints
      BY <1>4, <1>9 DEF RolePatchPoints, SavePoint
    <2>5. d.st = "run" /\ d.body = c.body /\ d.perms = c.perms /\ d.had = c.had
      BY <1>3, <1>9 DEF Touched, Fields
    <2>6. Head(d.prog) = "syncWrite"
      <3> DEFINE T == {"syncWrite", "syncRead", "usersOf", "sessionsOf", "block", "close"}
      <3>1. SavePoint \in Seq(T) /\ "syncWrite" \in T
        BY DEF SavePoint
      <3> HIDE DEF T
      <3> QED BY <1>4, <1>9, <3>1, FirstFacts
    <2>7. RolesCall(q, d)
      BY <1>3, <1>6, <1>9, <2>3, <2>5, <2>6 DEF RolesCall
    <2>8. CallOK(q, d)
      BY <1>1, <1>3, <2>4, <2>5, <2>7 DEF CallOK, AtPoint
    <2> QED BY <1>5, <1>9, <2>8, ShapeStep
  <1> QED BY <1>7, <1>8, <1>9, SyncReadDoes

LEMMA SyncWriteShape ==
  ASSUME AdminShape, NEW i \in Requests, SyncWrite(i)
  PROVE  AdminShape'
  <1> DEFINE q == Req(i)   c == serving[i]   d == serving'[i]   p == c.at
             new == IF p \in c.perms THEN c.row[p[2]] \cup {q.r} ELSE c.row[p[2]] \ {q.r}
  <1>1. CallOK(q, c) /\ q.op \in Ops /\ AdminRequest(q)
    BY Called
  <1>2. At(i, "syncWrite")
    BY DEF SyncWrite
  <1>3. /\ q.op = "rolePatch" /\ AtPoint(q.op, c.prog) /\ c.prog # <<>>
        /\ Head(c.prog) = "syncWrite" /\ c.st = "run"
    BY <1>2, CalledAt DEF Owner
  <1>4. Touched(i, {"prog"}) /\ d.prog = Tail(c.prog)
    BY SyncWriteDoes
  <1>5. d.prog = SavePoint /\ Head(SavePoint) = "syncRead"
    <2>1. PICK l : l = c.prog
      OBVIOUS
    <2>2. l \in RolePatchPoints /\ l # <<>> /\ Head(l) = "syncWrite"
      BY <1>3, <2>1 DEF AtPoint
    <2>3. Tail(l) = SavePoint
      BY <2>2, RolePatchMoves DEF SavePoint
    <2>4. Head(SavePoint) = "syncRead"
      BY DEF SavePoint
    <2> QED BY <1>4, <2>1, <2>3, <2>4
  <1>6. c.row \in TopicRow /\ p[2] \in Acts /\ q.r \in Roles
    BY <1>1, <1>3 DEF CallOK, RolesCall, Parsed, Acts, AdminRequest
  <1>7. new \in SUBSET Roles
    BY <1>6, RowList
  <1>8. topic' = [t \in Topics |-> IF topic[t] # Absent /\ topic[t].slug = p[1]
                                     THEN [topic[t] EXCEPT ![p[2]] = new] ELSE topic[t]]
    BY DEF SyncWrite
  <1> HIDE DEF new, p
  <1>9. topic' \in [Topics -> TopicRow \cup {Absent}]
    <2>1. \A t \in Topics : topic[t] # Absent => topic[t] \in TopicRow /\ [topic[t] EXCEPT ![p[2]] = new] \in TopicRow
      BY <1>6, <1>7, EditedRow DEF AdminShape
    <2> QED BY <1>8, <2>1
  <1>10. TablesOK'
    BY <1>9, ShapeTables DEF TablesOK, SyncWrite, Else
  <1>11. CallOK(q, d)
    BY <1>2, <1>3, <1>4, <1>5, RolesGoOn
  <1> QED BY <1>4, <1>10, <1>11, ShapeStep

LEMMA PatchGoesOn ==
  ASSUME AdminShape, NEW i \in Requests, NEW s \in TopicSteps \ {"existing", "updateTopic"}, At(i, s),
         NEW F, Touched(i, F), F \cap {"st", "body", "row"} = {}, serving'[i].prog = Tail(serving[i].prog),
         s \in {"oldSlug", "dropOld"} => serving'[i].had \subseteq Roles \X Right
  PROVE  CallOK(Req(i), serving'[i])
  <1> DEFINE q == Req(i)   c == serving[i]   d == serving'[i]
  <1>1. /\ CallOK(q, c) /\ q.op = "topicPatch" /\ c.prog # <<>> /\ Head(c.prog) = s
        /\ TopicAt(c.body, c.row, c.prog)
    BY Called, CalledAt DEF Owner, CallOK, PatchCall
  <1>2. d.st = "run" /\ d.body = c.body /\ d.row = c.row
    BY CalledAt DEF Touched, Fields
  <1>3. c.row \in TopicRow
    <2>1. Head(<<"existing">>) = "existing"
      OBVIOUS
    <2> QED BY <1>1, <2>1 DEF CallOK, PatchCall
  <1>4. TopicAt(c.body, c.row, Tail(c.prog))
    BY <1>1, TopicPatchMoves DEF TopicAt, PatchStart
  <1>5. AtPoint(q.op, d.prog)
    BY <1>1 DEF AtPoint
  <1>6. d.prog # <<>> /\ Head(d.prog) \in {"dropOld", "renamePerms"} => s \in {"oldSlug", "dropOld"}
    <2>1. Head(<<"syncPerms">>) = "syncPerms" /\ Head(<<"dropNew", "syncPerms">>) = "dropNew"
      OBVIOUS
    <2>2. s \notin {"oldSlug", "dropOld"} =>
            d.prog \in {<<>>, <<"syncPerms">>, UpdatePart(c.body), RestPart(c.body, c.row), WipePart(c.body, c.row)}
      BY <1>1, TopicPatchMoves DEF TopicSteps
    <2>3. PICK b, ex : b = c.body /\ ex = c.row
      OBVIOUS
    <2>4. SyncPart(b) \in {<<>>, <<"dropNew", "syncPerms">>}
      BY DEF SyncPart
    <2>5. Head(UpdatePart(b)) = "updateTopic" /\ Head(RestPart(b, ex)) \in {"oldSlug", "updateTopic"} /\ Head(WipePart(b, ex)) = "wipe"
      BY TopicParts DEF RestPart
    <2> QED BY <2>1, <2>2, <2>3, <2>4, <2>5
  <1>7. PatchCall(d)
    BY <1>2, <1>3, <1>4, <1>6 DEF PatchCall
  <1> QED BY <1>1, <1>2, <1>5, <1>7 DEF CallOK

LEMMA PatchShape ==
  ASSUME AdminShape, NEW i \in Requests,
         \/ ClearHome(i) \/ Wipe(i) \/ OldSlug(i) \/ DropOld(i) \/ RenamePerms(i) \/ DropNew(i) \/ SyncPerms(i)
  PROVE  AdminShape'
  <1> DEFINE q == Req(i)   c == serving[i]   d == serving'[i]
  <1>1. /\ CallOK(q, c) /\ DOMAIN c = Fields /\ TablesOK
    BY Called, ShapeTables
  <1>2. PICK s \in TopicSteps \ {"existing", "updateTopic"} : At(i, s)
    BY DEF ClearHome, Wipe, OldSlug, DropOld, RenamePerms, DropNew, SyncPerms, TopicSteps
  <1>3. Touched(i, {"prog", "had"}) /\ d.prog = Tail(c.prog)
    <2>1. Touched(i, {"prog"}) => Touched(i, {"prog", "had"})
      BY DEF Touched
    <2> QED BY <2>1, ClearHomeDoes, WipeDoes, OldSlugDoes, DropOldDoes, RenamePermsDoes, DropNewDoes, SyncPermsDoes
  <1>4. c.row \in TopicRow /\ Asked(c.body)
    <2>1. Head(<<"existing">>) = "existing" /\ c.prog # <<>> /\ Head(c.prog) = s /\ q.op = "topicPatch"
      BY <1>2, CalledAt DEF Owner
    <2> QED BY <1>1, <2>1 DEF CallOK, PatchCall
  <1>5. CallOK(q, d)
    <2>1. CASE OldSlug(i)
      <3>1. d.had \subseteq Roles \X Right
        BY <1>1, <2>1, OldSlugDoes DEF TablesOK
      <3> QED BY <1>2, <1>3, <3>1, PatchGoesOn
    <2>2. CASE DropOld(i)
      <3>1. At(i, "dropOld")
        BY <2>2 DEF DropOld
      <3>2. Head(c.prog) = "dropOld" /\ c.prog # <<>> /\ q.op = "topicPatch"
        BY <3>1, CalledAt DEF Owner, TopicSteps
      <3>3. c.had \subseteq Roles \X Right
        BY <1>1, <3>2 DEF CallOK, PatchCall
      <3>4. d.had = c.had
        BY <2>2, DropOldDoes DEF Touched, Fields
      <3> QED BY <1>2, <1>3, <3>3, <3>4, PatchGoesOn
    <2>3. CASE ~OldSlug(i) /\ ~DropOld(i)
      <3>1. s \notin {"oldSlug", "dropOld"}
        BY <1>2, <2>3 DEF At, ClearHome, Wipe, OldSlug, DropOld, RenamePerms, DropNew, SyncPerms
      <3> QED BY <1>2, <1>3, <3>1, PatchGoesOn
    <2> QED BY <2>1, <2>2, <2>3
  <1>6. CASE ClearHome(i)
    <2>1. topic' \in [Topics -> TopicRow \cup {Absent}]
      <3>1. \A t \in Topics : topic[t] # Absent => [topic[t] EXCEPT !.home = FALSE] \in TopicRow
        BY <1>1, HomelessRow DEF TablesOK
      <3> QED BY <1>6, <3>1 DEF ClearHome
    <2>2. TablesOK'
      BY <1>1, <1>6, <2>1 DEF TablesOK, ClearHome, Else
    <2> QED BY <1>3, <1>5, <2>2, ShapeStep
  <1>7. CASE Wipe(i) \/ OldSlug(i)
    BY <1>1, <1>3, <1>5, <1>7, ShapeStep DEF TablesOK, Wipe, OldSlug, Else, db
  <1>8. CASE DropOld(i) \/ DropNew(i)
    <2>1. held' \subseteq Roles \X Right
      BY <1>1, <1>8 DEF TablesOK, DropOld, DropNew
    <2>2. TablesOK'
      BY <1>1, <1>8, <2>1 DEF TablesOK, DropOld, DropNew, Else
    <2> QED BY <1>3, <1>5, <2>2, ShapeStep
  <1>9. CASE RenamePerms(i)
    <2>1. held' \subseteq Roles \X Right
      <3>1. At(i, "renamePerms")
        BY <1>9 DEF RenamePerms
      <3>2. /\ Head(c.prog) = "renamePerms" /\ c.prog # <<>> /\ q.op = "topicPatch"
            /\ TopicAt(c.body, c.row, c.prog)
        BY <1>1, <3>1, CalledAt DEF Owner, TopicSteps, CallOK, PatchCall
      <3>3. c.had \subseteq Roles \X Right
        BY <1>1, <3>2 DEF CallOK, PatchCall
      <3>4. c.body.slug \in Slugs
        BY <1>4, <3>2, TopicPatchMoves DEF Renames, Asks, Asked
      <3>5. \A h \in c.had : <<h[1], <<c.body.slug, h[2][2]>>>> \in Roles \X Right
        BY <3>3, <3>4 DEF Right
      <3>6. held' = held \cup {<<h[1], <<c.body.slug, h[2][2]>>>> : h \in c.had}
        BY <1>9 DEF RenamePerms
      <3> QED BY <1>1, <3>5, <3>6 DEF TablesOK
    <2>2. TablesOK'
      BY <1>1, <1>9, <2>1 DEF TablesOK, RenamePerms, Else
    <2> QED BY <1>3, <1>5, <2>2, ShapeStep
  <1>10. CASE SyncPerms(i)
    <2>1. \A a \in Acts : c.row[a] \subseteq Roles
      BY <1>4, RowList
    <2>2. c.row.slug \in Slugs
      BY <1>4, RowForm
    <2>3. \A a \in Acts : \A r \in c.row[a] : <<r, <<c.row.slug, a>>>> \in Roles \X Right
      <3>1. \A a \in Acts : <<c.row.slug, a>> \in Right
        BY <2>2 DEF Right
      <3> QED BY <2>1, <3>1
    <2>4. held' = held \cup UNION {{<<r, <<c.row.slug, a>>>> : r \in c.row[a]} : a \in Acts}
      BY <1>10 DEF SyncPerms
    <2>5. held' \subseteq Roles \X Right
      BY <1>1, <2>3, <2>4 DEF TablesOK
    <2>6. TablesOK'
      BY <1>1, <1>10, <2>5 DEF TablesOK, SyncPerms, Else
    <2> QED BY <1>3, <1>5, <2>6, ShapeStep
  <1> QED BY <1>6, <1>7, <1>8, <1>9, <1>10

LEMMA UpdateTopicShape ==
  ASSUME AdminShape, NEW i \in Requests, UpdateTopic(i)
  PROVE  AdminShape'
  <1> DEFINE q == Req(i)   c == serving[i]   d == serving'[i]   t == q.t   p == PatchOf(c.body, c.row)
  <1>1. CallOK(q, c) /\ AdminRequest(q) /\ t \in Topics /\ TablesOK
    BY Called, ShapeTables DEF AdminRequest
  <1>2. At(i, "updateTopic")
    BY DEF UpdateTopic
  <1>3. /\ q.op = "topicPatch" /\ c.prog # <<>> /\ Head(c.prog) = "updateTopic" /\ c.st = "run"
        /\ TopicAt(c.body, c.row, c.prog) /\ Asked(c.body)
    BY <1>1, <1>2, CalledAt DEF Owner, TopicSteps, CallOK, PatchCall
  <1>4. c.row \in TopicRow
    <2>1. Head(<<"existing">>) = "existing"
      OBVIOUS
    <2> QED BY <1>1, <1>3, <2>1 DEF CallOK, PatchCall
  <1>5. Tail(c.prog) = SyncPart(c.body)
    BY <1>3, TopicPatchMoves
  <1>6. Touched(i, {"prog", "row", "ok"})
    BY UpdateTopicDoes
  <1>7. d.st = "run" /\ d.body = c.body
    BY <1>3, <1>6 DEF Touched, Fields
  <1>8. CASE UpdateRefused(i)
    <2>1. d.prog = <<>> /\ topic' = topic
      BY <1>8, UpdateTopicDoes
    <2>2. CallOK(q, d)
      BY <1>1, <1>3, <1>7, <2>1 DEF CallOK, PatchCall, TopicAt, AtPoint
    <2>3. TablesOK'
      BY <1>1, <2>1 DEF TablesOK, UpdateTopic
    <2> QED BY <1>6, <2>2, <2>3, ShapeStep
  <1>9. CASE ~UpdateRefused(i)
    <2> DEFINE row == Merge(topic[t], p)   s == Merge(c.row, p).slug
    <2>1. /\ topic[t] # Absent /\ topic' = [topic EXCEPT ![t] = row] /\ d.prog = Tail(c.prog)
          /\ d.row = Merge(topic'[t], [slug |-> s])
      BY <1>9, UpdateTopicDoes
    <2>2. row \in TopicRow /\ Merge(c.row, p) \in TopicRow
      BY <1>1, <1>3, <1>4, <2>1, MergePatch DEF TablesOK
    <2>3. s \in Slugs
      BY <2>2, RowForm
    <2> HIDE DEF row, s
    <2>4. topic'[t] = row
      BY <1>1, <2>1 DEF TablesOK
    <2>5. d.row \in TopicRow
      <3>1. Asked([slug |-> s])
        BY <2>3 DEF Asked, Acts
      <3> QED BY <2>1, <2>2, <2>4, <3>1, MergeBody
    <2>6. PatchCall(d)
      <3>1. Head(<<"dropNew", "syncPerms">>) = "dropNew"
        OBVIOUS
      <3>2. d.prog # <<>> => Head(d.prog) = "dropNew"
        BY <1>5, <2>1, <3>1 DEF SyncPart
      <3> QED BY <1>5, <1>7, <2>1, <2>5, <3>2 DEF PatchCall, TopicAt
    <2>61. CallOK(q, d)
      BY <1>1, <1>3, <1>7, <2>6 DEF CallOK, AtPoint
    <2>7. TablesOK'
      BY <1>1, <2>1, <2>2 DEF TablesOK, UpdateTopic
    <2> QED BY <1>6, <2>61, <2>7, ShapeStep
  <1> QED BY <1>8, <1>9

LEMMA ExistingShape ==
  ASSUME AdminShape, NEW i \in Requests, Existing(i)
  PROVE  AdminShape'
  <1> DEFINE q == Req(i)   c == serving[i]   d == serving'[i]
  <1>1. CallOK(q, c) /\ AdminRequest(q) /\ q.t \in Topics
    BY Called DEF AdminRequest
  <1>2. At(i, "existing")
    BY DEF Existing
  <1>3. q.op = "topicPatch" /\ c.st = "run" /\ Asked(c.body)
    BY <1>1, <1>2, CalledAt DEF Owner, TopicSteps, CallOK
  <1>4. PICK ex : ex = topic[q.t]
    OBVIOUS
  <1>5. /\ Touched(i, {"prog", "row", "ok"})
        /\ ex = Absent => d.prog = <<>>
        /\ ex # Absent => d.row = ex /\ d.prog = PatchProgram(c.body, ex)
    BY <1>4, ExistingDoes
  <1>6. d.st = "run" /\ d.body = c.body
    BY <1>3, <1>5 DEF Touched, Fields
  <1>7. PatchCall(d)
    <2>1. CASE ex = Absent
      BY <1>5, <2>1 DEF PatchCall, TopicAt
    <2>2. CASE ex # Absent
      <3>1. ex \in TopicRow
        BY <1>1, <1>4, <2>2 DEF AdminShape
      <3>2. PatchStart(d.body, d.row, d.prog)
        BY <1>5, <1>6, <2>2, PatchProgramStarts
      <3>3. d.prog # <<>> => Head(d.prog) \in {"clearHome", "wipe", "oldSlug", "updateTopic"}
        BY <3>2, TopicParts DEF PatchStart, RestPart
      <3> QED BY <1>5, <2>2, <3>1, <3>2, <3>3 DEF PatchCall, TopicAt
    <2> QED BY <2>1, <2>2
  <1>8. CallOK(q, d)
    BY <1>3, <1>6, <1>7 DEF CallOK, AtPoint
  <1>9. TablesOK'
    BY ShapeTables DEF TablesOK, Existing, Else, db
  <1> QED BY <1>5, <1>8, <1>9, ShapeStep

LEMMA DeleteShape ==
  ASSUME AdminShape, NEW i \in Requests, SlugOf(i) \/ DropPerms(i) \/ DropTopic(i)
  PROVE  AdminShape'
  <1> DEFINE q == Req(i)   c == serving[i]   d == serving'[i]
  <1>1. CallOK(q, c) /\ AdminRequest(q) /\ q.t \in Topics /\ q.op \in Ops
    BY Called DEF AdminRequest
  <1>2. PICK s \in {"slugOf", "dropPerms", "dropTopic"} : At(i, s)
    BY DEF SlugOf, DropPerms, DropTopic
  <1>3. q.op = "topicDelete" /\ c.st = "run" /\ c.prog # <<>> /\ AtPoint(q.op, c.prog) /\ Head(c.prog) = s
    BY <1>2, CalledAt DEF Owner
  <1>4. Touched(i, {"prog", "row"}) /\ d.prog = Tail(c.prog)
    <2>1. Touched(i, {"prog"}) => Touched(i, {"prog", "row"})
      BY DEF Touched
    <2> QED BY <2>1, SlugOfDoes, DropPermsDoes, DropTopicDoes
  <1>5. d.st = "run" /\ d.body = c.body
    BY <1>3, <1>4 DEF Touched, Fields
  <1>6. AtPoint(q.op, d.prog)
    BY <1>1, <1>3, <1>4, LeavesPoint
  <1>7. d.prog = <<"dropPerms", "dropTopic">> => d.row \in TopicRow \cup {Absent}
    <2>1. CASE s = "slugOf"
      <3>1. ~DropPerms(i) /\ ~DropTopic(i)
        BY <1>3, <2>1 DEF DropPerms, DropTopic, At
      <3>2. SlugOf(i)
        BY <3>1
      <3> QED BY <1>1, <3>2, SlugOfDoes DEF AdminShape
    <2>2. CASE s # "slugOf"
      <3>1. d.prog \in {<<"dropTopic">>, <<>>}
        BY <1>3, <1>4, <2>2, TopicDeleteMoves DEF AtPoint
      <3>2. <<"dropTopic">> # <<"dropPerms", "dropTopic">> /\ <<>> # <<"dropPerms", "dropTopic">>
        OBVIOUS
      <3> QED BY <3>1, <3>2
    <2> QED BY <2>1, <2>2
  <1>8. CallOK(q, d)
    BY <1>1, <1>3, <1>5, <1>6, <1>7 DEF CallOK
  <1>9. TablesOK'
    <2>1. CASE SlugOf(i)
      BY <2>1, ShapeTables DEF TablesOK, SlugOf, Else, db
    <2>2. CASE DropPerms(i)
      BY <2>2, ShapeTables DEF TablesOK, DropPerms, Else
    <2>3. CASE DropTopic(i)
      BY <1>1, <2>3, ShapeTables DEF TablesOK, DropTopic, Else
    <2> QED BY <2>1, <2>2, <2>3
  <1> QED BY <1>4, <1>8, <1>9, ShapeStep

LEMMA BulkShape ==
  ASSUME AdminShape, NEW i \in Requests, SlugsOf(i) \/ DropAll(i)
  PROVE  AdminShape'
  <1> DEFINE q == Req(i)   c == serving[i]   d == serving'[i]
  <1>1. CallOK(q, c) /\ AdminRequest(q) /\ q.ts \subseteq Topics /\ q.op \in Ops
    BY Called DEF AdminRequest
  <1>2. PICK s \in {"slugsOf", "dropAll"} : At(i, s)
    BY DEF SlugsOf, DropAll
  <1>3. q.op = "bulkDelete" /\ c.st = "run" /\ c.prog # <<>> /\ AtPoint(q.op, c.prog) /\ BulkCall(c)
    BY <1>1, <1>2, CalledAt DEF Owner, CallOK
  <1>4. CASE SlugsOf(i)
    <2>1. PICK ids : ids = {t \in q.ts : topic[t] # Absent}
      OBVIOUS
    <2>2. /\ Touched(i, {"prog", "ids", "todo"})
          /\ ids = {} => d.prog = <<>> /\ d.ids = c.ids /\ d.todo = c.todo
          /\ ids # {} => d.prog = Tail(c.prog) /\ d.ids = ids /\ d.todo = {topic[t].slug : t \in ids}
      BY <1>4, <2>1, SlugsOfDoes
    <2>3. \A t \in ids : t \in Topics /\ topic[t].slug \in Slugs
      <3>1. \A t \in ids : t \in Topics /\ topic[t] \in TopicRow
        BY <1>1, <2>1 DEF AdminShape
      <3> QED BY <3>1, RowForm
    <2>4. BulkCall(d)
      BY <1>3, <2>2, <2>3 DEF BulkCall
    <2>5. d.st = "run" /\ d.body = c.body
      BY <1>3, <2>2 DEF Touched, Fields
    <2>6. AtPoint(q.op, d.prog)
      BY <1>1, <1>3, <2>2, LeavesPoint
    <2>7. CallOK(q, d)
      BY <1>1, <1>3, <2>4, <2>5, <2>6 DEF CallOK
    <2>8. TablesOK'
      BY <1>4, ShapeTables DEF TablesOK, SlugsOf, Else, db
    <2> QED BY <2>2, <2>7, <2>8, ShapeStep
  <1>5. CASE DropAll(i)
    <2>1. /\ Touched(i, {"prog", "ids"}) /\ d.prog = Tail(c.prog)
          /\ d.ids = {t \in c.ids : topic[t] # Absent}
      BY <1>5, DropAllDoes
    <2>2. d.st = "run" /\ d.body = c.body /\ d.todo = c.todo
      BY <1>3, <2>1 DEF Touched, Fields
    <2>3. BulkCall(d)
      BY <1>3, <2>1, <2>2 DEF BulkCall
    <2>4. AtPoint(q.op, d.prog)
      BY <1>1, <1>3, <2>1, LeavesPoint
    <2>5. CallOK(q, d)
      BY <1>1, <1>3, <2>2, <2>3, <2>4 DEF CallOK
    <2>6. TablesOK'
      BY <1>5, ShapeTables DEF TablesOK, DropAll, Else
    <2> QED BY <2>1, <2>5, <2>6, ShapeStep
  <1> QED BY <1>4, <1>5

LEMMA IdleCall ==
  ASSUME NEW q, q.op \in Ops
  PROVE  DOMAIN Idle = Fields /\ CallOK(q, Idle)
  <1> DEFINE c == Idle
  <1>1. /\ c.st = "new" /\ c.prog = <<>> /\ c.body = <<>> /\ c.perms = {} /\ c.had = {} /\ c.todo = {} /\ c.ids = {}
        /\ DOMAIN c = Fields
    BY DEF Idle, Fields
  <1> HIDE DEF c
  <1>2. Asked(<<>>)
    <2>1. DOMAIN <<>> = {}
      OBVIOUS
    <2> QED BY <2>1 DEF Asked
  <1>3. AtPoint(q.op, <<>>)
    BY Finishes DEF AtPoint
  <1>4. CallOK(q, c) /\ DOMAIN c = Fields
    BY <1>1, <1>2, <1>3 DEF CallOK, PatchCall, BulkCall, RolesCall, TopicAt
  <1> QED BY <1>4 DEF c

LEMMA ShapeInit == AdminInit => AdminShape
  <1> SUFFICES ASSUME AdminInit PROVE AdminShape
    OBVIOUS
  <1>1. /\ work \in Workloads /\ work.topics \in [Topics -> TopicRow \cup {Absent}]
        /\ work.global \subseteq Roles \X ({Absent} \X STRING)
        /\ work.role \in [Users -> Roles \cup {Absent}]
        /\ \A i \in DOMAIN work.reqs : AdminRequest(work.reqs[i])
    BY WorkloadAssumption DEF AdminInit
  <1>2. /\ serving = [i \in DOMAIN work.reqs |-> Idle] /\ roles = Roles \ work.later
        /\ topic = work.topics /\ role = work.role /\ copy = [b \in Tabs |-> FormData]
    BY DEF AdminInit
  <1>3. held \subseteq Roles \X Right
    <2>1. held \subseteq work.global \cup (Roles \X (Slugs \X Acts))
      BY DEF AdminInit
    <2>2. Slugs \X Acts \subseteq Right /\ {Absent} \X STRING \subseteq Right
      BY DEF Right
    <2> QED BY <1>1, <2>1, <2>2
  <1>4. FormData \in FormState
    BY <1>1, <1>2, <1>3 DEF FormData, FormState, PermsOf
  <1>5. \A i \in DOMAIN serving : DOMAIN serving[i] = Fields /\ CallOK(Req(i), serving[i])
    <2> SUFFICES ASSUME NEW i \in DOMAIN serving PROVE DOMAIN serving[i] = Fields /\ CallOK(Req(i), serving[i])
      OBVIOUS
    <2>1. Req(i).op \in Ops /\ serving[i] = Idle
      BY <1>1, <1>2 DEF Req, AdminRequest
    <2> QED BY <2>1, IdleCall
  <1> QED BY <1>1, <1>2, <1>3, <1>4, <1>5 DEF AdminShape

(* Every step a request takes, sorted by what the invariants ask of it.       *)
Steps(i) ==
  \/ Enters(i) \/ Shows(i) \/ Reload(i) \/ Existing(i) \/ ClearHome(i) \/ Wipe(i) \/ OldSlug(i)
  \/ DropOld(i) \/ RenamePerms(i) \/ UpdateTopic(i) \/ DropNew(i) \/ SyncPerms(i) \/ InsertTopic(i)
  \/ SlugOf(i) \/ DropPerms(i) \/ DropTopic(i) \/ SlugsOf(i) \/ DropAll(i) \/ Grant(i) \/ Ungrant(i)
  \/ Exists(i) \/ InsertRole(i) \/ Clone(i) \/ InsertPerms(i) \/ OldPerms(i) \/ DeletePerms(i)
  \/ SyncRead(i) \/ SyncWrite(i) \/ RoleRow(i) \/ DeleteRole(i) \/ UsersOf(i) \/ SessionsOf(i)
  \/ Block(i) \/ Close(i) \/ InsertUser(i) \/ Prior(i) \/ UpdateUser(i) \/ DeleteUser(i)
  \/ Override(i) \/ Unoverride(i) \/ Profile(i) \/ Permissions(i) \/ Session(i)

LEMMA NextCalls ==
  ASSUME AdminNext
  PROVE  \/ \E i \in Requests : Steps(i)
         \/ UNCHANGED <<work, serving, copy, db, seats, audit, torn, odd>>
  <1>1. ASSUME NEW u \in Users, SweepRead(u) \/ SweepApply(u)
        PROVE  UNCHANGED <<work, serving, copy, db, seats, audit, torn, odd>>
    BY <1>1 DEF SweepRead, SweepApply
  <1>2. ASSUME NEW r \in Roles, CacheExpires(r)
        PROVE  UNCHANGED <<work, serving, copy, db, seats, audit, torn, odd>>
    BY <1>2 DEF CacheExpires
  <1> QED BY <1>1, <1>2, ZenonT(60) DEF AdminNext, Steps, Enters, Shows

LEMMA ShapeCalls ==
  ASSUME AdminShape, NEW i \in Requests, Steps(i)
  PROVE  AdminShape'
  BY EnterShape, ShowShape, ReloadShape, ExistingShape, PatchShape, UpdateTopicShape, PlainShape,
     DeleteShape, BulkShape, RoleCreateShape, InsertPermsShape, OldPermsShape, DeletePermsShape,
     SyncReadShape, SyncWriteShape, RevokeShape, Zenon DEF Steps

LEMMA ShapeNext == AdminShape /\ [AdminNext]_adminVars => AdminShape'
  <1> SUFFICES ASSUME AdminShape, [AdminNext]_adminVars PROVE AdminShape'
    OBVIOUS
  <1>1. CASE UNCHANGED <<work, serving, copy, db, seats, audit, torn, odd>>
    BY <1>1 DEF AdminShape, db, Req
  <1>2. CASE \E i \in Requests : Steps(i)
    BY <1>2, ShapeCalls
  <1>3. CASE UNCHANGED adminVars
    BY <1>3 DEF AdminShape, adminVars, Req
  <1> QED BY <1>1, <1>2, <1>3, NextCalls

(* Type correctness: the tables hold rows of their kinds whatever is asked,   *)
(* and each request holds at every point of its handler what its next         *)
(* statement uses.                                                            *)
THEOREM AdminStaysInShape == AdminSpec => []AdminShape
  <1> QED BY ShapeInit, ShapeNext, PTL DEF AdminSpec

(***************************************************************************)
(* Tokens                                                                  *)
(***************************************************************************)
(* A request has changed what user u may do and has still to revoke.          *)
ByUser == {"userPatch", "overridePut", "overrideDelete"}
Owes(i, u) ==
  /\ InFlight(i) /\ serving[i].prog # <<>>
  /\ \/ Req(i).op \in ByUser /\ Req(i).u = u /\ Head(serving[i].prog) = "sessionsOf"
     \/ /\ Req(i).op = "rolePatch" /\ role[u] = Req(i).r
        /\ Head(serving[i].prog) \in {"insertPerms", "syncRead", "syncWrite", "usersOf"}
     \/ Req(i).op = "rolePatch" /\ Head(serving[i].prog) = "sessionsOf" /\ u \in serving[i].ids
Owed(u) == \E i \in Requests : Owes(i, u)
(* A revocation has read the token's row and is about to block it.            *)
Caught(k) == \E i \in Requests : At(i, "block") /\ k.id \in serving[i].had
Unborn(j) == Req(j).op = "login" /\ (serving[j].st = "new" \/ serving[j].prog # <<>>)
Reads(i) == At(i, "block") \/ At(i, "close")
(* A token has its row, or is one no revocation finds.                        *)
RowsKept ==
  /\ \A o \in open : o[2] \in Users
  /\ \A k \in usable : k.user \in Users
  /\ \A k \in usable : k.id \in torn \/ (role[k.user] # Absent /\ <<k.id, k.user>> \in open)
FreshIds ==
  \A j \in Requests : Unborn(j) =>
    /\ \A k \in usable : k.id # j
    /\ \A o \in open : o[1] # j
    /\ \A i \in Requests : Reads(i) => j \notin serving[i].had
BlockedFirst == \A i \in Requests : At(i, "close") => \A k \in usable : k.id \notin serving[i].had
(* A token carries the rights of its user, or somebody is about to revoke     *)
(* it.                                                                        *)
Covered ==
  \A k \in usable : k.id \in torn \/ Own(k.perms) = Own(Now(k.user)) \/ Owed(k.user) \/ Caught(k)

(* So it is with a sign-in that has read a role or its rights.                *)
MintsCovered ==
  \A j \in Requests, u \in Users :
    Req(j).op = "login" /\ Req(j).u = u /\ InFlight(j) /\ j \notin torn /\ serving[j].prog # <<>> =>
      /\ Head(serving[j].prog) = "permissions" => role[u] # Absent /\ (serving[j].at = role[u] \/ Owed(u))
      /\ Head(serving[j].prog) = "session" =>
           role[u] # Absent /\ (Own(serving[j].perms) = Own(Now(u)) \/ Owed(u))

(* The inductive invariant of the tokens.                                     *)
TokenInv == RowsKept /\ FreshIds /\ BlockedFirst /\ ("failed" \in odd \/ (Covered /\ MintsCovered))
(* What a step of request i leaves of what is said of user u: the rights, or  *)
(* the request owes a revocation; what it owed; the role.                     *)
UserStands(i, u) ==
  /\ Own(Now(u))' = Own(Now(u)) \/ Owes(i, u)'
  /\ Owes(i, u) => Owes(i, u)'
  /\ role'[u] = role[u] \/ (Owes(i, u)' /\ role'[u] # Absent)
UserGone(u) == Minting \subseteq torn' /\ \A k \in usable : k.user = u => k.id \in torn'

LEMMA OthersAt ==
  ASSUME NEW i \in Requests, NEW F, Touched(i, F), NEW j \in Requests, j # i
  PROVE  /\ serving'[j] = serving[j] /\ Req(j)' = Req(j)
         /\ \A s : At(j, s)' <=> At(j, s)
         /\ InFlight(j)' <=> InFlight(j)
         /\ Reads(j)' <=> Reads(j)
         /\ Unborn(j)' <=> Unborn(j)
         /\ \A u : role'[u] = role[u] => (Owes(j, u) => Owes(j, u)')
  BY DEF Touched, At, InFlight, Reads, Unborn, Owes, Req

LEMMA StillOwed ==
  ASSUME NEW i \in Requests, NEW F, Touched(i, F), NEW u, UserStands(i, u)
  PROVE  Owed(u) => Owed(u)'
  <1> SUFFICES ASSUME NEW j \in Requests, Owes(j, u) PROVE Owed(u)'
    BY DEF Owed
  <1>1. Requests' = Requests
    BY DEF Touched, Requests
  <1>2. CASE j = i \/ Owes(i, u)'
    BY <1>1, <1>2 DEF UserStands, Owed
  <1>3. CASE j # i /\ role'[u] = role[u]
    BY <1>1, <1>3, OthersAt DEF Owed
  <1> QED BY <1>2, <1>3 DEF UserStands

(* A step that mints nothing and revokes nothing but what it blocks.          *)
TokenFrame(i, F) ==
  /\ Touched(i, F)
  /\ usable' \subseteq usable /\ open' \subseteq open /\ torn \subseteq torn'
  /\ \A k \in usable' : <<k.id, k.user>> \in open => <<k.id, k.user>> \in open' \/ k.id \in torn'
  /\ "failed" \in odd => "failed" \in odd'
  /\ At(i, "block") => \A k \in usable' : k.id \notin serving[i].had
  /\ ~At(i, "block")'
  /\ At(i, "close")' => At(i, "block") /\ serving'[i].had = serving[i].had
  /\ Req(i).op = "login" =>
       /\ Unborn(i)' => Unborn(i)
       /\ InFlight(i)' /\ serving'[i].prog # <<>> => Head(serving'[i].prog) \notin {"permissions", "session"}
UsersStand(i) == \A u \in Users : role[u] # Absent => UserStands(i, u) \/ UserGone(u)

LEMMA FrameRows ==
  ASSUME TokenInv, NEW i \in Requests, NEW F, TokenFrame(i, F), UsersStand(i)
  PROVE  RowsKept'
  <1>1. RowsKept
    BY DEF TokenInv
  <1> SUFFICES ASSUME NEW k \in usable', k.id \notin torn' PROVE role'[k.user] # Absent /\ <<k.id, k.user>> \in open'
    BY <1>1 DEF RowsKept, TokenFrame
  <1>2. k \in usable /\ k.user \in Users /\ role[k.user] # Absent /\ <<k.id, k.user>> \in open
    BY <1>1 DEF RowsKept, TokenFrame
  <1>3. PICK u : u = k.user
    OBVIOUS
  <1>4. UserStands(i, u)
    BY <1>2, <1>3 DEF UsersStand, UserGone
  <1> QED BY <1>2, <1>3, <1>4 DEF UserStands, TokenFrame

LEMMA FrameIds ==
  ASSUME AdminShape, TokenInv, NEW i \in Requests, NEW F, TokenFrame(i, F)
  PROVE  FreshIds' /\ BlockedFirst'
  <1>1. FreshIds /\ BlockedFirst /\ Requests' = Requests /\ Touched(i, F)
    BY DEF TokenInv, TokenFrame, Touched, Requests
  <1>2. \A j \in Requests : Unborn(j)' => Unborn(j)
    <2> SUFFICES ASSUME NEW j \in Requests, Unborn(j)' PROVE Unborn(j)
      OBVIOUS
    <2>1. CASE j # i
      BY <1>1, <2>1, OthersAt
    <2>2. CASE j = i
      <3>1. Req(i).op = "login"
        BY <2>2 DEF Unborn, TokenFrame, Touched, Req
      <3> QED BY <2>2, <3>1 DEF TokenFrame
    <2> QED BY <2>1, <2>2
  <1>3. \A j \in Requests : Reads(j)' => Reads(j) /\ serving'[j].had = serving[j].had
    <2> SUFFICES ASSUME NEW j \in Requests, Reads(j)' PROVE Reads(j) /\ serving'[j].had = serving[j].had
      OBVIOUS
    <2>1. CASE j # i
      BY <1>1, <2>1, OthersAt
    <2>2. CASE j = i
      BY <2>2 DEF TokenFrame, Reads
    <2> QED BY <2>1, <2>2
  <1>4. FreshIds'
    BY <1>1, <1>2, <1>3 DEF FreshIds, TokenFrame
  <1>5. BlockedFirst'
    <2> SUFFICES ASSUME NEW j \in Requests, At(j, "close")', NEW k \in usable' PROVE k.id \notin serving'[j].had
      BY <1>1 DEF BlockedFirst
    <2>1. CASE j # i
      BY <1>1, <2>1, OthersAt DEF BlockedFirst, TokenFrame
    <2>2. CASE j = i
      BY <2>2 DEF TokenFrame
    <2> QED BY <2>1, <2>2
  <1> QED BY <1>4, <1>5

LEMMA FrameCovered ==
  ASSUME AdminShape, TokenInv, NEW i \in Requests, NEW F, TokenFrame(i, F), UsersStand(i), Covered
  PROVE  Covered'
  <1>1. RowsKept /\ Touched(i, F) /\ Requests' = Requests
    BY DEF TokenInv, TokenFrame, Touched, Requests
  <1> SUFFICES ASSUME NEW k \in usable', k.id \notin torn'
               PROVE  (Own(k.perms) = Own(Now(k.user)))' \/ Owed(k.user)' \/ Caught(k)'
    BY DEF Covered
  <1>2. k \in usable /\ k.id \notin torn /\ k.user \in Users /\ role[k.user] # Absent
    BY <1>1 DEF RowsKept, TokenFrame
  <1>3. PICK u : u = k.user
    OBVIOUS
  <1>4. UserStands(i, u)
    BY <1>2, <1>3 DEF UsersStand, UserGone
  <1>5. Owed(u) => Owed(u)'
    BY <1>1, <1>4, StillOwed
  <1>6. CASE Own(k.perms) = Own(Now(u))
    <2>1. Owes(i, u)' => Owed(u)'
      BY <1>1 DEF Owed
    <2>2. Own(k.perms)' = Own(k.perms)
      BY DEF Own
    <2> QED BY <1>3, <1>4, <1>6, <2>1, <2>2 DEF UserStands
  <1>7. CASE Caught(k)
    <2>1. PICK j \in Requests : At(j, "block") /\ k.id \in serving[j].had
      BY <1>7 DEF Caught
    <2>2. j # i
      BY <2>1 DEF TokenFrame
    <2>3. At(j, "block")' /\ k.id \in serving'[j].had
      BY <1>1, <2>1, <2>2, OthersAt
    <2> QED BY <1>1, <2>3 DEF Caught
  <1> QED BY <1>2, <1>3, <1>5, <1>6, <1>7 DEF Covered

LEMMA FrameMints ==
  ASSUME AdminShape, TokenInv, NEW i \in Requests, NEW F, TokenFrame(i, F), UsersStand(i), MintsCovered
  PROVE  MintsCovered'
  <1>1. Touched(i, F) /\ Requests' = Requests
    BY DEF TokenFrame, Touched, Requests
  <1> SUFFICES ASSUME NEW j \in Requests, NEW u \in Users, Req(j).op = "login", Req(j).u = u,
                      serving'[j].st = "run", j \notin torn', serving'[j].prog # <<>>,
                      Head(serving'[j].prog) \in {"permissions", "session"}
               PROVE  /\ Head(serving'[j].prog) = "permissions" =>
                           role'[u] # Absent /\ (serving'[j].at = role'[u] \/ Owed(u)')
                      /\ Head(serving'[j].prog) = "session" =>
                           role'[u] # Absent /\ ((Own(serving[j].perms) = Own(Now(u)))' \/ Owed(u)')
    BY <1>1 DEF MintsCovered, InFlight, Req, Touched
  <1>2. j # i
    BY DEF TokenFrame, InFlight
  <1>3. serving'[j] = serving[j] /\ InFlight(j) /\ j \notin torn
    BY <1>1, <1>2 DEF Touched, InFlight, TokenFrame
  <1>4. j \in Minting
    <2>1. Program(Req(j)) = <<"profile", "permissions", "session">> /\ Head(<<"profile", "permissions", "session">>) = "profile"
      BY Programs
    <2> QED BY <1>3, <2>1 DEF Minting
  <1>5. role[u] # Absent
    BY <1>3 DEF MintsCovered
  <1>6. UserStands(i, u)
    BY <1>4, <1>5 DEF UsersStand, UserGone
  <1>7. Owed(u) => Owed(u)'
    BY <1>1, <1>6, StillOwed
  <1>8. Owes(i, u)' => Owed(u)'
    BY <1>1 DEF Owed
  <1>9. Own(serving[j].perms)' = Own(serving[j].perms)
    BY <1>3 DEF Own
  <1> QED BY <1>3, <1>5, <1>6, <1>7, <1>8, <1>9 DEF MintsCovered, UserStands

LEMMA FrameTokens ==
  ASSUME AdminShape, TokenInv, NEW i \in Requests, NEW F, TokenFrame(i, F), UsersStand(i)
  PROVE  TokenInv'
  <1>1. "failed" \in odd => "failed" \in odd'
    BY DEF TokenFrame
  <1> QED BY <1>1, FrameRows, FrameIds, FrameCovered, FrameMints DEF TokenInv

LEMMA BlocksInOrder ==
  ASSUME NEW op \in Ops \ {"topicPatch"}, NEW p, AtPoint(op, p), p # <<>>, Tail(p) # <<>>
  PROVE  /\ Head(Tail(p)) = "block" => Head(p) = "sessionsOf"
         /\ Head(Tail(p)) = "close" => Head(p) = "block"
  <1>1. AtPoint(op, Tail(p)) /\ Owner(op, Head(Tail(p)))
    BY LeavesPoint, Owners
  <1>2. CASE op = "rolePatch"
    <2>1. p \in RolePatchPoints /\ Tail(p) \in RolePatchPoints
      BY <1>1, <1>2 DEF AtPoint
    <2>2. /\ Head(Tail(p)) = "block" => Tail(p) = <<"block", "close">>
          /\ Head(Tail(p)) = "close" => Tail(p) = <<"close">>
      BY <2>1, RolePatchMoves
    <2>3. Tail(p) = <<"block", "close">> => Head(p) = "sessionsOf"
      BY <2>1, RolePatchMoves
    <2>4. Tail(p) = <<"close">> => Head(p) = "block"
      BY <2>1, RolePatchMoves
    <2> QED BY <2>2, <2>3, <2>4
  <1>3. CASE op = "roleDelete"
    BY <1>1, <1>3, RoleDeleteMoves DEF AtPoint
  <1>4. CASE op = "userPatch"
    BY <1>1, <1>4, UserPatchMoves DEF AtPoint
  <1>5. CASE op = "userDelete"
    BY <1>1, <1>5, UserDeleteMoves DEF AtPoint
  <1>6. CASE op = "overridePut"
    BY <1>1, <1>6, OverridePutMoves DEF AtPoint
  <1>7. CASE op = "overrideDelete"
    BY <1>1, <1>7, OverrideDeleteMoves DEF AtPoint
  <1> QED BY <1>1, <1>2, <1>3, <1>4, <1>5, <1>6, <1>7 DEF Owner

LEMMA ReadsNothing ==
  ASSUME AdminShape, NEW i \in Requests, NEW s, At(i, s), s \notin {"sessionsOf", "block"},
         NEW F, Touched(i, F), Req(i).op # "topicPatch", serving'[i].prog \in {<<>>, Tail(serving[i].prog)}
  PROVE  ~At(i, "block")' /\ ~At(i, "close")'
  BY Called, CalledAt, BlocksInOrder DEF At

LEMMA TopicReadsNothing ==
  ASSUME AdminShape, AdminShape', NEW i \in Requests, NEW F, Touched(i, F), Req(i).op = "topicPatch"
  PROVE  ~At(i, "block")' /\ ~At(i, "close")'
  <1>1. i \in DOMAIN serving' /\ Req(i)' = Req(i)
    BY DEF Touched, Requests, Req
  <1>2. CallOK(Req(i), serving'[i])
    BY <1>1 DEF AdminShape, Requests
  <1>3. TopicAt(serving'[i].body, serving'[i].row, serving'[i].prog)
    BY <1>2 DEF CallOK, PatchCall
  <1>4. serving'[i].prog # <<>> => Owner("topicPatch", Head(serving'[i].prog))
    BY <1>3, Owners DEF AtPoint, Ops
  <1> QED BY <1>4 DEF At, Owner

(* Rights of one's own, which no statement about topics touches.              *)
OwnHeld(H) == \A r, p : p[1] = Absent => (<<r, p>> \in H <=> <<r, p>> \in held)

LEMMA OwnStands ==
  ASSUME held \subseteq Roles \X Right, held' \subseteq Roles \X Right, OwnHeld(held'), override' = override,
         NEW u, role'[u] = role[u]
  PROVE  Own(Now(u))' = Own(Now(u))
  <1>1. \A r : \A p : p[1] = Absent => (p \in PermsOf(r)' <=> p \in PermsOf(r))
    BY DEF PermsOf, OwnHeld
  <1>2. \A p : p[1] = Absent => (p \in Now(u)' <=> p \in Now(u))
    BY <1>1 DEF Now, Resolve
  <1> QED BY <1>2 DEF Own

LEMMA RightsStand ==
  ASSUME held' = held, override' = override, NEW u, role'[u] = role[u]
  PROVE  Own(Now(u))' = Own(Now(u))
  BY DEF Own, Now, Resolve, PermsOf

Calm == /\ UNCHANGED <<role, override, open, usable>> /\ torn \subseteq torn' /\ OwnHeld(held')
        /\ ("failed" \in odd => "failed" \in odd')

LEMMA CalmStep ==
  ASSUME AdminShape, AdminShape', TokenInv, NEW i \in Requests, NEW F, Touched(i, F), Calm,
         ~At(i, "block"), ~At(i, "block")', ~At(i, "close")',
         \A u \in Users : Owes(i, u) => Owes(i, u)',
         Req(i).op = "login" =>
            /\ Unborn(i)' => Unborn(i)
            /\ InFlight(i)' /\ serving'[i].prog # <<>> => Head(serving'[i].prog) \notin {"permissions", "session"}
  PROVE  TokenInv'
  <1>1. TokenFrame(i, F)
    BY DEF TokenFrame, Calm
  <1>2. held \subseteq Roles \X Right /\ held' \subseteq Roles \X Right
    BY DEF AdminShape
  <1>3. \A u \in Users : UserStands(i, u)
    <2> SUFFICES ASSUME NEW u \in Users PROVE UserStands(i, u)
      OBVIOUS
    <2>1. Own(Now(u))' = Own(Now(u)) /\ role'[u] = role[u]
      BY <1>2, OwnStands DEF Calm
    <2> QED BY <2>1 DEF UserStands
  <1> QED BY <1>1, <1>3, FrameTokens DEF UsersStand

(* Statements of operations that revoke nothing. *)
Harmless == Ops \ {"rolePatch", "roleDelete", "userPatch", "userDelete", "overridePut", "overrideDelete", "login"}

LEMMA HarmlessStep ==
  ASSUME AdminShape, AdminShape', TokenInv, NEW i \in Requests, NEW F, Touched(i, F), Calm,
         NEW s, At(i, s), Req(i).op \in Harmless,
         Req(i).op # "topicPatch" => serving'[i].prog \in {<<>>, Tail(serving[i].prog), serving[i].prog}
  PROVE  TokenInv'
  <1>1. Owner(Req(i).op, s) /\ Req(i).op \in Ops
    BY Called, CalledAt
  <1>2. s \notin {"sessionsOf", "block", "close"} /\ Head(serving[i].prog) = s
    BY <1>1, CalledAt DEF Owner, Harmless
  <1>3. ~At(i, "block")
    BY <1>2 DEF At
  <1>4. ~At(i, "block")' /\ ~At(i, "close")'
    <2>1. CASE Req(i).op = "topicPatch"
      BY <2>1, TopicReadsNothing
    <2>2. CASE serving'[i].prog = serving[i].prog
      BY <1>2, <2>2 DEF At
    <2>3. CASE Req(i).op # "topicPatch" /\ serving'[i].prog \in {<<>>, Tail(serving[i].prog)}
      BY <1>2, <2>3, ReadsNothing
    <2> QED BY <2>1, <2>2, <2>3
  <1>5. \A u \in Users : ~Owes(i, u)
    BY DEF Owes, Harmless, ByUser
  <1>6. Req(i).op # "login"
    BY DEF Harmless
  <1> QED BY <1>3, <1>4, <1>5, <1>6, CalmStep

LEMMA SlugsPresent == \A s \in Slugs : s # Absent
  BY AbsentAssumption

LEMMA TopicPermsOther ==
  ASSUME NEW s \in Slugs, NEW p, p[1] = Absent
  PROVE  p \notin TopicPerms(s)
  BY SlugsPresent DEF TopicPerms

LEMMA PatchRow ==
  ASSUME AdminShape, NEW i \in Requests, NEW s \in TopicSteps \ {"existing"}, At(i, s)
  PROVE  /\ Req(i).op = "topicPatch" /\ serving[i].row \in TopicRow /\ serving[i].row.slug \in Slugs
         /\ Asked(serving[i].body) /\ TopicAt(serving[i].body, serving[i].row, serving[i].prog)
         /\ s \in {"oldSlug", "dropOld", "renamePerms"} =>
              Renames(serving[i].body, serving[i].row) /\ serving[i].body.slug \in Slugs
         /\ serving[i].prog # <<>> /\ Head(serving[i].prog) = s
  <1> DEFINE c == serving[i]
  <1>1. CallOK(Req(i), c) /\ Req(i).op = "topicPatch" /\ c.prog # <<>> /\ Head(c.prog) = s
    BY Called, CalledAt DEF Owner
  <1>2. Head(<<"existing">>) = "existing"
    OBVIOUS
  <1>3. c.row \in TopicRow /\ Asked(c.body) /\ TopicAt(c.body, c.row, c.prog)
    BY <1>1, <1>2 DEF CallOK, PatchCall
  <1>4. c.row.slug \in Slugs
    BY <1>3, RowForm
  <1>5. s \in {"oldSlug", "dropOld", "renamePerms"} => Renames(c.body, c.row)
    BY <1>1, <1>3, TopicPatchMoves
  <1>6. Renames(c.body, c.row) => c.body.slug \in Slugs
    BY <1>3 DEF Renames, Asks, Asked
  <1> QED BY <1>1, <1>3, <1>4, <1>5, <1>6

LEMMA PatchTokens ==
  ASSUME AdminShape, AdminShape', TokenInv, NEW i \in Requests,
         \/ ClearHome(i) \/ Wipe(i) \/ OldSlug(i) \/ DropOld(i) \/ RenamePerms(i) \/ UpdateTopic(i)
         \/ DropNew(i) \/ SyncPerms(i)
  PROVE  TokenInv'
  <1> DEFINE c == serving[i]
  <1>1. PICK s \in TopicSteps \ {"existing"} : At(i, s)
    BY DEF ClearHome, Wipe, OldSlug, DropOld, RenamePerms, UpdateTopic, DropNew, SyncPerms, TopicSteps
  <1>2. Req(i).op = "topicPatch" /\ c.row.slug \in Slugs
    BY <1>1, PatchRow
  <1>3. UNCHANGED <<role, override, open, usable, torn>>
    BY DEF ClearHome, Wipe, OldSlug, DropOld, RenamePerms, UpdateTopic, DropNew, SyncPerms, Else, db, seats
  <1>4. "failed" \in odd => "failed" \in odd'
    BY DEF ClearHome, Wipe, OldSlug, DropOld, RenamePerms, UpdateTopic, DropNew, SyncPerms, Else
  <1>5. OwnHeld(held')
    <2>1. CASE ClearHome(i) \/ Wipe(i) \/ OldSlug(i) \/ UpdateTopic(i)
      BY <2>1 DEF ClearHome, Wipe, OldSlug, UpdateTopic, db, OwnHeld
    <2>2. CASE DropOld(i) \/ DropNew(i)
      BY <1>2, <2>2, TopicPermsOther DEF DropOld, DropNew, OwnHeld
    <2>3. CASE RenamePerms(i)
      <3>1. At(i, "renamePerms")
        BY <2>3 DEF RenamePerms
      <3>2. c.body.slug # Absent
        BY <3>1, PatchRow, SlugsPresent DEF TopicSteps
      <3> QED BY <2>3, <3>2 DEF RenamePerms, OwnHeld
    <2>4. CASE SyncPerms(i)
      <3>1. c.row.slug # Absent
        BY <1>2, SlugsPresent
      <3>2. held' = held \cup UNION {{<<r, <<c.row.slug, a>>>> : r \in c.row[a]} : a \in Acts}
        BY <2>4 DEF SyncPerms
      <3> QED BY <3>1, <3>2 DEF OwnHeld
    <2> QED BY <2>1, <2>2, <2>3, <2>4
  <1>6. Calm
    BY <1>3, <1>4, <1>5 DEF Calm
  <1>7. Req(i).op \in Harmless
    BY <1>2 DEF Harmless, Ops
  <1>8. Touched(i, {"prog", "had", "row", "ok"})
    <2>1. \A F : F \subseteq {"prog", "had", "row", "ok"} /\ Touched(i, F) => Touched(i, {"prog", "had", "row", "ok"})
      BY DEF Touched
    <2> QED BY <2>1, ClearHomeDoes, WipeDoes, OldSlugDoes, DropOldDoes, RenamePermsDoes, UpdateTopicDoes,
               DropNewDoes, SyncPermsDoes
  <1> QED BY <1>1, <1>2, <1>6, <1>7, <1>8, HarmlessStep

LEMMA TablesTokens ==
  ASSUME AdminShape, AdminShape', TokenInv, NEW i \in Requests,
         \/ Reload(i) \/ Existing(i) \/ InsertTopic(i) \/ SlugOf(i) \/ DropPerms(i) \/ DropTopic(i)
         \/ SlugsOf(i) \/ DropAll(i) \/ Grant(i) \/ Ungrant(i) \/ Exists(i) \/ InsertRole(i) \/ Clone(i)
  PROVE  TokenInv'
  <1> DEFINE c == serving[i]   d == serving'[i]
  <1>1. CASE Reload(i)
    <2>1. Touched(i, {"st", "prog"}) /\ Calm /\ Req(i).op \in Harmless /\ d.prog = <<>>
      BY <1>1, ReloadDoes DEF Calm, OwnHeld, db, seats, Harmless, Ops
    <2>2. At(i, "load")
      <3>1. Head(<<"load">>) = "load"
        OBVIOUS
      <3> QED BY <1>1, <3>1 DEF Reload, At, InFlight
    <2> QED BY <2>1, <2>2, HarmlessStep
  <1>2. CASE Existing(i)
    <2>1. PICK ex : ex = topic[Req(i).t]
      OBVIOUS
    <2>2. Touched(i, {"prog", "row", "ok"}) /\ At(i, "existing")
      BY <1>2, <2>1, ExistingDoes DEF Existing
    <2>3. Req(i).op = "topicPatch"
      BY <2>2, CalledAt DEF Owner, TopicSteps
    <2>4. Calm
      BY <1>2 DEF Existing, Calm, OwnHeld, Else, db, seats
    <2> QED BY <2>2, <2>3, <2>4, HarmlessStep DEF Harmless, Ops
  <1>3. CASE InsertTopic(i)
    <2>1. Touched(i, {"prog", "ok"}) /\ At(i, "insertTopic") /\ d.prog \in {<<>>, Tail(c.prog)}
      BY <1>3, InsertTopicDoes DEF InsertTopic
    <2>2. Req(i).op \in Harmless
      BY <2>1, CalledAt DEF Owner, Harmless, Ops
    <2>3. Calm
      BY <1>3 DEF InsertTopic, Calm, OwnHeld, Else, seats
    <2> QED BY <2>1, <2>2, <2>3, HarmlessStep
  <1>4. CASE SlugOf(i) \/ DropPerms(i) \/ DropTopic(i)
    <2>1. PICK s \in {"slugOf", "dropPerms", "dropTopic"} : At(i, s)
      BY <1>4 DEF SlugOf, DropPerms, DropTopic
    <2>2. Req(i).op = "topicDelete" /\ AtPoint("topicDelete", c.prog) /\ CallOK(Req(i), c) /\ Head(c.prog) = s /\ c.prog # <<>>
      BY <2>1, Called, CalledAt DEF Owner
    <2>3. Touched(i, {"prog", "row"}) /\ d.prog = Tail(c.prog)
      <3>1. Touched(i, {"prog"}) => Touched(i, {"prog", "row"})
        BY DEF Touched
      <3> QED BY <1>4, <3>1, SlugOfDoes, DropPermsDoes, DropTopicDoes
    <2>4. OwnHeld(held')
      <3>1. CASE ~DropPerms(i)
        BY <1>4, <3>1 DEF SlugOf, DropTopic, db, OwnHeld
      <3>2. CASE DropPerms(i)
        <4>1. At(i, "dropPerms")
          BY <3>2 DEF DropPerms
        <4>2. c.prog = <<"dropPerms", "dropTopic">>
          BY <2>2, <4>1, TopicDeleteMoves DEF AtPoint, At
        <4>3. c.row # Absent => c.row.slug \in Slugs
          BY <2>2, <4>2, RowForm DEF CallOK
        <4> QED BY <3>2, <4>3, TopicPermsOther DEF DropPerms, OwnHeld
      <3> QED BY <3>1, <3>2
    <2>5. Calm
      BY <1>4, <2>4 DEF SlugOf, DropPerms, DropTopic, Calm, Else, db, seats
    <2> QED BY <2>1, <2>2, <2>3, <2>5, HarmlessStep DEF Harmless, Ops
  <1>5. CASE SlugsOf(i)
    <2>1. PICK ids : ids = {t \in Req(i).ts : topic[t] # Absent}
      OBVIOUS
    <2>2. Touched(i, {"prog", "ids", "todo"}) /\ d.prog \in {<<>>, Tail(c.prog)} /\ At(i, "slugsOf")
      BY <1>5, <2>1, SlugsOfDoes, Zenon DEF SlugsOf
    <2>3. Req(i).op \in Harmless
      BY <2>2, CalledAt DEF Owner, Harmless, Ops
    <2>4. Calm
      BY <1>5 DEF SlugsOf, Calm, OwnHeld, Else, db, seats
    <2> QED BY <2>2, <2>3, <2>4, HarmlessStep
  <1>6. CASE DropAll(i)
    <2>1. Touched(i, {"prog", "ids"}) /\ d.prog = Tail(c.prog) /\ At(i, "dropAll")
      BY <1>6, DropAllDoes DEF DropAll
    <2>2. Req(i).op = "bulkDelete" /\ CallOK(Req(i), c)
      BY <2>1, Called, CalledAt DEF Owner
    <2>3. \A s \in c.todo : s \in Slugs
      BY <2>2 DEF CallOK, BulkCall
    <2>4. OwnHeld(held')
      BY <1>6, <2>3, TopicPermsOther DEF DropAll, OwnHeld
    <2>5. Calm
      BY <1>6, <2>4 DEF DropAll, Calm, Else, seats
    <2> QED BY <2>1, <2>2, <2>5, HarmlessStep DEF Harmless, Ops
  <1>7. CASE Grant(i)
    <2>1. Touched(i, {"prog", "ok"}) /\ At(i, "grant") /\ d.prog \in {<<>>, Tail(c.prog)}
      BY <1>7, GrantDoes DEF Grant
    <2>2. Req(i).op \in Harmless
      BY <2>1, CalledAt DEF Owner, Harmless, Ops
    <2>3. Calm
      BY <1>7 DEF Grant, Calm, OwnHeld, Else, seats
    <2> QED BY <2>1, <2>2, <2>3, HarmlessStep
  <1>8. CASE Ungrant(i)
    <2>1. Touched(i, {"prog"}) /\ At(i, "ungrant") /\ d.prog = Tail(c.prog)
      BY <1>8, UngrantDoes DEF Ungrant
    <2>2. Req(i).op \in Harmless
      BY <2>1, CalledAt DEF Owner, Harmless, Ops
    <2>3. Calm
      BY <1>8 DEF Ungrant, Calm, OwnHeld, Else, seats
    <2> QED BY <2>1, <2>2, <2>3, HarmlessStep
  <1>9. CASE Exists(i) \/ InsertRole(i) \/ Clone(i)
    <2>1. PICK s \in {"exists", "insertRole", "clone"} : At(i, s)
      BY <1>9 DEF Exists, InsertRole, Clone
    <2>2. Req(i).op \in Harmless
      BY <2>1, CalledAt DEF Owner, Harmless, Ops
    <2>3. Touched(i, {"prog", "ok", "perms", "todo"}) /\ d.prog \in {<<>>, Tail(c.prog)}
      <3>1. \A F : F \subseteq {"prog", "ok", "perms", "todo"} /\ Touched(i, F) => Touched(i, {"prog", "ok", "perms", "todo"})
        BY DEF Touched
      <3> QED BY <1>9, <3>1, ExistsDoes, InsertRoleDoes, CloneDoes
    <2>4. Calm
      BY <1>9 DEF Exists, InsertRole, Clone, Calm, OwnHeld, Else, db, seats
    <2> QED BY <2>1, <2>2, <2>3, <2>4, HarmlessStep
  <1> QED BY <1>1, <1>2, <1>3, <1>4, <1>5, <1>6, <1>7, <1>8, <1>9

LEMMA EnterTokens ==
  ASSUME AdminShape, AdminShape', TokenInv, NEW i \in Requests, Enters(i) \/ Shows(i)
  PROVE  TokenInv'
  <1> DEFINE c == serving[i]   d == serving'[i]   F == {"st", "prog", "body", "perms"}
  <1>1. Touched(i, F) /\ UNCHANGED <<db, seats, torn>> /\ ("failed" \in odd => "failed" \in odd')
    <2>1. Touched(i, {"st"}) => Touched(i, F)
      BY DEF Touched
    <2> QED BY <2>1, EnterDoes, ShowDoes
  <1>2. Calm
    BY <1>1 DEF Calm, OwnHeld, db, seats
  <1>3. c.prog = <<>>
    <2>1. CASE Enters(i)
      BY <2>1, EnterDoes, Called DEF CallOK
    <2>2. CASE Shows(i)
      BY <2>2, ShowDoes DEF Ended
    <2> QED BY <2>1, <2>2
  <1>4. ~At(i, "block") /\ \A u \in Users : ~Owes(i, u)
    BY <1>3 DEF At, Owes
  <1>5. Req(i).op \in Ops /\ (Enters(i) => d.prog = Program(Req(i)) /\ c.st = "new")
    BY Called, EnterDoes
  <1>6. Shows(i) => d.st = "done"
    BY ShowDoes
  <1>7. Enters(i) => Head(d.prog) \notin {"block", "close"}
    BY <1>5, Programs DEF Ops
  <1>8. ~At(i, "block")' /\ ~At(i, "close")'
    BY <1>6, <1>7 DEF At, InFlight
  <1>9. Req(i).op = "login" =>
          /\ Unborn(i)' => Unborn(i)
          /\ InFlight(i)' /\ d.prog # <<>> => Head(d.prog) \notin {"permissions", "session"}
    <2>1. CASE Enters(i)
      BY <1>5, <2>1, Programs DEF Unborn
    <2>2. CASE Shows(i)
      <3>1. d.prog = <<>> /\ Req(i)' = Req(i)
        BY <1>3, <2>2, ShowDoes DEF Touched, Fields, Req
      <3> QED BY <1>6, <2>2, <3>1 DEF Unborn
    <2> QED BY <2>1, <2>2
  <1> HIDE DEF F
  <1> QED BY <1>1, <1>2, <1>4, <1>8, <1>9, CalmStep

LEMMA OwnHeldSame == held' = held => OwnHeld(held')
  BY DEF OwnHeld

(* A role's save, outside its revocation. *)
LEMMA SaveTokens ==
  ASSUME AdminShape, AdminShape', TokenInv, NEW i \in Requests, OldPerms(i) \/ SyncRead(i) \/ SyncWrite(i)
  PROVE  TokenInv'
  <1> DEFINE c == serving[i]   d == serving'[i]   F == {"prog", "ok", "todo", "had", "at", "row"}
  <1>1. PICK s \in {"oldPerms", "syncRead", "syncWrite"} : At(i, s)
    BY Zenon DEF OldPerms, SyncRead, SyncWrite
  <1>2. Req(i).op = "rolePatch" /\ AtPoint("rolePatch", c.prog) /\ Head(c.prog) = s /\ c.prog # <<>> /\ c.st = "run"
    BY <1>1, CalledAt DEF Owner
  <1>3. Calm
    BY OwnHeldSame, Zenon DEF OldPerms, SyncRead, SyncWrite, Calm, Else, db, seats
  <1>4. Touched(i, F)
    <2>1. \A G : G \subseteq F /\ Touched(i, G) => Touched(i, F)
      BY DEF Touched
    <2> QED BY <2>1, OldPermsDoes, SyncReadDoes, SyncWriteDoes
  <1>5. d.st = "run" /\ Req(i)' = Req(i) /\ role' = role
    BY <1>2, <1>3, <1>4 DEF Touched, Fields, Req, Calm
  <1>6. CASE s = "oldPerms"
    <2>1. OldPerms(i)
      BY <1>1, <1>6, Zenon DEF OldPerms, SyncRead, SyncWrite, At
    <2>2. d.prog \in {<<>>, Tail(c.prog)}
      BY <2>1, OldPermsDoes
    <2>3. ~At(i, "block") /\ \A u \in Users : ~Owes(i, u)
      BY <1>2, <1>6 DEF At, Owes, ByUser
    <2>4. ~At(i, "block")' /\ ~At(i, "close")'
      BY <1>1, <1>2, <1>4, <1>6, <2>2, ReadsNothing
    <2> HIDE DEF F
    <2> QED BY <1>2, <1>3, <1>4, <2>3, <2>4, CalmStep
  <1>7. CASE s \in {"syncRead", "syncWrite"}
    <2>1. d.prog # <<>> /\ Head(d.prog) \in {"syncRead", "syncWrite", "usersOf"}
      <3> DEFINE rest == <<"usersOf", "sessionsOf", "block", "close">>
      <3>1. Head(rest) = "usersOf" /\ Head(SavePoint) = "syncRead" /\ SavePoint # <<>> /\ rest # <<>>
        BY DEF SavePoint
      <3>2. CASE s = "syncRead"
        <4>1. SyncRead(i) /\ c.prog = SavePoint /\ Tail(c.prog) = rest
          BY <1>1, <1>2, <3>2, RolePatchMoves, Zenon DEF AtPoint, SavePoint, OldPerms, SyncRead, SyncWrite, At
        <4>2. d.prog \in {rest, SavePoint, First("syncWrite", SavePoint)}
          BY <4>1, SyncReadDoes DEF Touched, Fields
        <4>3. First("syncWrite", SavePoint) # <<>> /\ Head(First("syncWrite", SavePoint)) = "syncWrite"
          <5> DEFINE T == {"syncWrite", "syncRead", "usersOf", "sessionsOf", "block", "close"}
          <5>1. SavePoint \in Seq(T) /\ "syncWrite" \in T
            BY DEF SavePoint
          <5> HIDE DEF T
          <5> QED BY <5>1, FirstFacts
        <4> QED BY <3>1, <4>2, <4>3
      <3>3. CASE s = "syncWrite"
        <4>1. SyncWrite(i) /\ Tail(c.prog) = SavePoint
          BY <1>1, <1>2, <3>3, RolePatchMoves, Zenon DEF AtPoint, SavePoint, OldPerms, SyncRead, SyncWrite, At
        <4>2. d.prog = SavePoint
          BY <4>1, SyncWriteDoes
        <4> QED BY <3>1, <4>2
      <3> QED BY <1>7, <3>2, <3>3
    <2>2. \A u \in Users : Owes(i, u) => Owes(i, u)'
      BY <1>2, <1>5, <1>7, <2>1 DEF Owes, InFlight, ByUser
    <2>3. ~At(i, "block") /\ ~At(i, "block")' /\ ~At(i, "close")'
      BY <1>2, <1>7, <2>1 DEF At
    <2> HIDE DEF F
    <2> QED BY <1>2, <1>3, <1>4, <2>2, <2>3, CalmStep
  <1> QED BY <1>6, <1>7

LEMMA RoleRowTokens ==
  ASSUME AdminShape, AdminShape', TokenInv, NEW i \in Requests, RoleRow(i) \/ DeleteRole(i) \/ Prior(i)
  PROVE  TokenInv'
  <1> DEFINE c == serving[i]   d == serving'[i]   F == {"prog", "ok", "at"}
  <1>1. PICK s \in {"roleRow", "deleteRole", "prior"} : At(i, s)
    BY DEF RoleRow, DeleteRole, Prior
  <1>2. Req(i).op \in {"roleDelete", "userPatch"} /\ Head(c.prog) = s
    BY <1>1, CalledAt DEF Owner
  <1>3. Calm
    BY OwnHeldSame DEF RoleRow, DeleteRole, Prior, Calm, Else, db, seats
  <1>4. Touched(i, F) /\ d.prog \in {<<>>, Tail(c.prog)}
    <2>1. \A G : G \subseteq F /\ Touched(i, G) => Touched(i, F)
      BY DEF Touched
    <2> QED BY <2>1, RoleRowDoes, DeleteRoleDoes, PriorDoes
  <1>5. ~At(i, "block") /\ \A u \in Users : ~Owes(i, u)
    BY <1>2 DEF At, Owes
  <1> HIDE DEF F
  <1>6. ~At(i, "block")' /\ ~At(i, "close")'
    BY <1>1, <1>2, <1>4, ReadsNothing
  <1> QED BY <1>2, <1>3, <1>4, <1>5, <1>6, CalmStep

LEMMA UsersOfTokens ==
  ASSUME AdminShape, AdminShape', TokenInv, NEW i \in Requests, UsersOf(i)
  PROVE  TokenInv'
  <1> DEFINE c == serving[i]   d == serving'[i]   q == Req(i)
  <1>1. PICK us : us = {u \in Users : role[u] = q.r}
    OBVIOUS
  <1>2. /\ Touched(i, {"prog", "ids"}) /\ (us # {} => d.ids = us)
    BY <1>1, UsersOfDoes
  <1>3. At(i, "usersOf")
    BY DEF UsersOf
  <1>4. c.st = "run" /\ Head(c.prog) = "usersOf" /\ q.op \in {"rolePatch", "roleDelete"}
    BY <1>3, CalledAt DEF Owner
  <1>5. d.st = "run" /\ Req(i)' = q
    BY <1>2, <1>4 DEF Touched, Fields, Req
  <1>6. Calm
    BY OwnHeldSame DEF UsersOf, Calm, Else, db, seats
  <1>7. /\ d.prog # <<>> => Head(d.prog) \in {"sessionsOf", "deletePerms"}
        /\ q.op = "rolePatch" /\ us # {} => d.prog # <<>> /\ Head(d.prog) = "sessionsOf"
    <2>1. /\ Head(<<"sessionsOf", "block", "close">>) = "sessionsOf"
          /\ Head(<<"deletePerms", "deleteRole">>) = "deletePerms"
          /\ Head(<<"sessionsOf", "block", "close", "deletePerms", "deleteRole">>) = "sessionsOf"
          /\ <<"sessionsOf", "block", "close">> # <<>>
      OBVIOUS
    <2> QED BY <1>1, <2>1, UsersOfMoves
  <1>8. \A u \in Users : Owes(i, u) => Owes(i, u)'
    BY <1>1, <1>2, <1>4, <1>5, <1>7 DEF Owes, InFlight, ByUser
  <1>9. ~At(i, "block") /\ ~At(i, "block")' /\ ~At(i, "close")'
    BY <1>4, <1>7 DEF At
  <1> QED BY <1>2, <1>4, <1>6, <1>8, <1>9, CalmStep

(* Statements by user: the rights of everybody else stay as they are.         *)
LEMMA OtherOverrides ==
  ASSUME held' = held, NEW u, role'[u] = role[u], \A x : x[1] = u => (x \in override' <=> x \in override)
  PROVE  Own(Now(u))' = Own(Now(u))
  <1>1. \A r : PermsOf(r)' = PermsOf(r)
    BY DEF PermsOf
  <1>2. Now(u)' = Now(u)
    BY <1>1 DEF Now, Resolve
  <1> QED BY <1>2 DEF Own

LEMMA ByUserMoves ==
  ASSUME AdminShape, NEW i \in Requests, NEW s \in {"updateUser", "override", "unoverride"}, At(i, s)
  PROVE  /\ Req(i).op \in ByUser /\ serving[i].st = "run" /\ Head(serving[i].prog) = s
         /\ Tail(serving[i].prog) # <<>> /\ Head(Tail(serving[i].prog)) = "sessionsOf"
  <1>1. /\ AtPoint(Req(i).op, serving[i].prog) /\ serving[i].st = "run" /\ Head(serving[i].prog) = s
        /\ serving[i].prog # <<>>
    BY CalledAt
  <1>2. /\ s = "updateUser" => Req(i).op = "userPatch"
        /\ s = "override" => Req(i).op = "overridePut"
        /\ s = "unoverride" => Req(i).op = "overrideDelete"
    BY CalledAt DEF Owner
  <1>3. Tail(serving[i].prog) = <<"sessionsOf", "block", "close">>
    BY <1>1, <1>2, UserPatchMoves, OverridePutMoves, OverrideDeleteMoves DEF AtPoint
  <1>4. <<"sessionsOf", "block", "close">> # <<>> /\ Head(<<"sessionsOf", "block", "close">>) = "sessionsOf"
    OBVIOUS
  <1> QED BY <1>1, <1>2, <1>3, <1>4 DEF ByUser

LEMMA ByUserTokens ==
  ASSUME AdminShape, AdminShape', TokenInv, NEW i \in Requests,
         NEW s \in {"updateUser", "override", "unoverride"}, At(i, s),
         NEW F, Touched(i, F), "st" \notin F, serving'[i].prog = Tail(serving[i].prog),
         held' = held, UNCHANGED <<open, usable, torn, odd>>,
         \A u \in Users : u # Req(i).u =>
            role'[u] = role[u] /\ \A x : x[1] = u => (x \in override' <=> x \in override),
         role[Req(i).u] # Absent => role'[Req(i).u] # Absent
  PROVE  TokenInv'
  <1> DEFINE c == serving[i]   d == serving'[i]
  <1>1. /\ Req(i).op \in ByUser /\ c.st = "run" /\ Head(c.prog) = s
        /\ d.prog # <<>> /\ Head(d.prog) = "sessionsOf"
    BY ByUserMoves
  <1>2. d.st = "run" /\ Req(i)' = Req(i)
    BY <1>1 DEF Touched, Fields, Req
  <1>3. ~At(i, "block") /\ ~At(i, "block")' /\ ~At(i, "close")'
    BY <1>1 DEF At
  <1>4. Req(i).op # "login" /\ Req(i).op # "rolePatch"
    BY <1>1 DEF ByUser
  <1>5. TokenFrame(i, F)
    BY <1>3, <1>4 DEF TokenFrame
  <1>6. ASSUME NEW u \in Users, role[u] # Absent PROVE UserStands(i, u)
    <2>1. ~Owes(i, u)
      BY <1>1, <1>4 DEF Owes
    <2>2. CASE u = Req(i).u
      <3>1. Owes(i, u)'
        BY <1>1, <1>2, <2>2 DEF Owes, InFlight
      <3> QED BY <1>6, <2>1, <2>2, <3>1 DEF UserStands
    <2>3. CASE u # Req(i).u
      BY <2>1, <2>3, OtherOverrides DEF UserStands
    <2> QED BY <2>2, <2>3
  <1> QED BY <1>5, <1>6, FrameTokens DEF UsersStand

LEMMA UserTokens ==
  ASSUME AdminShape, AdminShape', TokenInv, NEW i \in Requests, UpdateUser(i) \/ Override(i) \/ Unoverride(i)
  PROVE  TokenInv'
  <1> DEFINE c == serving[i]   d == serving'[i]
  <1>1. role \in [Users -> Roles \cup {Absent}] /\ AdminRequest(Req(i))
    BY Called DEF AdminShape
  <1>2. Req(i).u \in Users /\ Req(i).r \in Roles /\ Req(i).r # Absent
    BY <1>1, AbsentAssumption DEF AdminRequest
  <1>3. CASE UpdateUser(i)
    <2>1. Touched(i, {"prog", "ok"}) /\ At(i, "updateUser") /\ d.prog = IF role[Req(i).u] = Absent THEN <<>> ELSE Tail(c.prog)
      BY <1>3, UpdateUserDoes DEF UpdateUser
    <2>2. UNCHANGED <<held, override, open, usable, torn, odd>>
      BY <1>3 DEF UpdateUser, Else, seats
    <2>3. CASE role[Req(i).u] = Absent
      <3>1. Calm
        BY <1>3, <2>2, <2>3, OwnHeldSame DEF UpdateUser, Calm
      <3>2. Req(i).op \in ByUser /\ Head(c.prog) = "updateUser"
        BY <2>1, ByUserMoves
      <3>3. ~At(i, "block") /\ ~At(i, "block")' /\ ~At(i, "close")' /\ \A u \in Users : ~Owes(i, u)
        BY <2>1, <2>3, <3>2 DEF At, Owes, ByUser
      <3> QED BY <2>1, <3>1, <3>2, <3>3, CalmStep DEF ByUser
    <2>4. CASE role[Req(i).u] # Absent
      <3>1. role' = [role EXCEPT ![Req(i).u] = Req(i).r]
        BY <1>3, <2>4 DEF UpdateUser
      <3>2. /\ role'[Req(i).u] # Absent
            /\ \A u \in Users : u # Req(i).u => role'[u] = role[u]
        BY <1>1, <1>2, <3>1
      <3> QED BY <2>1, <2>2, <2>4, <3>2, ByUserTokens
    <2> QED BY <2>3, <2>4
  <1>4. CASE Override(i)
    <2>1. Touched(i, {"prog"}) /\ At(i, "override") /\ d.prog = Tail(c.prog)
      BY <1>4, OverrideDoes DEF Override
    <2>2. UNCHANGED <<held, role, open, usable, torn, odd>>
      BY <1>4 DEF Override, Else, seats
    <2>3. \A x : x[1] # Req(i).u => (x \in override' <=> x \in override)
      BY <1>4 DEF Override
    <2> QED BY <2>1, <2>2, <2>3, ByUserTokens
  <1>5. CASE Unoverride(i)
    <2>1. Touched(i, {"prog"}) /\ At(i, "unoverride") /\ d.prog = Tail(c.prog)
      BY <1>5, UnoverrideDoes DEF Unoverride
    <2>2. UNCHANGED <<held, role, open, usable, torn, odd>>
      BY <1>5 DEF Unoverride, Else, seats
    <2>3. \A x : x[1] # Req(i).u => (x \in override' <=> x \in override)
      BY <1>5 DEF Unoverride
    <2> QED BY <2>1, <2>2, <2>3, ByUserTokens
  <1> QED BY <1>3, <1>4, <1>5

LEMMA ComesAndGoes ==
  ASSUME AdminShape, AdminShape', TokenInv, NEW i \in Requests, InsertUser(i) \/ DeleteUser(i)
  PROVE  TokenInv'
  <1> DEFINE c == serving[i]   d == serving'[i]
  <1>1. role \in [Users -> Roles \cup {Absent}] /\ AdminRequest(Req(i))
    BY Called DEF AdminShape
  <1>2. PICK s \in {"insertUser", "deleteUser"} : At(i, s)
    BY DEF InsertUser, DeleteUser
  <1>3. /\ s = "insertUser" => Req(i).op = "userCreate"
        /\ s = "deleteUser" => Req(i).op = "userDelete"
        /\ AtPoint(Req(i).op, c.prog) /\ Head(c.prog) = s /\ c.prog # <<>>
    BY <1>2, CalledAt DEF Owner
  <1>4. Touched(i, {"prog"}) /\ d.prog = Tail(c.prog)
    BY InsertUserDoes, DeleteUserDoes
  <1>5. d.prog = <<>>
    BY <1>2, <1>3, <1>4, UserCreateMoves, UserDeleteMoves DEF AtPoint
  <1>6. ~At(i, "block") /\ ~At(i, "block")' /\ ~At(i, "close")' /\ \A u \in Users : ~Owes(i, u)
    BY <1>2, <1>3, <1>5 DEF At, Owes, ByUser
  <1>7. Req(i).op # "login" /\ Req(i).u \in Users
    BY <1>1, <1>2, <1>3 DEF AdminRequest
  <1>8. UNCHANGED <<usable, odd, held, override>> /\ open' \subseteq open /\ torn \subseteq torn'
    BY DEF InsertUser, DeleteUser, Else, seats
  <1>9. \A k \in usable : <<k.id, k.user>> \in open => <<k.id, k.user>> \in open' \/ k.id \in torn'
    BY DEF InsertUser, DeleteUser, Else, seats
  <1>10. TokenFrame(i, {"prog"})
    BY <1>4, <1>6, <1>7, <1>8, <1>9 DEF TokenFrame
  <1>11. ASSUME NEW u \in Users, role[u] # Absent PROVE UserStands(i, u) \/ UserGone(u)
    <2>1. CASE role'[u] = role[u]
      BY <1>6, <1>8, <2>1, RightsStand DEF UserStands
    <2>2. CASE role'[u] # role[u]
      <3>1. u = Req(i).u /\ DeleteUser(i)
        BY <1>1, <1>7, <1>11, <2>2 DEF InsertUser, DeleteUser
      <3> QED BY <3>1 DEF DeleteUser, UserGone
    <2> QED BY <2>1, <2>2
  <1> QED BY <1>10, <1>11, FrameTokens DEF UsersStand

(* Statements on a role's permissions: whoever else has another role.         *)
LEMMA OtherRoles ==
  ASSUME held \subseteq Roles \X Right, held' \subseteq Roles \X Right, override' = override, NEW u, role'[u] = role[u],
         \A h : h[1] = role[u] => (h \in held' <=> h \in held)
  PROVE  Own(Now(u))' = Own(Now(u))
  <1>1. PermsOf(role[u])' = PermsOf(role[u])
    BY DEF PermsOf
  <1>2. Now(u)' = Now(u)
    BY <1>1 DEF Now, Resolve, PermsOf
  <1> QED BY <1>2 DEF Own

LEMMA OfRoleTokens ==
  ASSUME AdminShape, AdminShape', TokenInv, NEW i \in Requests,
         NEW s \in {"deletePerms", "insertPerms"}, At(i, s), Req(i).op \in {"roleCreate", "rolePatch", "roleDelete"},
         NEW F, Touched(i, F), "st" \notin F,
         UNCHANGED <<open, usable, odd, role, override>>,
         \A h : h[1] # Req(i).r => (h \in held' <=> h \in held),
         IF Req(i).op = "rolePatch"
         THEN torn' = torn /\ serving'[i].prog # <<>> /\ Head(serving'[i].prog) = "insertPerms"
         ELSE torn' = torn \cup Bearers(Req(i).r) /\ ~At(i, "block")' /\ ~At(i, "close")'
  PROVE  TokenInv'
  <1> DEFINE c == serving[i]   d == serving'[i]
  <1>1. c.st = "run" /\ Head(c.prog) = s
    BY CalledAt
  <1>2. d.st = "run" /\ Req(i)' = Req(i)
    BY <1>1 DEF Touched, Fields, Req
  <1>3. ~At(i, "block") /\ ~At(i, "block")' /\ ~At(i, "close")'
    BY <1>1 DEF At
  <1>4. TokenFrame(i, F)
    BY <1>3 DEF TokenFrame
  <1>5. ASSUME NEW u \in Users, role[u] # Absent PROVE UserStands(i, u) \/ UserGone(u)
    <2>1. CASE role[u] # Req(i).r
      <3>1. Own(Now(u))' = Own(Now(u))
        BY <2>1, OtherRoles DEF AdminShape
      <3>2. ~Owes(i, u)
        BY <1>1, <2>1 DEF Owes, ByUser
      <3> QED BY <3>1, <3>2 DEF UserStands
    <2>2. CASE role[u] = Req(i).r /\ Req(i).op = "rolePatch"
      <3>1. Owes(i, u)'
        BY <1>2, <2>2 DEF Owes, InFlight
      <3> QED BY <3>1 DEF UserStands
    <2>3. CASE role[u] = Req(i).r /\ Req(i).op # "rolePatch"
      BY <2>3 DEF UserGone, Bearers
    <2> QED BY <2>1, <2>2, <2>3
  <1> QED BY <1>4, <1>5, FrameTokens DEF UsersStand

LEMMA DeletePermsTokens ==
  ASSUME AdminShape, AdminShape', TokenInv, NEW i \in Requests, DeletePerms(i)
  PROVE  TokenInv'
  <1> DEFINE c == serving[i]   d == serving'[i]
  <1>1. Touched(i, {"prog"}) /\ d.prog = Tail(c.prog) /\ At(i, "deletePerms")
    BY DeletePermsDoes DEF DeletePerms
  <1>2. Req(i).op \in {"rolePatch", "roleDelete"} /\ AtPoint(Req(i).op, c.prog) /\ Head(c.prog) = "deletePerms" /\ c.prog # <<>>
    BY <1>1, CalledAt DEF Owner
  <1>3. Req(i).op = "rolePatch" => d.prog # <<>> /\ Head(d.prog) = "insertPerms"
    <2>1. LET p == <<"insertPerms", "syncRead", "usersOf", "sessionsOf", "block", "close">>
          IN p # <<>> /\ Head(p) = "insertPerms"
      OBVIOUS
    <2> QED BY <1>1, <1>2, <2>1, RolePatchMoves DEF AtPoint
  <1>4. ~At(i, "block")' /\ ~At(i, "close")'
    BY <1>1, <1>2, ReadsNothing
  <1>5. /\ UNCHANGED <<open, usable, odd, role, override>>
        /\ \A h : h[1] # Req(i).r => (h \in held' <=> h \in held)
        /\ torn' = IF Req(i).op = "rolePatch" THEN torn ELSE torn \cup Bearers(Req(i).r)
    BY DEF DeletePerms, seats
  <1> QED BY <1>1, <1>2, <1>3, <1>4, <1>5, OfRoleTokens

LEMMA InsertPermsTokens ==
  ASSUME AdminShape, AdminShape', TokenInv, NEW i \in Requests, InsertPerms(i)
  PROVE  TokenInv'
  <1> DEFINE c == serving[i]   d == serving'[i]
  <1>1. At(i, "insertPerms") /\ UNCHANGED <<open, usable, role, override>>
    BY DEF InsertPerms, seats
  <1>2. Req(i).op \in {"roleCreate", "rolePatch"} /\ AtPoint(Req(i).op, c.prog) /\ Head(c.prog) = "insertPerms" /\ c.prog # <<>> /\ c.st = "run"
    BY <1>1, CalledAt DEF Owner
  <1>3. ~At(i, "block") /\ Req(i).op # "login"
    BY <1>2 DEF At
  <1>4. CASE /\ Touched(i, {"prog", "todo"}) /\ d.prog = Tail(c.prog) /\ UNCHANGED <<held, odd, torn>>
    <2>1. Calm
      BY <1>1, <1>4, OwnHeldSame DEF Calm
    <2>2. ~At(i, "block")' /\ ~At(i, "close")'
      BY <1>1, <1>2, <1>4, ReadsNothing
    <2>3. d.st = "run" /\ Req(i)' = Req(i)
      BY <1>2, <1>4 DEF Touched, Fields, Req
    <2>4. Req(i).op = "rolePatch" => d.prog # <<>> /\ Head(d.prog) = "syncRead"
      <3>1. LET p == <<"syncRead", "usersOf", "sessionsOf", "block", "close">>
            IN p # <<>> /\ Head(p) = "syncRead"
        OBVIOUS
      <3> QED BY <1>2, <1>4, <3>1, RolePatchMoves DEF AtPoint
    <2>5. \A u \in Users : Owes(i, u) => Owes(i, u)'
      BY <1>1, <1>2, <2>3, <2>4 DEF Owes, InFlight, ByUser
    <2> QED BY <1>3, <1>4, <2>1, <2>2, <2>5, CalmStep
  <1>5. CASE Touched(i, {"prog", "ok"}) /\ d.prog = <<>> /\ "failed" \in odd' /\ UNCHANGED <<held, torn>>
    <2>1. ~At(i, "block")' /\ ~At(i, "close")'
      BY <1>5 DEF At
    <2>2. TokenFrame(i, {"prog", "ok"})
      BY <1>1, <1>3, <1>5, <2>1 DEF TokenFrame
    <2>3. RowsKept'
      BY <1>1, <1>5 DEF TokenInv, RowsKept
    <2> QED BY <1>5, <2>2, <2>3, FrameIds DEF TokenInv
  <1>6. CASE \E p \in c.todo :
              /\ Touched(i, {"todo"}) /\ d.todo = c.todo \ {p}
              /\ held' = held \cup {<<Req(i).r, p>>} /\ odd' = odd
              /\ torn' = IF Req(i).op = "rolePatch" THEN torn ELSE torn \cup Bearers(Req(i).r)
    <2>1. PICK p \in c.todo :
              /\ Touched(i, {"todo"})
              /\ held' = held \cup {<<Req(i).r, p>>} /\ odd' = odd
              /\ torn' = IF Req(i).op = "rolePatch" THEN torn ELSE torn \cup Bearers(Req(i).r)
      BY <1>6
    <2>2. d.prog = c.prog
      BY <2>1 DEF Touched, Fields
    <2>3. ~At(i, "block")' /\ ~At(i, "close")'
      BY <1>2, <2>2 DEF At
    <2>4. \A h : h[1] # Req(i).r => (h \in held' <=> h \in held)
      BY <2>1
    <2> QED BY <1>1, <1>2, <2>1, <2>2, <2>3, <2>4, OfRoleTokens
  <1> QED BY <1>4, <1>5, <1>6, InsertPermsDoes

(* A revocation. *)
LEMMA BlockTokens ==
  ASSUME AdminShape, AdminShape', TokenInv, NEW i \in Requests, Block(i)
  PROVE  TokenInv'
  <1> DEFINE c == serving[i]   d == serving'[i]
  <1>1. Touched(i, {"prog"}) /\ d.prog = Tail(c.prog) /\ At(i, "block")
    BY BlockDoes DEF Block
  <1>2. Head(c.prog) = "block" /\ c.prog # <<>> /\ Req(i).op \notin {"login", "topicPatch"} /\ Req(i).op \in Ops /\ AtPoint(Req(i).op, c.prog)
    BY <1>1, CalledAt, Called DEF Owner
  <1>3. ~At(i, "block")'
    BY <1>1, <1>2, BlocksInOrder DEF At
  <1>4. d.had = c.had
    BY <1>1 DEF Touched, Fields
  <1>5. /\ usable' = {k \in usable : k.id \notin c.had}
        /\ UNCHANGED <<open, torn, odd, held, role, override>>
    BY DEF Block, db
  <1>6. TokenFrame(i, {"prog"})
    BY <1>1, <1>2, <1>3, <1>4, <1>5 DEF TokenFrame
  <1>7. \A u \in Users : UserStands(i, u)
    BY <1>2, <1>5, RightsStand DEF UserStands, Owes
  <1> QED BY <1>6, <1>7, FrameTokens DEF UsersStand

LEMMA CloseTokens ==
  ASSUME AdminShape, AdminShape', TokenInv, NEW i \in Requests, Close(i)
  PROVE  TokenInv'
  <1> DEFINE c == serving[i]   d == serving'[i]
  <1>1. Touched(i, {"prog"}) /\ d.prog = Tail(c.prog) /\ At(i, "close")
    BY CloseDoes DEF Close
  <1>2. Head(c.prog) = "close" /\ c.prog # <<>> /\ Req(i).op \notin {"login", "topicPatch"} /\ Req(i).op \in Ops /\ AtPoint(Req(i).op, c.prog)
    BY <1>1, CalledAt, Called DEF Owner
  <1>3. ~At(i, "block") /\ ~At(i, "block")' /\ ~At(i, "close")'
    BY <1>1, <1>2, BlocksInOrder DEF At
  <1>4. /\ open' = {o \in open : o[2] \notin Targets(i)}
        /\ torn' = torn \cup {k.id : k \in {x \in usable : x.user \in Targets(i) /\ x.id \notin c.had}}
        /\ UNCHANGED <<usable, odd, held, role, override>>
    BY DEF Close, db
  <1>5. \A k \in usable : k.id \notin c.had
    BY <1>1 DEF TokenInv, BlockedFirst
  <1>6. \A k \in usable : <<k.id, k.user>> \in open => <<k.id, k.user>> \in open' \/ k.id \in torn'
    BY <1>4, <1>5
  <1>7. TokenFrame(i, {"prog"})
    BY <1>1, <1>2, <1>3, <1>4, <1>6 DEF TokenFrame
  <1>8. \A u \in Users : UserStands(i, u)
    BY <1>2, <1>4, RightsStand DEF UserStands, Owes
  <1> QED BY <1>7, <1>8, FrameTokens DEF UsersStand

LEMMA SessionsOfTokens ==
  ASSUME AdminShape, AdminShape', TokenInv, NEW i \in Requests, SessionsOf(i)
  PROVE  TokenInv'
  <1> DEFINE c == serving[i]   d == serving'[i]
  <1>1. /\ Touched(i, {"prog", "had"}) /\ d.prog = Tail(c.prog) /\ At(i, "sessionsOf")
        /\ d.had = {o[1] : o \in {x \in open : x[2] \in Targets(i)}}
    BY SessionsOfDoes DEF SessionsOf
  <1>2. /\ Head(c.prog) = "sessionsOf" /\ c.prog # <<>> /\ c.st = "run"
        /\ Req(i).op \in {"rolePatch", "roleDelete", "userPatch", "userDelete", "overridePut", "overrideDelete"}
        /\ AtPoint(Req(i).op, c.prog)
    BY <1>1, CalledAt DEF Owner
  <1>3. d.st = "run" /\ Req(i)' = Req(i) /\ Requests' = Requests
    BY <1>1, <1>2 DEF Touched, Fields, Req, Requests
  <1>4. d.prog # <<>> /\ Head(d.prog) = "block"
    <2>1. LET p == <<"block", "close">> IN p # <<>> /\ Head(p) = "block"
      OBVIOUS
    <2>2. LET p == <<"block", "close", "deletePerms", "deleteRole">> IN p # <<>> /\ Head(p) = "block"
      OBVIOUS
    <2>3. LET p == <<"block", "close", "deleteUser">> IN p # <<>> /\ Head(p) = "block"
      OBVIOUS
    <2>4. PICK l, p : l = c.prog /\ p = Tail(l)
      OBVIOUS
    <2>5. l # <<>> /\ Head(l) = "sessionsOf" /\ AtPoint(Req(i).op, l)
      BY <1>2, <2>4
    <2>6. p \in {<<"block", "close">>, <<"block", "close", "deletePerms", "deleteRole">>, <<"block", "close", "deleteUser">>}
      <3>1. CASE Req(i).op = "rolePatch"
        BY <2>4, <2>5, <3>1, RolePatchMoves DEF AtPoint
      <3>2. CASE Req(i).op = "roleDelete"
        BY <2>4, <2>5, <3>2, RoleDeleteMoves DEF AtPoint
      <3>3. CASE Req(i).op = "userPatch"
        BY <2>4, <2>5, <3>3, UserPatchMoves DEF AtPoint
      <3>4. CASE Req(i).op = "userDelete"
        BY <2>4, <2>5, <3>4, UserDeleteMoves DEF AtPoint
      <3>5. CASE Req(i).op = "overridePut"
        BY <2>4, <2>5, <3>5, OverridePutMoves DEF AtPoint
      <3>6. CASE Req(i).op = "overrideDelete"
        BY <2>4, <2>5, <3>6, OverrideDeleteMoves DEF AtPoint
      <3> QED BY <1>2, <3>1, <3>2, <3>3, <3>4, <3>5, <3>6
    <2> QED BY <1>1, <2>1, <2>2, <2>3, <2>4, <2>6
  <1>5. At(i, "block")' /\ ~At(i, "close")'
    BY <1>3, <1>4 DEF At, InFlight
  <1>6. /\ torn' = torn \cup {j \in Minting : Req(j).u \in Targets(i)}
        /\ UNCHANGED <<usable, open, odd, held, role, override>>
    BY DEF SessionsOf, db, seats
  <1>7. RowsKept'
    BY <1>6 DEF TokenInv, RowsKept
  <1>8. FreshIds'
    <2> SUFFICES ASSUME NEW j \in Requests, Unborn(j)'
                 PROVE  /\ \A k \in usable : k.id # j
                        /\ \A o \in open : o[1] # j
                        /\ \A m \in Requests : Reads(m)' => j \notin serving'[m].had
      BY <1>3, <1>6 DEF FreshIds
    <2>1. j # i
      BY <1>2, <1>3 DEF Unborn
    <2>2. Unborn(j)
      BY <1>1, <2>1, OthersAt
    <2>3. \A m \in Requests \ {i} : Reads(m)' => j \notin serving'[m].had
      BY <1>1, <2>2, OthersAt DEF TokenInv, FreshIds
    <2> QED BY <1>1, <2>2, <2>3 DEF TokenInv, FreshIds
  <1>9. BlockedFirst'
    BY <1>1, <1>3, <1>5, <1>6, OthersAt DEF TokenInv, BlockedFirst
  <1>10. ASSUME NEW u \in Users
         PROVE  /\ (Own(Now(u)))' = Own(Now(u))
                /\ Owed(u) => Owed(u)' \/ (Owes(i, u) /\ u \in Targets(i))
    <2>1. Owes(i, u) => u \in Targets(i)
      BY <1>2 DEF Owes, Targets, ByUser
    <2>2. \A j \in Requests \ {i} : Owes(j, u) => Owes(j, u)'
      BY <1>1, <1>6, OthersAt
    <2> QED BY <1>3, <1>6, <2>1, <2>2, RightsStand DEF Owed
  <1>11. ASSUME Covered PROVE Covered'
    <2> SUFFICES ASSUME NEW k \in usable, k.id \notin torn'
                 PROVE  (Own(k.perms) = Own(Now(k.user)))' \/ Owed(k.user)' \/ Caught(k)'
      BY <1>6 DEF Covered
    <2>1. k.id \notin torn /\ k.user \in Users /\ <<k.id, k.user>> \in open
      BY <1>6 DEF TokenInv, RowsKept
    <2>2. PICK u : u = k.user
      OBVIOUS
    <2>3. CASE Own(k.perms) = Own(Now(u))
      <3>1. Own(k.perms)' = Own(k.perms)
        BY DEF Own
      <3> QED BY <1>10, <2>1, <2>2, <2>3, <3>1
    <2>4. CASE Owed(u)
      <3>1. CASE u \in Targets(i)
        <4>1. k.id \in d.had
          BY <1>1, <2>1, <2>2, <3>1
        <4> QED BY <1>3, <1>5, <4>1 DEF Caught
      <3>2. CASE u \notin Targets(i)
        BY <1>10, <2>1, <2>2, <2>4, <3>2
      <3> QED BY <3>1, <3>2
    <2>5. CASE Caught(k)
      <3>1. PICK j \in Requests : At(j, "block") /\ k.id \in serving[j].had
        BY <2>5 DEF Caught
      <3>2. j # i
        BY <1>2, <3>1 DEF At
      <3> QED BY <1>1, <1>3, <3>1, <3>2, OthersAt DEF Caught
    <2> QED BY <1>11, <2>1, <2>2, <2>3, <2>4, <2>5 DEF Covered
  <1>12. ASSUME MintsCovered PROVE MintsCovered'
    <2> SUFFICES ASSUME NEW j \in Requests, NEW u \in Users, Req(j).op = "login", Req(j).u = u,
                        serving'[j].st = "run", j \notin torn', serving'[j].prog # <<>>,
                        Head(serving'[j].prog) \in {"permissions", "session"}
                 PROVE  /\ Head(serving'[j].prog) = "permissions" =>
                             role'[u] # Absent /\ (serving'[j].at = role'[u] \/ Owed(u)')
                        /\ Head(serving'[j].prog) = "session" =>
                             role'[u] # Absent /\ ((Own(serving[j].perms) = Own(Now(u)))' \/ Owed(u)')
      BY <1>1, <1>3 DEF MintsCovered, InFlight, Req, Touched
    <2>1. j # i
      BY <1>2
    <2>2. serving'[j] = serving[j] /\ InFlight(j) /\ j \notin torn
      BY <1>1, <1>6, <2>1 DEF Touched, InFlight
    <2>3. j \in Minting
      <3>1. Program(Req(j)) = <<"profile", "permissions", "session">> /\ Head(<<"profile", "permissions", "session">>) = "profile"
        BY Programs
      <3> QED BY <2>2, <3>1 DEF Minting
    <2>4. u \notin Targets(i)
      BY <1>6, <2>3
    <2>5. Own(serving[j].perms)' = Own(serving[j].perms)
      BY <2>2 DEF Own
    <2> QED BY <1>6, <1>10, <1>12, <2>2, <2>4, <2>5 DEF MintsCovered
  <1> QED BY <1>6, <1>7, <1>8, <1>9, <1>11, <1>12 DEF TokenInv

(* A sign-in. *)
LEMMA MintsOn ==
  ASSUME AdminShape, TokenInv, NEW i \in Requests, NEW F, Touched(i, F), "st" \notin F, NEW s, At(i, s), Req(i).op = "login",
         UNCHANGED <<db, torn, odd>>, usable \subseteq usable', open \subseteq open',
         serving'[i].prog \in {<<>>, Tail(serving[i].prog)}
  PROVE  /\ Unborn(i) /\ Requests' = Requests
         /\ \A j \in Requests : (At(j, "block")' <=> At(j, "block")) /\ (At(j, "close")' <=> At(j, "close"))
                             /\ (Reads(j)' <=> Reads(j)) /\ (Reads(j) => serving'[j].had = serving[j].had)
                             /\ (Unborn(j)' => Unborn(j))
         /\ \A u \in Users : Own(Now(u))' = Own(Now(u)) /\ (Owed(u) => Owed(u)')
         /\ \A k : Caught(k) => Caught(k)'
  <1> DEFINE c == serving[i]   d == serving'[i]
  <1>1. c.prog # <<>> /\ c.st = "run" /\ AtPoint("login", c.prog) /\ Head(c.prog) = s
    BY CalledAt
  <1>2. Unborn(i) /\ Requests' = Requests
    BY <1>1 DEF Unborn, Requests, Touched
  <1>3. s \in {"profile", "permissions", "session"}
    BY <1>1, LoginMoves DEF AtPoint
  <1>4. d.prog # <<>> => Head(d.prog) \in {"permissions", "session"}
    <2>1. Head(<<"permissions", "session">>) = "permissions" /\ Head(<<"session">>) = "session"
      OBVIOUS
    <2> QED BY <1>1, <2>1, LoginMoves DEF AtPoint
  <1>5. ~Reads(i) /\ ~Reads(i)'
    BY <1>1, <1>3, <1>4 DEF Reads, At
  <1>6. ASSUME NEW j \in Requests
        PROVE  /\ (At(j, "block")' <=> At(j, "block")) /\ (At(j, "close")' <=> At(j, "close"))
               /\ (Reads(j)' <=> Reads(j)) /\ (Reads(j) => serving'[j].had = serving[j].had)
               /\ (Unborn(j)' => Unborn(j))
    <2>1. CASE j = i
      BY <1>2, <1>5, <2>1 DEF Reads
    <2>2. CASE j # i
      BY <2>2, OthersAt
    <2> QED BY <2>1, <2>2
  <1>7. ASSUME NEW u \in Users PROVE Own(Now(u))' = Own(Now(u)) /\ (Owed(u) => Owed(u)')
    <2>1. held' = held /\ override' = override /\ role' = role
      BY DEF db
    <2>2. ~Owes(i, u)
      BY DEF Owes, ByUser
    <2>3. \A j \in Requests \ {i} : Owes(j, u) => Owes(j, u)'
      BY <2>1, OthersAt
    <2> QED BY <1>2, <2>1, <2>2, <2>3, RightsStand DEF Owed
  <1>8. ASSUME NEW k, Caught(k) PROVE Caught(k)'
    <2>1. PICK j \in Requests : At(j, "block") /\ k.id \in serving[j].had
      BY <1>8 DEF Caught
    <2> QED BY <1>2, <1>6, <2>1 DEF Caught, Reads
  <1> QED BY <1>2, <1>6, <1>7, <1>8

LEMMA OldTokens ==
  ASSUME AdminShape, TokenInv, NEW i \in Requests, NEW F, Touched(i, F), "st" \notin F, NEW s, At(i, s), Req(i).op = "login",
         UNCHANGED <<db, torn, odd, seats>>, serving'[i].prog \in {<<>>, Tail(serving[i].prog)}
  PROVE  RowsKept' /\ FreshIds' /\ BlockedFirst' /\ (Covered => Covered')
  <1>1. UNCHANGED <<usable, open, torn, role>>
    BY DEF seats, db
  <1>2. RowsKept'
    BY <1>1 DEF TokenInv, RowsKept
  <1>3. FreshIds' /\ BlockedFirst'
    BY <1>1, MintsOn DEF TokenInv, FreshIds, BlockedFirst, Reads
  <1>4. ASSUME Covered PROVE Covered'
    <2> SUFFICES ASSUME NEW k \in usable, k.id \notin torn
                 PROVE  (Own(k.perms) = Own(Now(k.user)))' \/ Owed(k.user)' \/ Caught(k)'
      BY <1>1 DEF Covered
    <2>1. PICK u : u = k.user
      OBVIOUS
    <2>2. u \in Users
      BY <2>1 DEF TokenInv, RowsKept
    <2>3. /\ (Own(Now(u))) ' = Own(Now(u)) /\ (Owed(u) => Owed(u)') /\ (Caught(k) => Caught(k)')
      BY <1>1, <2>2, MintsOn
    <2>4. Own(k.perms)' = Own(k.perms)
      BY DEF Own
    <2> QED BY <1>4, <2>1, <2>3, <2>4 DEF Covered
  <1> QED BY <1>2, <1>3, <1>4

LEMMA OtherMints ==
  ASSUME AdminShape, TokenInv, NEW i \in Requests, NEW F, Touched(i, F), "st" \notin F, NEW s, At(i, s), Req(i).op = "login",
         UNCHANGED <<db, torn, odd>>, usable \subseteq usable', open \subseteq open',
         serving'[i].prog \in {<<>>, Tail(serving[i].prog)}, MintsCovered,
         \A u \in Users : Req(i).u = u /\ i \notin torn /\ serving'[i].prog # <<>> =>
            /\ Head(serving'[i].prog) = "permissions" => role[u] # Absent /\ (serving'[i].at = role[u] \/ Owed(u)')
            /\ Head(serving'[i].prog) = "session" =>
                 role[u] # Absent /\ (Own(serving'[i].perms) = Own(Now(u)) \/ Owed(u)')
  PROVE  MintsCovered'
  <1>1. role' = role /\ torn' = torn /\ Requests' = Requests
    BY MintsOn DEF db
  <1> SUFFICES ASSUME NEW j \in Requests, NEW u \in Users, Req(j).op = "login", Req(j).u = u,
                      serving'[j].st = "run", j \notin torn, serving'[j].prog # <<>>
               PROVE  /\ Head(serving'[j].prog) = "permissions" =>
                           role[u] # Absent /\ (serving'[j].at = role[u] \/ Owed(u)')
                      /\ Head(serving'[j].prog) = "session" =>
                           role[u] # Absent /\ (Own(serving'[j].perms) = Own(Now(u)) \/ Owed(u)')
    <2>1. \A j \in Requests : Req(j)' = Req(j)
      BY DEF Touched, Req
    <2>2. \A u \in Users : Own(Now(u))' = Own(Now(u))
      BY MintsOn
    <2>3. \A j \in Requests : Own(serving[j].perms)' = Own(serving'[j].perms)
      BY DEF Own
    <2> QED BY <1>1, <2>1, <2>2, <2>3 DEF MintsCovered, InFlight
  <1>2. CASE j = i
    BY <1>2
  <1>3. CASE j # i
    <2>1. serving'[j] = serving[j]
      BY <1>3 DEF Touched
    <2>2. Owed(u) => Owed(u)'
      BY MintsOn
    <2> QED BY <2>1, <2>2 DEF MintsCovered, InFlight
  <1> QED BY <1>2, <1>3

LEMMA LoginAt ==
  ASSUME AdminShape, NEW i \in Requests, NEW s \in {"profile", "permissions", "session"}, At(i, s)
  PROVE  /\ Req(i).op = "login" /\ serving[i].st = "run" /\ Head(serving[i].prog) = s /\ serving[i].prog # <<>>
         /\ s = "profile" => Tail(serving[i].prog) # <<>> /\ Head(Tail(serving[i].prog)) = "permissions"
         /\ s = "permissions" => Tail(serving[i].prog) # <<>> /\ Head(Tail(serving[i].prog)) = "session"
         /\ s = "session" => Tail(serving[i].prog) = <<>>
  <1>1. /\ Req(i).op = "login" /\ serving[i].st = "run" /\ Head(serving[i].prog) = s /\ serving[i].prog # <<>>
        /\ AtPoint("login", serving[i].prog)
    BY CalledAt DEF Owner
  <1>2. LET p == <<"permissions", "session">> IN p # <<>> /\ Head(p) = "permissions"
    OBVIOUS
  <1>3. LET p == <<"session">> IN p # <<>> /\ Head(p) = "session"
    OBVIOUS
  <1> QED BY <1>1, <1>2, <1>3, LoginMoves DEF AtPoint

LEMMA ProfileTokens ==
  ASSUME AdminShape, AdminShape', TokenInv, NEW i \in Requests, Profile(i)
  PROVE  TokenInv'
  <1> DEFINE c == serving[i]   d == serving'[i]   F == {"prog", "ok", "at"}
  <1>1. /\ Touched(i, F) /\ At(i, "profile") /\ d.prog \in {<<>>, Tail(c.prog)}
        /\ d.prog # <<>> => role[Req(i).u] # Absent /\ d.at = role[Req(i).u]
    BY ProfileDoes DEF Profile
  <1>2. Req(i).op = "login" /\ Tail(c.prog) # <<>> /\ Head(Tail(c.prog)) = "permissions"
    BY <1>1, LoginAt
  <1>3. UNCHANGED <<db, torn, odd, seats>> /\ UNCHANGED <<usable, open>>
    BY DEF Profile, Else, seats
  <1> HIDE DEF F
  <1>4. RowsKept' /\ FreshIds' /\ BlockedFirst' /\ (Covered => Covered') /\ "st" \notin F
    <2>1. "st" \notin F
      BY DEF F
    <2> QED BY <1>1, <1>2, <1>3, <2>1, OldTokens
  <1>5. MintsCovered => MintsCovered'
    BY <1>1, <1>2, <1>3, <1>4, OtherMints
  <1> QED BY <1>3, <1>4, <1>5 DEF TokenInv

LEMMA PermissionsTokens ==
  ASSUME AdminShape, AdminShape', TokenInv, NEW i \in Requests, Permissions(i)
  PROVE  TokenInv'
  <1> DEFINE c == serving[i]   d == serving'[i]   F == {"prog", "perms"}
  <1>1. /\ Touched(i, F) /\ At(i, "permissions") /\ d.prog = Tail(c.prog)
        /\ d.perms = Resolve(Req(i).u, PermsOf(c.at))
    BY PermissionsDoes DEF Permissions
  <1>2. Req(i).op = "login" /\ Tail(c.prog) # <<>> /\ Head(Tail(c.prog)) = "session" /\ c.prog # <<>> /\ Head(c.prog) = "permissions" /\ c.st = "run"
    BY <1>1, LoginAt
  <1>3. UNCHANGED <<db, torn, odd, seats>> /\ UNCHANGED <<usable, open>>
    BY DEF Permissions, Else, seats
  <1> HIDE DEF F
  <1>4. RowsKept' /\ FreshIds' /\ BlockedFirst' /\ (Covered => Covered') /\ "st" \notin F
    <2>1. "st" \notin F
      BY DEF F
    <2> QED BY <1>1, <1>2, <1>3, <2>1, OldTokens
  <1>5. ASSUME MintsCovered PROVE MintsCovered'
    <2>1. ASSUME NEW u \in Users, Req(i).u = u, i \notin torn
          PROVE  role[u] # Absent /\ (Own(d.perms) = Own(Now(u)) \/ Owed(u)')
      <3>1. role[u] # Absent /\ (c.at = role[u] \/ Owed(u))
        BY <1>2, <1>5, <2>1 DEF MintsCovered, InFlight
      <3>2. Owed(u) => Owed(u)'
        BY <1>1, <1>2, <1>3, <1>4, MintsOn
      <3>3. c.at = role[u] => d.perms = Now(u)
        BY <1>1, <2>1, <3>1 DEF Now
      <3> QED BY <3>1, <3>2, <3>3
    <2> QED BY <1>1, <1>2, <1>3, <1>4, <1>5, <2>1, OtherMints
  <1> QED BY <1>3, <1>4, <1>5 DEF TokenInv

LEMMA SessionTokens ==
  ASSUME AdminShape, AdminShape', TokenInv, NEW i \in Requests, Session(i)
  PROVE  TokenInv'
  <1> DEFINE c == serving[i]   d == serving'[i]   F == {"prog", "ok"}   u == Req(i).u
             n == [id |-> i, user |-> u, perms |-> c.perms]
  <1>1. Touched(i, F) /\ At(i, "session") /\ d.prog = IF role[u] = Absent THEN <<>> ELSE Tail(c.prog)
    BY SessionDoes DEF Session
  <1>2. /\ Req(i).op = "login" /\ Tail(c.prog) = <<>> /\ c.prog # <<>> /\ Head(c.prog) = "session" /\ c.st = "run"
        /\ d.prog = <<>>
    BY <1>1, LoginAt
  <1>3. UNCHANGED <<db, torn, odd>> /\ u \in Users
    BY Called DEF Session, AdminRequest
  <1>4. "st" \notin F
    OBVIOUS
  <1> HIDE DEF F
  <1>5. CASE role[u] = Absent
    <2>1. UNCHANGED seats /\ UNCHANGED <<usable, open>>
      BY <1>5 DEF Session, seats
    <2>2. RowsKept' /\ FreshIds' /\ BlockedFirst' /\ (Covered => Covered')
      BY <1>1, <1>2, <1>3, <1>4, <2>1, OldTokens
    <2>3. MintsCovered => MintsCovered'
      BY <1>1, <1>2, <1>3, <1>4, <2>1, OtherMints
    <2> QED BY <1>3, <2>2, <2>3 DEF TokenInv
  <1>6. CASE role[u] # Absent
    <2>1. usable' = usable \cup {n} /\ open' = open \cup {<<i, u>>} /\ role' = role
      BY <1>3, <1>6 DEF Session, db
    <2>2. n.id = i /\ n.user = u /\ n.perms = c.perms
      OBVIOUS
    <2>3. d.st = "run"
      BY <1>1, <1>2, <1>4 DEF Touched, Fields
    <2>4. /\ Unborn(i) /\ Requests' = Requests
          /\ \A j \in Requests : (At(j, "close")' <=> At(j, "close"))
                              /\ (Reads(j)' <=> Reads(j)) /\ (Reads(j) => serving'[j].had = serving[j].had)
                              /\ (Unborn(j)' => Unborn(j))
          /\ \A w \in Users : Own(Now(w))' = Own(Now(w)) /\ (Owed(w) => Owed(w)')
          /\ \A k : Caught(k) => Caught(k)'
      BY <1>1, <1>2, <1>3, <1>4, <2>1, MintsOn
    <2> HIDE DEF n
    <2>5. RowsKept'
      BY <1>3, <1>6, <2>1, <2>2 DEF TokenInv, RowsKept
    <2>6. FreshIds'
      <3>1. ~Unborn(i)'
        BY <1>2, <2>3 DEF Unborn
      <3> QED BY <2>1, <2>2, <2>4, <3>1 DEF TokenInv, FreshIds
    <2>7. BlockedFirst'
      <3>1. \A j \in Requests : At(j, "close") => Reads(j)
        BY DEF Reads
      <3>2. \A j \in Requests : Reads(j) => i \notin serving[j].had
        BY <2>4 DEF TokenInv, FreshIds
      <3> QED BY <2>1, <2>2, <2>4, <3>1, <3>2 DEF TokenInv, BlockedFirst
    <2>8. ASSUME Covered, MintsCovered PROVE Covered'
      <3> SUFFICES ASSUME NEW k \in usable', k.id \notin torn
                   PROVE  (Own(k.perms) = Own(Now(k.user)))' \/ Owed(k.user)' \/ Caught(k)'
        BY <1>3 DEF Covered
      <3>1. PICK w : w = k.user
        OBVIOUS
      <3>2. w \in Users
        BY <1>3, <2>1, <2>2, <3>1 DEF TokenInv, RowsKept
      <3>3. Own(k.perms) = Own(Now(w)) \/ Owed(w) \/ Caught(k)
        <4>1. CASE k \in usable
          BY <2>8, <3>1, <4>1 DEF Covered
        <4>2. CASE k = n
          <5>1. w = u /\ k.perms = c.perms /\ i \notin torn
            BY <2>2, <3>1, <4>2
          <5> QED BY <1>2, <1>3, <2>8, <5>1 DEF MintsCovered, InFlight
        <4> QED BY <2>1, <4>1, <4>2
      <3>4. Own(k.perms)' = Own(k.perms)
        BY DEF Own
      <3> QED BY <2>4, <3>1, <3>2, <3>3, <3>4
    <2>9. MintsCovered => MintsCovered'
      <3>1. usable \subseteq usable' /\ open \subseteq open'
        BY <2>1
      <3> QED BY <1>1, <1>2, <1>3, <1>4, <3>1, OtherMints
    <2> QED BY <1>3, <2>5, <2>6, <2>7, <2>8, <2>9 DEF TokenInv
  <1> QED BY <1>5, <1>6

LEMMA TokensInit == AdminInit => TokenInv
  <1> SUFFICES ASSUME AdminInit PROVE TokenInv
    OBVIOUS
  <1>1. /\ serving = [i \in DOMAIN work.reqs |-> Idle] /\ DOMAIN work.reqs \subseteq Nat \ Users
    BY WorkloadAssumption DEF AdminInit
  <1>2. /\ open = {<<u, u>> : u \in {x \in Users : role[x] # Absent}}
        /\ usable = {[id |-> o[1], user |-> o[2], perms |-> Now(o[2])] : o \in open}
    BY DEF AdminInit
  <1>3. \A i \in Requests : serving[i].st = "new" /\ ~InFlight(i) /\ ~Reads(i) /\ ~At(i, "close") /\ i \notin Users
    BY <1>1 DEF Requests, Idle, InFlight, Reads, At
  <1>4. \A k \in usable : k.user \in Users /\ k.id = k.user /\ role[k.user] # Absent /\ <<k.id, k.user>> \in open
                       /\ k.perms = Now(k.user)
    BY <1>2
  <1>5. RowsKept
    BY <1>2, <1>4 DEF RowsKept
  <1>6. FreshIds /\ BlockedFirst
    BY <1>2, <1>3, <1>4 DEF FreshIds, BlockedFirst
  <1>7. Covered
    BY <1>4 DEF Covered
  <1>8. MintsCovered
    BY <1>3 DEF MintsCovered
  <1> QED BY <1>5, <1>6, <1>7, <1>8 DEF TokenInv

LEMMA TokensIdle ==
  ASSUME TokenInv, UNCHANGED <<work, serving, db, seats, torn, odd>>
  PROVE  TokenInv'
  <1>1. UNCHANGED <<work, serving, role, held, override, open, usable, torn, odd>>
    BY DEF db, seats
  <1>2. Requests' = Requests /\ \A i : Req(i)' = Req(i)
    BY <1>1 DEF Requests, Req
  <1>3. \A i, s : At(i, s)' <=> At(i, s)
    BY <1>1 DEF At, InFlight
  <1>4. \A i : (Reads(i)' <=> Reads(i)) /\ (Unborn(i)' <=> Unborn(i)) /\ (InFlight(i)' <=> InFlight(i))
    BY <1>1, <1>2 DEF Reads, Unborn, At, InFlight
  <1>5. \A u : Own(Now(u))' = Own(Now(u))
    BY <1>1 DEF Own, Now, Resolve, PermsOf
  <1>6. \A i, u : Owes(i, u)' <=> Owes(i, u)
    BY <1>1 DEF Owes, InFlight, Req
  <1>7. \A u : Owed(u)' <=> Owed(u)
    BY <1>2, <1>6 DEF Owed
  <1>8. \A k : Caught(k)' <=> Caught(k)
    BY <1>1, <1>2, <1>3 DEF Caught
  <1>9. RowsKept' /\ FreshIds' /\ BlockedFirst'
    BY <1>1, <1>2, <1>3, <1>4 DEF TokenInv, RowsKept, FreshIds, BlockedFirst
  <1>10. ASSUME Covered PROVE Covered'
    BY <1>1, <1>5, <1>7, <1>8, <1>10 DEF Covered, Own
  <1>11. ASSUME MintsCovered PROVE MintsCovered'
    BY <1>1, <1>2, <1>4, <1>5, <1>7, <1>11 DEF MintsCovered, Own
  <1> QED BY <1>1, <1>9, <1>10, <1>11 DEF TokenInv

LEMMA TokensCalls ==
  ASSUME AdminShape, TokenInv, NEW i \in Requests, Steps(i)
  PROVE  TokenInv'
  <1>1. AdminShape'
    BY ShapeCalls
  <1> QED BY <1>1, EnterTokens, TablesTokens, PatchTokens, InsertPermsTokens, SaveTokens, DeletePermsTokens,
             RoleRowTokens, UsersOfTokens, SessionsOfTokens, BlockTokens, CloseTokens, ComesAndGoes,
             UserTokens, ProfileTokens, PermissionsTokens, SessionTokens, Zenon DEF Steps

LEMMA TokensNext == AdminShape /\ TokenInv /\ [AdminNext]_adminVars => TokenInv'
  <1> SUFFICES ASSUME AdminShape, TokenInv, [AdminNext]_adminVars PROVE TokenInv'
    OBVIOUS
  <1>1. CASE UNCHANGED <<work, serving, copy, db, seats, audit, torn, odd>>
    BY <1>1, TokensIdle
  <1>2. CASE \E i \in Requests : Steps(i)
    BY <1>2, TokensCalls
  <1>3. CASE UNCHANGED adminVars
    <2>1. UNCHANGED <<work, serving, db, seats, torn, odd>>
      BY <1>3 DEF adminVars, db, seats
    <2> QED BY <2>1, TokensIdle
  <1> QED BY <1>1, <1>2, <1>3, NextCalls

LEMMA TokensSuffice == TokenInv => TokensCurrent
  <1> SUFFICES ASSUME TokenInv, Quiet, "failed" \notin odd, NEW k \in usable, k.id \notin torn
               PROVE  Own(k.perms) = Own(Now(k.user))
    BY DEF TokensCurrent
  <1>1. \A i \in Requests : ~InFlight(i)
    BY DEF Quiet, InFlight
  <1>2. ~Owed(k.user) /\ ~Caught(k)
    BY <1>1 DEF Owed, Owes, Caught, At
  <1> QED BY <1>2 DEF TokenInv, Covered

(* TokensCurrent: a token that works when no administrator's request is       *)
(* under way carries its user's rights, but for the tokens no revocation      *)
(* can find (revokeUserJtis, revokeJtisForRole).                              *)
THEOREM TokensStayCurrent == AdminSpec => []TokensCurrent
  <1>1. AdminInit => AdminShape /\ TokenInv
    BY ShapeInit, TokensInit
  <1>2. AdminShape /\ TokenInv /\ [AdminNext]_adminVars => (AdminShape /\ TokenInv)'
    BY ShapeNext, TokensNext
  <1>3. AdminShape /\ TokenInv => TokensCurrent
    BY TokensSuffice
  <1> QED BY <1>1, <1>2, <1>3, PTL DEF AdminSpec

(***************************************************************************)
(* Permissions and lists                                                   *)
(***************************************************************************)
(* A request that changes the tables and is not answered yet.                 *)
Busy(i) == InFlight(i) /\ Changes(i)
Serial == "lapped" \in odd \/ \A i, j \in Requests : Busy(i) /\ Busy(j) => i = j
OneSlug == \A t, o \in Topics : topic[t] # Absent /\ topic[o] # Absent /\ topic[t].slug = topic[o].slug => t = o
Listed(h, t) == topic[t] # Absent /\ topic[t].slug = h[2][1] /\ h[2][2] \in Acts /\ h[1] \in topic[t][h[2][2]]
(* Each row over a topic is of a list, of one of the topics in set; each entry *)
(* of a list has its row.                                                     *)
Sound(H, set) == \A h \in H : h[2][1] # Absent => \E t \in set : Listed(h, t)
Complete(H, set, R) ==
  \A t \in set, a \in Acts, r \in R :
    topic[t] # Absent /\ r \in topic[t][a] => <<r, <<topic[t].slug, a>>>> \in H
Follow == Sound(held, Topics) /\ Complete(held, Topics, roles)
Others(t) == Topics \ {t}
OthersFollow(H, t) == Sound(H, Others(t)) /\ Complete(held, Others(t), roles)
Before(c, steps) == c.prog # <<>> /\ Head(c.prog) \in steps
(* A topic's PATCH: nothing done yet; the old slug's rows dropped; only the    *)
(* rows of the new slug and its lists left apart; the rows gone.              *)
NewSlug(c) == IF Asks(c.body, "slug") THEN c.body.slug ELSE c.row.slug
Early(t, c) == Follow /\ topic[t] # Absent /\ topic[t].slug = c.row.slug
Moved(t, c) ==
  /\ topic[t] # Absent /\ topic[t].slug = c.row.slug /\ OthersFollow(held, t)
  /\ \A h \in c.had : h[2] \in TopicPerms(c.row.slug) /\ h[1] \in topic[t][h[2][2]]
  /\ \A a \in Acts, r \in roles : r \in topic[t][a] => <<r, <<c.row.slug, a>>>> \in c.had
Ready(t, c) ==
  /\ topic[t] # Absent /\ topic[t].slug = c.row.slug /\ Complete(held, Others(t), roles)
  /\ Sound({h \in held : h[2] \notin TopicPerms(NewSlug(c)) \/ h[1] \notin topic[t][h[2][2]]}, Others(t))
  /\ \A a \in Acts, r \in roles : r \in topic[t][a] => <<r, <<NewSlug(c), a>>>> \in held
Returned(t, c) == topic[t] # Absent /\ topic[t].slug = c.row.slug /\ \A a \in Acts : topic[t][a] = c.row[a]
MidPatch(q, c) ==
  /\ c.prog = <<>> \/ Before(c, {"existing"}) => Follow
  /\ Before(c, {"clearHome", "wipe", "oldSlug", "dropOld"}) => Early(q.t, c)
  /\ Before(c, {"dropOld"}) => c.had = {h \in held : h[2] \in TopicPerms(c.row.slug)}
  /\ Before(c, {"renamePerms"}) => Moved(q.t, c)
  /\ Before(c, {"updateTopic"}) => Ready(q.t, c)
  /\ Before(c, {"dropNew"}) => Returned(q.t, c) /\ OthersFollow({h \in held : h[2] \notin TopicPerms(c.row.slug)}, q.t)
  /\ Before(c, {"syncPerms"}) => Returned(q.t, c) /\ OthersFollow(held, q.t)
MidDelete(q, c) ==
  /\ Before(c, {"dropTopic"}) => OthersFollow(held, q.t)
  /\ ~Before(c, {"dropTopic"}) => Follow
  /\ Before(c, {"dropPerms"}) => c.row = topic[q.t]
MidBulk(c) ==
  /\ Follow
  /\ Before(c, {"dropAll"}) =>
       (\A t \in c.ids : topic[t] # Absent) /\ c.todo = {topic[t].slug : t \in c.ids}
MidCreate(c) == Follow /\ (Before(c, {"insertPerms"}) => \A p \in c.todo : p[1] = Absent)
MidDrop(q, c) ==
  /\ Sound(held, Topics) /\ Complete(held, Topics, roles \ {q.r})
  /\ ~Before(c, {"deleteRole"}) => Follow

(* A role's save: the role's permissions are P, the lists follow but in D.    *)
Synced(r, P, D) ==
  /\ \A p \in D : p[2] \in Parsed
  /\ \A p \in P \ D : p[1] # Absent => \E t \in Topics : Listed(<<r, p>>, t)
  /\ \A t \in Topics, a \in Acts :
       topic[t] # Absent /\ r \in topic[t][a] /\ <<topic[t].slug, a>> \notin D => <<topic[t].slug, a>> \in P
RestFollow(r) ==
  /\ Sound({h \in held : h[1] # r}, Topics)
  /\ Complete(held, Topics, roles \ {r})
MidSave(q, c) ==
  /\ c.prog = <<>> \/ Before(c, {"oldPerms", "deletePerms", "usersOf", "sessionsOf", "block", "close"}) => Follow
  /\ Before(c, {"deletePerms"}) => c.todo = c.perms /\ Synced(q.r, c.perms, c.had)
  /\ Before(c, {"insertPerms"}) =>
       /\ RestFollow(q.r) /\ PermsOf(q.r) \cup c.todo = c.perms
       /\ Synced(q.r, c.perms, c.had)
  /\ Before(c, {"syncRead", "syncWrite"}) => RestFollow(q.r) /\ PermsOf(q.r) = c.perms
  /\ Before(c, {"syncRead"}) => Synced(q.r, c.perms, c.todo)
  /\ Before(c, {"syncWrite"}) =>
       /\ Synced(q.r, c.perms, c.todo \cup {c.at})
       /\ \E t \in Topics : topic[t] # Absent /\ topic[t].slug = c.at[1] /\ c.row = topic[t]
Partly == {"topicPatch", "topicDelete", "bulkDelete", "roleCreate", "rolePatch", "roleDelete"}
Mid(q, c) ==
  /\ q.op = "topicPatch" => MidPatch(q, c)
  /\ q.op = "topicDelete" => MidDelete(q, c)
  /\ q.op = "bulkDelete" => MidBulk(c)
  /\ q.op = "roleCreate" => MidCreate(c)
  /\ q.op = "rolePatch" => MidSave(q, c)
  /\ q.op = "roleDelete" => MidDrop(q, c)
  /\ q.op \notin Partly => Follow
Following ==
  /\ (\A i \in Requests : ~Busy(i)) => Follow
  /\ \A i \in Requests : \A q \in {Req(i)} : \A c \in {serving[i]} : Busy(i) => Mid(q, c)

(* The inductive invariant of the permissions and lists: without an overlap   *)
(* one request is at work, and the tables are as its point says.              *)
FollowInv == Serial /\ OneSlug /\ (odd = {} => Following)

LEMMA OddGrows ==
  ASSUME NEW i \in Requests, Steps(i), AdminShape
  PROVE  odd \subseteq odd'
  <1>1. CASE Enters(i) \/ Shows(i) \/ Reload(i)
    <2>1. CASE Enters(i)
      BY <2>1, EnterDoes
    <2>2. CASE Shows(i)
      BY <2>2, ShowDoes
    <2>3. CASE Reload(i)
      BY <2>3, ReloadDoes
    <2> QED BY <1>1, <2>1, <2>2, <2>3
  <1>2. CASE UpdateTopic(i) \/ InsertRole(i) \/ Clone(i) \/ OldPerms(i)
    BY <1>2 DEF UpdateTopic, InsertRole, Clone, OldPerms
  <1>3. CASE InsertPerms(i)
    BY <1>3 DEF InsertPerms
  <1>4. CASE SyncRead(i)
    BY <1>4, SyncReadDoes
  <1>5. CASE \/ Existing(i) \/ ClearHome(i) \/ Wipe(i) \/ OldSlug(i) \/ DropOld(i) \/ RenamePerms(i)
             \/ DropNew(i) \/ SyncPerms(i) \/ InsertTopic(i) \/ SlugOf(i) \/ DropPerms(i) \/ DropTopic(i)
             \/ SlugsOf(i) \/ DropAll(i) \/ Grant(i) \/ Ungrant(i) \/ Exists(i)
    BY <1>5 DEF Existing, ClearHome, Wipe, OldSlug, DropOld, RenamePerms, DropNew, SyncPerms, InsertTopic,
                SlugOf, DropPerms, DropTopic, SlugsOf, DropAll, Grant, Ungrant, Exists, Else
  <1>6. CASE \/ DeletePerms(i) \/ SyncWrite(i) \/ RoleRow(i) \/ DeleteRole(i) \/ UsersOf(i) \/ SessionsOf(i)
             \/ Block(i) \/ Close(i) \/ InsertUser(i) \/ Prior(i) \/ UpdateUser(i) \/ DeleteUser(i)
             \/ Override(i) \/ Unoverride(i) \/ Profile(i) \/ Permissions(i) \/ Session(i)
    BY <1>6 DEF DeletePerms, SyncWrite, RoleRow, DeleteRole, UsersOf, SessionsOf, Block, Close, InsertUser,
                Prior, UpdateUser, DeleteUser, Override, Unoverride, Profile, Permissions, Session, Else
  <1> QED BY <1>1, <1>2, <1>3, <1>4, <1>5, <1>6, Zenon DEF Steps

(* What is said of the tables stands as long as they do. *)
LEMMA FollowSame ==
  ASSUME Follow, UNCHANGED <<roles, held, topic>>
  PROVE  Follow'
  BY DEF Follow, Sound, Complete, Listed

LEMMA MidSame ==
  ASSUME NEW q, NEW c, Mid(q, c), UNCHANGED <<roles, held, topic>>
  PROVE  Mid(q, c)'
  <1>1. /\ \A H, S : Sound(H, S)' <=> Sound(H, S)
        /\ \A H, S, R : Complete(H, S, R)' <=> Complete(H, S, R)
    BY DEF Sound, Complete, Listed
  <1>2. Follow' <=> Follow
    BY <1>1 DEF Follow
  <1>3. \A H, t : OthersFollow(H, t)' <=> OthersFollow(H, t)
    BY <1>1 DEF OthersFollow, Others
  <1>4. MidPatch(q, c) => MidPatch(q, c)'
    <2>1. Early(q.t, c) => Early(q.t, c)'
      BY <1>2 DEF Early
    <2>2. Moved(q.t, c) => Moved(q.t, c)'
      BY <1>3 DEF Moved
    <2>3. Ready(q.t, c) => Ready(q.t, c)'
      BY <1>1 DEF Ready, Others, NewSlug
    <2>4. Returned(q.t, c) => Returned(q.t, c)'
      BY DEF Returned
    <2> QED BY <1>2, <1>3, <2>1, <2>2, <2>3, <2>4 DEF MidPatch, Before
  <1>5. MidDelete(q, c) => MidDelete(q, c)'
    BY <1>2, <1>3 DEF MidDelete, Before
  <1>6. MidBulk(c) => MidBulk(c)'
    BY <1>2 DEF MidBulk, Before
  <1>7. MidCreate(c) => MidCreate(c)'
    BY <1>2 DEF MidCreate, Before
  <1>8. MidDrop(q, c) => MidDrop(q, c)'
    BY <1>1, <1>2 DEF MidDrop, Before
  <1>9. MidSave(q, c) => MidSave(q, c)'
    <2>1. \A P, D : Synced(q.r, P, D)' <=> Synced(q.r, P, D)
      BY DEF Synced, Listed
    <2>2. RestFollow(q.r)' <=> RestFollow(q.r)
      BY <1>1 DEF RestFollow
    <2>3. PermsOf(q.r)' = PermsOf(q.r)
      BY DEF PermsOf
    <2> QED BY <1>2, <2>1, <2>2, <2>3 DEF MidSave, Before
  <1> QED BY <1>2, <1>4, <1>5, <1>6, <1>7, <1>8, <1>9 DEF Mid

(* The one request at work takes a step. *)
LEMMA FollowStep ==
  ASSUME FollowInv, NEW i \in Requests, NEW F, Touched(i, F), InFlight(i), Changes(i),
         odd \subseteq odd', OneSlug', NEW q, q = Req(i), NEW c, c = serving[i], NEW d, d = serving'[i],
         IF d.st = "run" THEN odd' = {} /\ Mid(q, c) => Mid(q, d)' ELSE UNCHANGED <<roles, held, topic>> /\ c.prog = <<>>,
         q.op \in Ops
  PROVE  FollowInv'
  <1>1. Requests' = Requests /\ \A j \in Requests : Req(j)' = Req(j)
    BY DEF Touched, Requests, Req
  <1>2. \A j \in Requests : j # i => (Busy(j)' <=> Busy(j))
    BY <1>1, OthersAt DEF Busy, Changes
  <1>3. Busy(i) /\ (Busy(i)' <=> d.st = "run")
    BY <1>1 DEF Busy, Changes, InFlight
  <1>4. Serial'
    BY <1>1, <1>2, <1>3 DEF FollowInv, Serial
  <1>5. ASSUME odd' = {} PROVE Following'
    <2>1. Following /\ \A j \in Requests : j # i => ~Busy(j)
      BY <1>3, <1>5 DEF FollowInv, Serial
    <2>2. Mid(q, c)
      BY <1>3, <2>1 DEF Following
    <2>3. CASE d.st = "run"
      <3>1. Mid(q, d)'
        BY <1>5, <2>2, <2>3
      <3> QED BY <1>1, <1>2, <1>3, <2>1, <2>3, <3>1 DEF Following
    <2>4. CASE d.st # "run"
      <3>1. Follow
        BY <2>2, <2>4 DEF Mid, MidPatch, MidDelete, MidBulk, MidCreate, MidDrop, MidSave, Before, Partly
      <3>2. Follow'
        BY <2>4, <3>1, FollowSame
      <3> QED BY <1>1, <1>2, <1>3, <2>1, <2>4, <3>2 DEF Following
    <2> QED BY <2>3, <2>4
  <1> QED BY <1>4, <1>5 DEF FollowInv

(* A step that leaves the tables and what is held of a request at work.       *)
LEMMA FollowAside ==
  ASSUME FollowInv, UNCHANGED <<roles, held, topic, odd>>, Requests' = Requests, work' = work,
         \A j \in Requests : (Busy(j)' <=> Busy(j)) /\ (Busy(j) => serving'[j] = serving[j])
  PROVE  FollowInv'
  <1>1. Serial' /\ OneSlug'
    BY DEF FollowInv, Serial, OneSlug
  <1>2. ASSUME Following PROVE Following'
    <2>1. (\A j \in Requests : ~Busy(j))' => Follow'
      BY <1>2, FollowSame DEF Following
    <2>2. ASSUME NEW j \in Requests, Busy(j), NEW q, q = Req(j), NEW c, c = serving[j] PROVE Mid(q, c)'
      BY <1>2, <2>2, MidSame DEF Following
    <2>3. \A j \in Requests : Req(j)' = Req(j)
      BY DEF Req
    <2> QED BY <2>1, <2>2, <2>3 DEF Following
  <1> QED BY <1>1, <1>2 DEF FollowInv

LEMMA SlugsSame == OneSlug /\ topic' = topic => OneSlug'
  BY DEF OneSlug

LEMMA FollowDrop ==
  ASSUME Follow, NEW q, NEW c PROVE MidDrop(q, c)
  BY DEF MidDrop, Follow, Complete

LEMMA EnterFollow ==
  ASSUME AdminShape, FollowInv, NEW i \in Requests, Enters(i)
  PROVE  FollowInv'
  <1>1. PICK q, d : q = Req(i) /\ d = serving'[i]
    OBVIOUS
  <1>2. /\ Touched(i, {"st", "prog", "body", "perms"})
        /\ serving[i].st = "new" /\ d.st = "run" /\ d.prog = Program(q)
        /\ odd' = IF Changes(i) /\ \E j \in Requests : InFlight(j) /\ Changes(j) THEN odd \cup {"lapped"} ELSE odd
        /\ UNCHANGED db
    BY <1>1, EnterDoes
  <1>3. UNCHANGED <<roles, held, topic>> /\ Requests' = Requests /\ work' = work /\ \A j \in Requests : Req(j)' = Req(j)
    BY <1>2 DEF db, Requests, Req, Touched
  <1>4. \A j \in Requests : j # i => (Busy(j)' <=> Busy(j)) /\ serving'[j] = serving[j]
    BY <1>2, <1>3, OthersAt DEF Busy, Changes, Touched
  <1>5. ~Busy(i) /\ (Busy(i)' <=> Changes(i)) /\ q.op \in Ops
    BY <1>1, <1>2, <1>3, Called DEF Busy, InFlight, Changes
  <1>6. OneSlug'
    BY <1>3, SlugsSame DEF FollowInv
  <1>7. CASE ~Changes(i)
    BY <1>2, <1>3, <1>4, <1>5, <1>7, FollowAside
  <1>8. CASE \E j \in Requests : Busy(j) /\ Changes(i)
    <2>1. "lapped" \in odd'
      BY <1>2, <1>8 DEF Busy
    <2> QED BY <1>6, <2>1 DEF FollowInv, Serial
  <1>9. CASE Changes(i) /\ \A j \in Requests : ~Busy(j)
    <2>1. odd' = odd
      BY <1>2, <1>9 DEF Busy
    <2>2. Serial'
      BY <1>3, <1>4, <1>9 DEF Serial
    <2>3. ASSUME odd = {} PROVE Following'
      <3>1. Follow'
        BY <1>3, <1>9, <2>3, FollowSame DEF FollowInv, Following
      <3>2. Mid(q, d)'
        <4>1. /\ q.op = "topicPatch" => d.prog # <<>> /\ Head(d.prog) = "existing"
              /\ q.op = "topicDelete" => d.prog # <<>> /\ Head(d.prog) = "slugOf"
              /\ q.op = "bulkDelete" => d.prog # <<>> /\ Head(d.prog) = "slugsOf"
              /\ q.op = "roleCreate" => d.prog # <<>> /\ Head(d.prog) = "exists"
              /\ q.op = "rolePatch" => d.prog # <<>> /\ Head(d.prog) = "oldPerms"
              /\ q.op = "roleDelete" => d.prog # <<>> /\ Head(d.prog) = "roleRow"
          BY <1>2, Programs
        <4>2. q.op = "topicPatch" => MidPatch(q, d)'
          BY <3>1, <4>1 DEF MidPatch, Before
        <4>3. q.op = "topicDelete" => MidDelete(q, d)'
          BY <3>1, <4>1 DEF MidDelete, Before
        <4>4. q.op = "bulkDelete" => MidBulk(d)'
          BY <3>1, <4>1 DEF MidBulk, Before
        <4>5. q.op = "roleCreate" => MidCreate(d)'
          BY <3>1, <4>1 DEF MidCreate, Before
        <4>6. q.op = "rolePatch" => MidSave(q, d)'
          BY <3>1, <4>1 DEF MidSave, Before
        <4>7. q.op = "roleDelete" => MidDrop(q, d)'
          BY <3>1 DEF MidDrop, Follow, Complete
        <4> QED BY <3>1, <4>2, <4>3, <4>4, <4>5, <4>6, <4>7 DEF Mid
      <3> QED BY <1>1, <1>3, <1>4, <1>5, <1>9, <3>1, <3>2 DEF Following
    <2> QED BY <1>6, <2>1, <2>2, <2>3 DEF FollowInv
  <1> QED BY <1>7, <1>8, <1>9

LEMMA IdleFollow ==
  ASSUME AdminShape, FollowInv, NEW i \in Requests, NEW F, Touched(i, F), ~Changes(i),
         UNCHANGED <<roles, held, topic, odd>>
  PROVE  FollowInv'
  <1>1. Requests' = Requests /\ work' = work /\ \A j \in Requests : Req(j)' = Req(j)
    BY DEF Touched, Requests, Req
  <1>2. \A j \in Requests : j # i => (Busy(j)' <=> Busy(j)) /\ serving'[j] = serving[j]
    BY <1>1, OthersAt DEF Busy, Changes, Touched
  <1>3. ~Busy(i) /\ ~Busy(i)'
    BY <1>1 DEF Busy, Changes
  <1> QED BY <1>1, <1>2, <1>3, FollowAside

LEMMA ShowFollow ==
  ASSUME AdminShape, FollowInv, NEW i \in Requests, Shows(i) \/ Reload(i)
  PROVE  FollowInv'
  <1>1. CASE Reload(i)
    <2>1. Touched(i, {"st", "prog"}) /\ ~Changes(i) /\ UNCHANGED <<roles, held, topic, odd>>
      BY <1>1, ReloadDoes DEF db, Changes
    <2> QED BY <2>1, IdleFollow
  <1>2. CASE Shows(i)
    <2>1. Touched(i, {"st"}) /\ serving'[i].st = "done" /\ Ended(i) /\ UNCHANGED <<roles, held, topic, odd>>
      BY <1>2, ShowDoes DEF db
    <2>2. CASE ~Changes(i)
      BY <2>1, <2>2, IdleFollow
    <2>3. CASE Changes(i)
      <3>1. PICK q, c, d : q = Req(i) /\ c = serving[i] /\ d = serving'[i]
        OBVIOUS
      <3>2. InFlight(i) /\ c.prog = <<>> /\ q.op \in Ops /\ d.st # "run"
        BY <2>1, <3>1, Called DEF Ended
      <3>3. OneSlug' /\ odd \subseteq odd'
        BY <2>1, SlugsSame DEF FollowInv
      <3> QED BY <2>1, <2>3, <3>1, <3>2, <3>3, FollowStep
    <2> QED BY <2>2, <2>3
  <1> QED BY <1>1, <1>2

(* A statement of a request: what was said of it is said of it still.         *)
LEMMA AtStep ==
  ASSUME AdminShape, FollowInv, NEW i \in Requests, NEW s, At(i, s), NEW F, Touched(i, F), "st" \notin F, Steps(i), Changes(i),
         OneSlug', NEW q, q = Req(i), NEW c, c = serving[i], NEW d, d = serving'[i],
         odd' = {} /\ Mid(q, c) => Mid(q, d)'
  PROVE  FollowInv'
  <1>1. InFlight(i) /\ c.st = "run" /\ q.op \in Ops
    BY CalledAt, Called
  <1>2. d.st = "run"
    BY <1>1 DEF Touched, Fields
  <1>3. odd \subseteq odd'
    BY OddGrows
  <1> QED BY <1>1, <1>2, <1>3, FollowStep

(* Operations that write neither permissions nor lists. *)
LEMMA PlainFollow ==
  ASSUME AdminShape, FollowInv, NEW i \in Requests, NEW s, At(i, s), NEW F, Touched(i, F), "st" \notin F, Steps(i),
         Req(i).op \in Ops \ Partly, UNCHANGED <<roles, held, topic, odd>>
  PROVE  FollowInv'
  <1>1. CASE ~Changes(i)
    BY <1>1, IdleFollow
  <1>2. CASE Changes(i)
    <2>1. PICK q, c, d : q = Req(i) /\ c = serving[i] /\ d = serving'[i]
      OBVIOUS
    <2>2. Mid(q, c) => Mid(q, d)'
      <3>1. Mid(q, c) => Follow'
        BY <2>1, FollowSame DEF Mid
      <3> QED BY <2>1, <3>1 DEF Mid, Partly
    <2>3. OneSlug'
      BY SlugsSame DEF FollowInv
    <2> QED BY <1>2, <2>1, <2>2, <2>3, AtStep
  <1> QED BY <1>1, <1>2

(* A revocation, and what else a role's statements leave alone. *)
LEMMA RoleFollow ==
  ASSUME AdminShape, FollowInv, NEW i \in Requests,
         NEW s \in {"roleRow", "usersOf", "sessionsOf", "block", "close"}, At(i, s),
         NEW F, Touched(i, F), "st" \notin F, Steps(i),
         Req(i).op \in {"rolePatch", "roleDelete"}, UNCHANGED <<roles, held, topic, odd>>,
         Req(i).op = "rolePatch" => serving'[i].prog = <<>> \/ Head(serving'[i].prog) \in {"sessionsOf", "block", "close"}
  PROVE  FollowInv'
  <1>1. PICK q, c, d : q = Req(i) /\ c = serving[i] /\ d = serving'[i]
    OBVIOUS
  <1>2. c.prog # <<>> /\ Head(c.prog) = s /\ (s = "roleRow" => q.op = "roleDelete")
    BY <1>1, CalledAt DEF Owner
  <1>3. Mid(q, c) => Follow'
    <2>1. Mid(q, c) => Follow
      BY <1>1, <1>2 DEF Mid, MidSave, MidDrop, Before
    <2> QED BY <2>1, FollowSame
  <1>4. Follow' => Mid(q, d)'
    <2>1. q.op = "rolePatch" /\ Follow' => MidSave(q, d)'
      BY <1>1 DEF MidSave, Before
    <2>2. Follow' => MidDrop(q, d)'
      BY DEF MidDrop, Follow, Complete
    <2> QED BY <1>1, <2>1, <2>2 DEF Mid, Partly
  <1>5. OneSlug' /\ Changes(i)
    BY SlugsSame DEF FollowInv, Changes
  <1> QED BY <1>1, <1>3, <1>4, <1>5, AtStep

LEMMA AsideSteps ==
  ASSUME AdminShape, FollowInv, NEW i \in Requests,
         \/ Grant(i) \/ Ungrant(i) \/ InsertUser(i) \/ Prior(i) \/ UpdateUser(i) \/ DeleteUser(i)
         \/ Override(i) \/ Unoverride(i) \/ Profile(i) \/ Permissions(i) \/ Session(i)
  PROVE  FollowInv'
  <1> DEFINE F == {"prog", "ok", "at", "perms"}
  <1>1. PICK s \in {"grant", "ungrant", "insertUser", "prior", "updateUser", "deleteUser", "override",
                    "unoverride", "profile", "permissions", "session"} : At(i, s)
    BY DEF Grant, Ungrant, InsertUser, Prior, UpdateUser, DeleteUser, Override, Unoverride, Profile, Permissions, Session
  <1>2. Req(i).op \in Ops \ Partly
    BY <1>1, CalledAt, Called DEF Owner, Partly
  <1>3. UNCHANGED <<roles, held, topic, odd>>
    BY DEF Grant, Ungrant, InsertUser, Prior, UpdateUser, DeleteUser, Override, Unoverride, Profile, Permissions,
           Session, Else, db
  <1>4. Touched(i, F)
    <2>1. \A G : G \subseteq F /\ Touched(i, G) => Touched(i, F)
      BY DEF Touched
    <2> QED BY <2>1, GrantDoes, UngrantDoes, InsertUserDoes, PriorDoes, UpdateUserDoes, DeleteUserDoes, OverrideDoes,
               UnoverrideDoes, ProfileDoes, PermissionsDoes, SessionDoes
  <1>5. "st" \notin F
    OBVIOUS
  <1>6. Steps(i)
    BY DEF Steps
  <1> HIDE DEF F
  <1> QED BY <1>1, <1>2, <1>3, <1>4, <1>5, <1>6, PlainFollow

LEMMA RevokeFollow ==
  ASSUME AdminShape, FollowInv, NEW i \in Requests,
         RoleRow(i) \/ UsersOf(i) \/ SessionsOf(i) \/ Block(i) \/ Close(i)
  PROVE  FollowInv'
  <1> DEFINE F == {"prog", "ok", "ids", "had"}   c == serving[i]   d == serving'[i]
  <1>1. PICK s \in {"roleRow", "usersOf", "sessionsOf", "block", "close"} : At(i, s)
    BY DEF RoleRow, UsersOf, SessionsOf, Block, Close
  <1>2. /\ Req(i).op \in Ops /\ Req(i).op # "topicPatch" /\ AtPoint(Req(i).op, c.prog) /\ c.prog # <<>> /\ Head(c.prog) = s
        /\ Req(i).op \in {"rolePatch", "roleDelete"} \/ Req(i).op \in Ops \ Partly
        /\ s = "roleRow" => Req(i).op = "roleDelete"
    BY <1>1, CalledAt, Called DEF Owner, Partly
  <1>3. UNCHANGED <<roles, held, topic, odd>>
    BY DEF RoleRow, UsersOf, SessionsOf, Block, Close, Else, db
  <1>4. Touched(i, F)
    <2>1. \A G : G \subseteq F /\ Touched(i, G) => Touched(i, F)
      BY DEF Touched
    <2>2. PICK us : us = {u \in Users : role[u] = Req(i).r}
      OBVIOUS
    <2> QED BY <2>1, <2>2, RoleRowDoes, UsersOfDoes, SessionsOfDoes, BlockDoes, CloseDoes
  <1>5. "st" \notin F
    OBVIOUS
  <1>6. Steps(i)
    BY DEF Steps
  <1> HIDE DEF F
  <1>7. Req(i).op = "rolePatch" => d.prog = <<>> \/ Head(d.prog) \in {"sessionsOf", "block", "close"}
    <2>1. CASE UsersOf(i)
      <3>1. PICK us : us = {u \in Users : role[u] = Req(i).r}
        OBVIOUS
      <3>2. Head(<<"sessionsOf", "block", "close">>) = "sessionsOf"
        OBVIOUS
      <3> QED BY <2>1, <3>1, <3>2, UsersOfMoves
    <2>2. CASE SessionsOf(i) \/ Block(i) \/ Close(i)
      <3>1. d.prog = Tail(c.prog) /\ s \in {"sessionsOf", "block", "close"}
        BY <1>1, <1>2, <2>2, SessionsOfDoes, BlockDoes, CloseDoes DEF SessionsOf, Block, Close, At
      <3>2. Head(<<"block", "close">>) = "block" /\ Head(<<"close">>) = "close"
        OBVIOUS
      <3> QED BY <1>2, <3>1, <3>2, RolePatchMoves DEF AtPoint
    <2>3. CASE RoleRow(i)
      BY <1>2, <2>3 DEF RoleRow, At
    <2> QED BY <2>1, <2>2, <2>3
  <1>8. CASE Req(i).op \in {"rolePatch", "roleDelete"}
    BY <1>1, <1>3, <1>4, <1>5, <1>6, <1>7, <1>8, RoleFollow
  <1>9. CASE Req(i).op \in Ops \ Partly
    BY <1>1, <1>3, <1>4, <1>5, <1>6, <1>9, PlainFollow
  <1> QED BY <1>2, <1>8, <1>9

(* What is listed for a topic depends on its slug and lists only. *)
LEMMA ListsSame ==
  ASSUME NEW t, (topic'[t] = Absent) <=> (topic[t] = Absent),
         topic[t] # Absent => topic'[t].slug = topic[t].slug /\ \A a \in Acts : topic'[t][a] = topic[t][a]
  PROVE  \A h : Listed(h, t)' <=> Listed(h, t)
  BY DEF Listed

LEMMA InsertTopicFollow ==
  ASSUME AdminShape, FollowInv, NEW i \in Requests, InsertTopic(i)
  PROVE  FollowInv'
  <1>1. PICK q, c, d : q = Req(i) /\ c = serving[i] /\ d = serving'[i]
    OBVIOUS
  <1>2. At(i, "insertTopic") /\ Touched(i, {"prog", "ok"}) /\ "st" \notin {"prog", "ok"} /\ Steps(i)
    BY InsertTopicDoes DEF InsertTopic, Steps
  <1>3. q.op = "topicCreate" /\ Changes(i) /\ q.op \in Ops /\ AdminRequest(q)
    BY <1>1, <1>2, CalledAt, Called DEF Owner, Changes
  <1>4. topic \in [Topics -> TopicRow \cup {Absent}] /\ q.t \in Topics /\ q.slug \in Slugs
    BY <1>3 DEF AdminShape, AdminRequest
  <1>5. UNCHANGED <<roles, held, odd>>
    BY DEF InsertTopic, Else
  <1>6. CASE topic' = topic
    <2>1. OneSlug'
      BY <1>6, SlugsSame DEF FollowInv
    <2>2. Mid(q, c) => Mid(q, d)'
      BY <1>3, <1>5, <1>6, FollowSame DEF Mid, Partly
    <2> QED BY <1>1, <1>2, <1>3, <2>1, <2>2, AtStep
  <1>7. CASE topic' # topic
    <2> DEFINE n == EmptyTopic(q.slug)
    <2>1. /\ topic' = [topic EXCEPT ![q.t] = n] /\ topic[q.t] = Absent
          /\ \A o \in Topics : topic[o] # Absent => topic[o].slug # q.slug
      BY <1>1, <1>4, <1>7, AbsentAssumption DEF InsertTopic, SlugTaken
    <2>2. n.slug = q.slug /\ \A a \in Acts : n[a] = {}
      BY DEF EmptyTopic, Acts
    <2> HIDE DEF n
    <2>3. topic'[q.t] = n /\ \A t \in Topics \ {q.t} : topic'[t] = topic[t]
      BY <1>4, <2>1
    <2>4. OneSlug'
      <3>1. OneSlug
        BY DEF FollowInv
      <3> QED BY <2>1, <2>2, <2>3, <3>1 DEF OneSlug
    <2>5. ASSUME Follow PROVE Follow'
      <3>1. \A t \in Topics : \A h : Listed(h, t) => Listed(h, t)'
        BY <2>1, <2>3 DEF Listed
      <3>2. Sound(held, Topics)'
        BY <1>5, <2>5, <3>1 DEF Follow, Sound
      <3>3. Complete(held, Topics, roles)'
        BY <1>5, <2>2, <2>3, <2>5 DEF Follow, Complete
      <3> QED BY <3>2, <3>3 DEF Follow
    <2>6. Mid(q, c) => Mid(q, d)'
      BY <1>3, <2>5 DEF Mid, Partly
    <2> QED BY <1>1, <1>2, <1>3, <2>4, <2>6, AtStep
  <1> QED BY <1>6, <1>7

LEMMA SlugOfRow ==
  ASSUME AdminShape, NEW t \in Topics, topic[t] # Absent
  PROVE  topic[t] \in TopicRow /\ topic[t].slug \in Slugs /\ topic[t].slug # Absent
  <1>1. topic[t] \in TopicRow
    BY DEF AdminShape
  <1> QED BY <1>1, RowForm, SlugsPresent

LEMMA PermOf ==
  ASSUME NEW p \in Right, NEW s
  PROVE  p \in TopicPerms(s) <=> p[1] = s /\ p[2] \in Acts
  BY DEF TopicPerms, Right

LEMMA PairOf == \A r, s, a : <<r, <<s, a>>>>[1] = r /\ <<r, <<s, a>>>>[2] = <<s, a>> /\ <<s, a>>[1] = s /\ <<s, a>>[2] = a
  OBVIOUS

LEMMA NoPermOf ==
  ASSUME NEW s, NEW o, s # o, NEW r, NEW a
  PROVE  <<r, <<o, a>>>>[2] \notin TopicPerms(s)
  BY DEF TopicPerms

(* The rows of a topic's slug dropped, the others are as their lists say.     *)
LEMMA DropOf ==
  ASSUME AdminShape, OneSlug, NEW t \in Topics, topic[t] # Absent, Sound(held, Topics), Complete(held, Topics, roles),
         NEW H, H = {h \in held : h[2] \notin TopicPerms(topic[t].slug)}
  PROVE  Sound(H, Others(t)) /\ Complete(H, Others(t), roles)
  <1>1. ASSUME NEW h \in H, h[2][1] # Absent PROVE \E o \in Others(t) : Listed(h, o)
    <2>1. h \in held /\ h[2] \in Right
      BY DEF AdminShape
    <2>2. PICK o \in Topics : Listed(h, o)
      BY <1>1, <2>1 DEF Sound
    <2>3. o # t
      BY <2>1, <2>2, PermOf DEF Listed
    <2> QED BY <2>2, <2>3 DEF Others
  <1>2. ASSUME NEW o \in Others(t), NEW a \in Acts, NEW r \in roles, topic[o] # Absent, r \in topic[o][a]
        PROVE  <<r, <<topic[o].slug, a>>>> \in H
    <2>1. <<r, <<topic[o].slug, a>>>> \in held
      BY <1>2 DEF Complete, Others
    <2>2. topic[o].slug # topic[t].slug
      BY <1>2 DEF OneSlug, Others
    <2> QED BY <2>1, <2>2, NoPermOf
  <1> QED BY <1>1, <1>2 DEF Sound, Complete

LEMMA OthersToo ==
  ASSUME NEW t, NEW H, Sound(H, Topics), Complete(H, Topics, roles), topic[t] = Absent
  PROVE  Sound(H, Others(t)) /\ Complete(H, Others(t), roles)
  BY DEF Sound, Complete, Others, Listed

LEMMA SoundSame ==
  ASSUME UNCHANGED <<roles, topic>>
  PROVE  /\ \A H, S : Sound(H, S)' <=> Sound(H, S)
         /\ \A H, S, R : Complete(H, S, R)' <=> Complete(H, S, R)
  BY DEF Sound, Complete, Listed

LEMMA DeleteFollow ==
  ASSUME AdminShape, FollowInv, NEW i \in Requests, SlugOf(i) \/ DropPerms(i) \/ DropTopic(i)
  PROVE  FollowInv'
  <1> DEFINE F == {"prog", "row"}
  <1>1. PICK q, c, d : q = Req(i) /\ c = serving[i] /\ d = serving'[i]
    OBVIOUS
  <1>2. PICK s \in {"slugOf", "dropPerms", "dropTopic"} : At(i, s)
    BY DEF SlugOf, DropPerms, DropTopic
  <1>3. Touched(i, F) /\ d.prog = Tail(c.prog) /\ Steps(i) /\ "st" \notin F
    <2>1. Touched(i, {"prog"}) => Touched(i, F)
      BY DEF Touched
    <2> QED BY <1>1, <2>1, SlugOfDoes, DropPermsDoes, DropTopicDoes DEF Steps
  <1>4. q.op = "topicDelete" /\ Changes(i) /\ AdminRequest(q) /\ AtPoint("topicDelete", c.prog) /\ c.prog # <<>> /\ Head(c.prog) = s
    BY <1>1, <1>2, CalledAt, Called DEF Owner, Changes
  <1>5. topic \in [Topics -> TopicRow \cup {Absent}] /\ q.t \in Topics
    BY <1>4 DEF AdminShape, AdminRequest
  <1>6. /\ s = "slugOf" => d.prog = <<"dropPerms", "dropTopic">>
        /\ s = "dropPerms" => d.prog = <<"dropTopic">>
        /\ s = "dropTopic" => d.prog = <<>>
    BY <1>3, <1>4, TopicDeleteMoves DEF AtPoint
  <1>7. Head(<<"dropPerms", "dropTopic">>) = "dropPerms" /\ Head(<<"dropTopic">>) = "dropTopic"
        /\ <<"dropTopic">> # <<>>
    OBVIOUS
  <1>8. OneSlug
    BY DEF FollowInv
  <1> HIDE DEF F
  <1>9. CASE SlugOf(i)
    <2>1. s = "slugOf" /\ d.row = topic[q.t] /\ UNCHANGED <<roles, held, topic>>
      BY <1>1, <1>2, <1>9, SlugOfDoes DEF SlugOf, At, Else, db
    <2>2. Mid(q, c) => Mid(q, d)'
      <3>1. Mid(q, c) => Follow'
        BY <1>4, <2>1, FollowSame DEF Mid, MidDelete, Before
      <3>2. Follow' => MidDelete(q, d)'
        BY <1>6, <1>7, <2>1 DEF MidDelete, Before
      <3> QED BY <1>4, <3>1, <3>2 DEF Mid, Partly
    <2>3. OneSlug'
      BY <1>8, <2>1, SlugsSame
    <2> QED BY <1>1, <1>2, <1>3, <1>4, <2>2, <2>3, AtStep
  <1>10. CASE DropPerms(i)
    <2>1. s = "dropPerms" /\ UNCHANGED <<roles, topic>>
          /\ held' = IF c.row = Absent THEN held ELSE {h \in held : h[2] \notin TopicPerms(c.row.slug)}
      BY <1>1, <1>2, <1>10 DEF DropPerms, At, Else
    <2>2. ASSUME Mid(q, c) PROVE Mid(q, d)'
      <3>1. Follow /\ c.row = topic[q.t]
        BY <1>4, <2>1, <2>2 DEF Mid, MidDelete, Before
      <3>2. Sound(held', Others(q.t)) /\ Complete(held', Others(q.t), roles)
        <4>1. CASE c.row = Absent
          BY <2>1, <3>1, <4>1, OthersToo DEF Follow
        <4>2. CASE c.row # Absent
          <5>1. PICK H : H = held'
            OBVIOUS
          <5>2. Sound(H, Others(q.t)) /\ Complete(H, Others(q.t), roles)
            BY <1>5, <1>8, <2>1, <3>1, <4>2, <5>1, DropOf DEF Follow
          <5> QED BY <5>1, <5>2
        <4> QED BY <4>1, <4>2
      <3>3. OthersFollow(held, q.t)'
        BY <2>1, <3>2, SoundSame DEF OthersFollow, Others
      <3>4. MidDelete(q, d)'
        BY <1>6, <1>7, <2>1, <3>3 DEF MidDelete, Before
      <3> QED BY <1>4, <3>4 DEF Mid, Partly
    <2>3. OneSlug'
      BY <1>8, <2>1, SlugsSame
    <2> QED BY <1>1, <1>2, <1>3, <1>4, <2>2, <2>3, AtStep
  <1>11. CASE DropTopic(i)
    <2>1. s = "dropTopic" /\ UNCHANGED <<roles, held>> /\ topic' = [topic EXCEPT ![q.t] = Absent]
      BY <1>1, <1>2, <1>11 DEF DropTopic, At, Else
    <2>2. topic'[q.t] = Absent /\ \A o \in Topics \ {q.t} : topic'[o] = topic[o]
      BY <1>5, <2>1
    <2>3. OneSlug'
      BY <1>8, <2>2 DEF OneSlug
    <2>4. ASSUME Mid(q, c) PROVE Mid(q, d)'
      <3>1. OthersFollow(held, q.t)
        BY <1>4, <2>1, <2>4 DEF Mid, MidDelete, Before
      <3>2. \A o \in Others(q.t) : \A h : Listed(h, o) => Listed(h, o)'
        BY <2>2 DEF Listed, Others
      <3>3. Follow'
        BY <1>5, <2>1, <2>2, <3>1, <3>2 DEF Follow, OthersFollow, Sound, Complete, Others
      <3>4. MidDelete(q, d)'
        BY <1>6, <2>1, <3>3 DEF MidDelete, Before
      <3> QED BY <1>4, <3>4 DEF Mid, Partly
    <2> QED BY <1>1, <1>2, <1>3, <1>4, <2>3, <2>4, AtStep
  <1> QED BY <1>9, <1>10, <1>11

LEMMA BulkFollow ==
  ASSUME AdminShape, FollowInv, NEW i \in Requests, SlugsOf(i) \/ DropAll(i)
  PROVE  FollowInv'
  <1> DEFINE F == {"prog", "ids", "todo"}
  <1>1. PICK q, c, d : q = Req(i) /\ c = serving[i] /\ d = serving'[i]
    OBVIOUS
  <1>2. PICK s \in {"slugsOf", "dropAll"} : At(i, s)
    BY DEF SlugsOf, DropAll
  <1>3. PICK ids : ids = {t \in q.ts : topic[t] # Absent}
    OBVIOUS
  <1>4. Touched(i, F) /\ Steps(i) /\ "st" \notin F
    <2>1. Touched(i, {"prog", "ids"}) => Touched(i, F)
      BY DEF Touched
    <2> QED BY <1>1, <1>3, <2>1, SlugsOfDoes, DropAllDoes DEF Steps
  <1>5. /\ q.op = "bulkDelete" /\ Changes(i) /\ AdminRequest(q) /\ AtPoint("bulkDelete", c.prog) /\ c.prog # <<>> /\ Head(c.prog) = s
        /\ c.ids \subseteq Topics
    BY <1>1, <1>2, CalledAt, Called DEF Owner, Changes, CallOK, BulkCall
  <1>6. topic \in [Topics -> TopicRow \cup {Absent}] /\ q.ts \subseteq Topics /\ OneSlug
    BY <1>5 DEF AdminShape, AdminRequest, FollowInv
  <1>7. Head(<<"dropAll">>) = "dropAll"
    OBVIOUS
  <1> HIDE DEF F
  <1>8. CASE SlugsOf(i)
    <2>1. /\ s = "slugsOf" /\ UNCHANGED <<roles, held, topic>>
          /\ ids = {} => d.prog = <<>>
          /\ ids # {} => d.prog = Tail(c.prog) /\ d.ids = ids /\ d.todo = {topic[t].slug : t \in ids}
      BY <1>1, <1>2, <1>3, <1>8, SlugsOfDoes, Zenon DEF SlugsOf, At, Else, db
    <2>2. ids # {} => d.prog = <<"dropAll">>
      BY <1>5, <2>1, BulkDeleteMoves DEF AtPoint
    <2>3. ASSUME Mid(q, c) PROVE Mid(q, d)'
      <3>1. Follow'
        BY <1>5, <2>1, <2>3, FollowSame DEF Mid, MidBulk
      <3>2. MidBulk(d)'
        BY <1>3, <2>1, <2>2, <3>1 DEF MidBulk, Before
      <3> QED BY <1>5, <3>2 DEF Mid, Partly
    <2>4. OneSlug'
      BY <1>6, <2>1, SlugsSame
    <2> QED BY <1>1, <1>2, <1>4, <1>5, <2>3, <2>4, AtStep
  <1>9. CASE DropAll(i)
    <2>1. /\ s = "dropAll" /\ UNCHANGED roles
          /\ held' = {h \in held : \A x \in c.todo : h[2] \notin TopicPerms(x)}
          /\ topic' = [t \in Topics |-> IF t \in c.ids THEN Absent ELSE topic[t]]
          /\ d.prog = Tail(c.prog)
      BY <1>1, <1>2, <1>9, DropAllDoes DEF DropAll, At, Else
    <2>2. /\ d.prog = <<>>
          /\ \A t \in Topics : (t \in c.ids => topic'[t] = Absent) /\ (t \notin c.ids => topic'[t] = topic[t])
      BY <1>5, <2>1, BulkDeleteMoves DEF AtPoint
    <2>3. OneSlug'
      BY <1>6, <2>2 DEF OneSlug
    <2>4. ASSUME Mid(q, c) PROVE Mid(q, d)'
      <3>1. Follow /\ (\A t \in c.ids : topic[t] # Absent) /\ c.todo = {topic[t].slug : t \in c.ids}
        BY <1>5, <2>1, <2>4 DEF Mid, MidBulk, Before
      <3>2. ASSUME NEW h \in held', h[2][1] # Absent PROVE \E o \in Topics : Listed(h, o)'
        <4>1. h \in held /\ h[2] \in Right /\ \A x \in c.todo : h[2] \notin TopicPerms(x)
          BY <2>1, <3>2 DEF AdminShape
        <4>2. PICK o \in Topics : Listed(h, o)
          BY <3>1, <3>2, <4>1 DEF Follow, Sound
        <4>3. o \notin c.ids
          BY <3>1, <4>1, <4>2, PermOf DEF Listed
        <4> QED BY <2>2, <4>2, <4>3 DEF Listed
      <3>3. ASSUME NEW o \in Topics, NEW a \in Acts, NEW r \in roles, topic'[o] # Absent, r \in topic'[o][a]
            PROVE  <<r, <<topic'[o].slug, a>>>> \in held'
        <4>1. o \notin c.ids /\ topic'[o] = topic[o]
          BY <2>2, <3>3
        <4>2. <<r, <<topic[o].slug, a>>>> \in held
          BY <3>1, <3>3, <4>1 DEF Follow, Complete
        <4>3. \A x \in c.todo : <<r, <<topic[o].slug, a>>>>[2] \notin TopicPerms(x)
          <5> SUFFICES ASSUME NEW x \in c.todo PROVE <<r, <<topic[o].slug, a>>>>[2] \notin TopicPerms(x)
            OBVIOUS
          <5>1. PICK t \in c.ids : x = topic[t].slug
            BY <3>1
          <5>2. x # topic[o].slug
            BY <1>5, <1>6, <3>1, <3>3, <4>1, <5>1 DEF OneSlug
          <5> QED BY <5>2, NoPermOf
        <4> QED BY <2>1, <4>1, <4>2, <4>3
      <3>4. Follow'
        BY <2>1, <3>2, <3>3 DEF Follow, Sound, Complete
      <3>5. MidBulk(d)'
        BY <2>2, <3>4 DEF MidBulk, Before
      <3> QED BY <1>5, <3>5 DEF Mid, Partly
    <2> QED BY <1>1, <1>2, <1>4, <1>5, <2>3, <2>4, AtStep
  <1> QED BY <1>8, <1>9

LEMMA CreateMoves ==
  ASSUME AdminShape, NEW i \in Requests, Req(i).op = "roleCreate", NEW s, At(i, s)
  PROVE  /\ s = "exists" => Head(Tail(serving[i].prog)) = "insertRole"
         /\ s = "insertRole" => Head(Tail(serving[i].prog)) = "clone"
         /\ s = "clone" => Head(Tail(serving[i].prog)) = "insertPerms"
         /\ s = "insertPerms" => Tail(serving[i].prog) = <<>>
  <1>1. AtPoint("roleCreate", serving[i].prog) /\ serving[i].prog # <<>> /\ Head(serving[i].prog) = s
    BY CalledAt
  <1>2. Head(<<"insertRole", "clone", "insertPerms">>) = "insertRole" /\ Head(<<"clone", "insertPerms">>) = "clone"
        /\ Head(<<"insertPerms">>) = "insertPerms"
    OBVIOUS
  <1> QED BY <1>1, <1>2, RoleCreateMoves DEF AtPoint

LEMMA CreateFollow ==
  ASSUME AdminShape, FollowInv, NEW i \in Requests, Exists(i) \/ InsertRole(i) \/ Clone(i)
  PROVE  FollowInv'
  <1> DEFINE F == {"prog", "ok", "perms", "todo"}
  <1>1. PICK q, c, d : q = Req(i) /\ c = serving[i] /\ d = serving'[i]
    OBVIOUS
  <1>2. PICK s \in {"exists", "insertRole", "clone"} : At(i, s)
    BY DEF Exists, InsertRole, Clone
  <1>3. Touched(i, F) /\ Steps(i) /\ "st" \notin F /\ d.prog \in {<<>>, Tail(c.prog)}
    <2>1. \A G : G \subseteq F /\ Touched(i, G) => Touched(i, F)
      BY DEF Touched
    <2> QED BY <1>1, <2>1, ExistsDoes, InsertRoleDoes, CloneDoes DEF Steps
  <1>4. q.op = "roleCreate" /\ Changes(i) /\ c.prog # <<>> /\ Head(c.prog) = s
    BY <1>1, <1>2, CalledAt DEF Owner, Changes
  <1>5. UNCHANGED <<held, topic>>
    BY DEF Exists, InsertRole, Clone, Else, db
  <1>6. OneSlug'
    BY <1>5, SlugsSame DEF FollowInv
  <1> HIDE DEF F
  <1>7. ASSUME Mid(q, c), odd' = {} PROVE Mid(q, d)'
    <2>1. Follow
      BY <1>4, <1>7 DEF Mid, MidCreate
    <2>2. Follow'
      <3>1. CASE roles' = roles
        BY <1>5, <2>1, <3>1, FollowSame
      <3>2. CASE roles' # roles
        <4>1. /\ roles' = roles \cup {q.r}
              /\ \A t \in Topics, a \in Acts : topic[t] # Absent => q.r \notin topic[t][a]
          BY <1>1, <1>7, <3>2 DEF Exists, InsertRole, Clone, Else, db
        <4>2. \A h : \A t : Listed(h, t)' <=> Listed(h, t)
          BY <1>5 DEF Listed
        <4> QED BY <1>5, <2>1, <4>1, <4>2 DEF Follow, Sound, Complete
      <3> QED BY <3>1, <3>2
    <2>3. Before(d, {"insertPerms"}) => \A p \in d.todo : p[1] = Absent
      <3> SUFFICES ASSUME Before(d, {"insertPerms"}) PROVE \A p \in d.todo : p[1] = Absent
        OBVIOUS
      <3>1. s = "clone"
        BY <1>1, <1>2, <1>3, <1>4, CreateMoves DEF Before
      <3>2. Clone(i)
        BY <1>1, <1>2, <1>4, <3>1 DEF Exists, InsertRole, Clone, At
      <3>3. PICK P : P = IF q.from = Absent THEN {} ELSE PermsOf(q.from)
        OBVIOUS
      <3>4. d.todo = P
        BY <1>1, <3>2, <3>3, CloneDoes
      <3>5. ~\E x \in P : x[1] # Absent
        BY <1>1, <1>7, <3>2, <3>3 DEF Clone
      <3> QED BY <3>4, <3>5
    <2>4. MidCreate(d)'
      BY <2>2, <2>3 DEF MidCreate, Before
    <2> QED BY <1>4, <2>4 DEF Mid, Partly
  <1> QED BY <1>1, <1>2, <1>3, <1>4, <1>6, <1>7, AtStep

LEMMA MoreHeld ==
  ASSUME Follow, UNCHANGED <<roles, topic>>, NEW r, NEW p, p[1] = Absent, held' = held \cup {<<r, p>>}
  PROVE  Follow'
  <1>1. \A h : \A t : Listed(h, t)' <=> Listed(h, t)
    BY DEF Listed
  <1>2. <<r, p>>[2] = p
    OBVIOUS
  <1>3. Sound(held, Topics)'
    BY <1>1, <1>2 DEF Follow, Sound
  <1>4. Complete(held, Topics, roles)'
    BY DEF Follow, Complete
  <1> QED BY <1>3, <1>4 DEF Follow

LEMMA CreatePermsFollow ==
  ASSUME AdminShape, FollowInv, NEW i \in Requests, InsertPerms(i), Req(i).op = "roleCreate"
  PROVE  FollowInv'
  <1> DEFINE F == {"prog", "todo"}
  <1>1. PICK q, c, d : q = Req(i) /\ c = serving[i] /\ d = serving'[i]
    OBVIOUS
  <1>2. At(i, "insertPerms") /\ UNCHANGED <<roles, topic>> /\ Steps(i) /\ Changes(i)
    BY DEF InsertPerms, Steps, Changes
  <1>3. c.prog # <<>> /\ Head(c.prog) = "insertPerms" /\ Tail(c.prog) = <<>>
    BY <1>1, <1>2, CalledAt, CreateMoves
  <1>4. OneSlug'
    BY <1>2, SlugsSame DEF FollowInv
  <1>5. CASE Touched(i, F) /\ d.prog = <<>> /\ held' = held
    <2>1. ASSUME Mid(q, c) PROVE Mid(q, d)'
      <3>1. Follow'
        BY <1>1, <1>2, <1>5, <2>1, FollowSame DEF Mid, MidCreate
      <3> QED BY <1>1, <1>5, <3>1 DEF Mid, MidCreate, Before, Partly
    <2>2. "st" \notin F
      OBVIOUS
    <2> HIDE DEF F
    <2> QED BY <1>1, <1>2, <1>4, <1>5, <2>1, <2>2, AtStep
  <1>6. CASE \E p \in c.todo : Touched(i, {"todo"}) /\ d.todo = c.todo \ {p} /\ held' = held \cup {<<q.r, p>>}
    <2>1. PICK p \in c.todo : Touched(i, {"todo"}) /\ d.todo = c.todo \ {p} /\ held' = held \cup {<<q.r, p>>}
      BY <1>6
    <2>2. Touched(i, F) /\ "st" \notin F /\ d.prog = c.prog
      BY <1>1, <2>1 DEF Touched, Fields
    <2> HIDE DEF F
    <2>3. ASSUME Mid(q, c) PROVE Mid(q, d)'
      <3>1. Follow /\ \A x \in c.todo : x[1] = Absent
        BY <1>1, <1>3, <2>3 DEF Mid, MidCreate, Before
      <3>2. Follow'
        BY <1>2, <2>1, <3>1, MoreHeld
      <3>3. MidCreate(d)'
        BY <2>1, <3>1, <3>2 DEF MidCreate
      <3> QED BY <1>1, <3>3 DEF Mid, Partly
    <2> QED BY <1>1, <1>2, <1>4, <2>2, <2>3, AtStep
  <1> QED BY <1>1, <1>3, <1>5, <1>6, InsertPermsDoes

LEMMA DropRoleFollow ==
  ASSUME AdminShape, FollowInv, NEW i \in Requests, (DeletePerms(i) /\ Req(i).op = "roleDelete") \/ DeleteRole(i)
  PROVE  FollowInv'
  <1>1. PICK q, c, d : q = Req(i) /\ c = serving[i] /\ d = serving'[i]
    OBVIOUS
  <1>2. PICK s \in {"deletePerms", "deleteRole"} : At(i, s)
    BY DEF DeletePerms, DeleteRole
  <1>3. Touched(i, {"prog"}) /\ d.prog = Tail(c.prog) /\ Steps(i) /\ UNCHANGED topic
    BY <1>1, DeletePermsDoes, DeleteRoleDoes DEF Steps, DeletePerms, DeleteRole
  <1>4. q.op = "roleDelete" /\ Changes(i) /\ AtPoint("roleDelete", c.prog) /\ c.prog # <<>> /\ Head(c.prog) = s
    <2>1. DeleteRole(i) => At(i, "deleteRole")
      BY DEF DeleteRole
    <2>2. At(i, "deleteRole") => Req(i).op = "roleDelete"
      BY CalledAt DEF Owner
    <2> QED BY <1>1, <1>2, <2>1, <2>2, CalledAt DEF Changes
  <1>5. OneSlug'
    BY <1>3, SlugsSame DEF FollowInv
  <1>6. \A h : \A t : Listed(h, t)' <=> Listed(h, t)
    BY <1>3 DEF Listed
  <1>7. ASSUME Mid(q, c) PROVE Mid(q, d)'
    <2>1. Sound(held, Topics) /\ Complete(held, Topics, roles \ {q.r})
      BY <1>4, <1>7 DEF Mid, MidDrop
    <2>2. CASE DeletePerms(i)
      <3>1. held' = {h \in held : h[1] # q.r} /\ roles' = roles
        BY <1>1, <2>2 DEF DeletePerms
      <3>2. s = "deletePerms"
        BY <1>1, <1>2, <1>4, <2>2 DEF DeletePerms, At
      <3>3. d.prog = <<"deleteRole">>
        BY <1>3, <1>4, <3>2, RoleDeleteMoves DEF AtPoint
      <3>4. Head(<<"deleteRole">>) = "deleteRole" /\ <<"deleteRole">> # <<>>
        OBVIOUS
      <3>5. Sound(held, Topics)'
        BY <1>6, <2>1, <3>1 DEF Sound
      <3>6. Complete(held, Topics, roles \ {q.r})'
        BY <1>3, <2>1, <3>1, PairOf DEF Complete
      <3> QED BY <1>4, <3>3, <3>4, <3>5, <3>6 DEF Mid, MidDrop, Before, Partly
    <2>3. CASE DeleteRole(i)
      <3>1. held' = held /\ roles' = roles \ {q.r}
        BY <1>1, <2>3 DEF DeleteRole
      <3>2. Follow'
        BY <1>3, <1>6, <2>1, <3>1 DEF Follow, Sound, Complete
      <3>3. MidDrop(q, d)'
        BY <3>2 DEF MidDrop, Follow, Complete
      <3> QED BY <1>4, <3>3 DEF Mid, Partly
    <2> QED BY <2>2, <2>3
  <1> QED BY <1>1, <1>2, <1>3, <1>4, <1>5, <1>7, AtStep

LEMMA HeldOf ==
  ASSUME AdminShape, NEW r, NEW p
  PROVE  p \in PermsOf(r) <=> <<r, p>> \in held
  <1>1. \A h \in held : h = <<h[1], h[2]>>
    BY DEF AdminShape
  <1> QED BY <1>1 DEF PermsOf

LEMMA SaveMoves ==
  ASSUME AdminShape, NEW i \in Requests, NEW s \in {"oldPerms", "deletePerms", "insertPerms", "syncRead", "syncWrite"}, At(i, s),
         Req(i).op = "rolePatch", NEW p, p = Tail(serving[i].prog)
  PROVE  /\ p # <<>>
         /\ s = "oldPerms" => Head(p) = "deletePerms"
         /\ s = "deletePerms" => Head(p) = "insertPerms"
         /\ s = "insertPerms" => Head(p) = "syncRead"
         /\ s = "syncRead" => Head(p) = "usersOf"
         /\ s = "syncWrite" => Head(p) = "syncRead"
  <1>1. AtPoint("rolePatch", serving[i].prog) /\ serving[i].prog # <<>> /\ Head(serving[i].prog) = s
    BY CalledAt
  <1>2. LET l == <<"deletePerms", "insertPerms", "syncRead", "usersOf", "sessionsOf", "block", "close">> IN l # <<>> /\ Head(l) = "deletePerms"
    OBVIOUS
  <1>3. LET l == <<"insertPerms", "syncRead", "usersOf", "sessionsOf", "block", "close">> IN l # <<>> /\ Head(l) = "insertPerms"
    OBVIOUS
  <1>4. LET l == <<"syncRead", "usersOf", "sessionsOf", "block", "close">> IN l # <<>> /\ Head(l) = "syncRead"
    OBVIOUS
  <1>5. LET l == <<"usersOf", "sessionsOf", "block", "close">> IN l # <<>> /\ Head(l) = "usersOf"
    OBVIOUS
  <1> QED BY <1>1, <1>2, <1>3, <1>4, <1>5, RolePatchMoves DEF AtPoint

LEMMA SyncedSame ==
  ASSUME UNCHANGED topic
  PROVE  \A r, P, D : Synced(r, P, D)' <=> Synced(r, P, D)
  BY DEF Synced, Listed

LEMMA RestSame ==
  ASSUME NEW r, RestFollow(r), UNCHANGED <<roles, topic>>,
         {h \in held' : h[1] # r} = {h \in held : h[1] # r}
  PROVE  RestFollow(r)'
  <1>1. Sound({h \in held : h[1] # r}, Topics)'
    BY SoundSame DEF RestFollow, Sound, Listed
  <1>2. Complete(held, Topics, roles \ {r})'
    BY PairOf DEF RestFollow, Complete
  <1> QED BY <1>1, <1>2 DEF RestFollow

(* What the save will still sync is what the rows and the lists differ in.    *)
LEMMA OldPermsFollow ==
  ASSUME AdminShape, FollowInv, NEW i \in Requests, OldPerms(i)
  PROVE  FollowInv'
  <1> DEFINE F == {"prog", "ok", "todo", "had"}
  <1>1. PICK q, c, d : q = Req(i) /\ c = serving[i] /\ d = serving'[i]
    OBVIOUS
  <1>2. At(i, "oldPerms") /\ UNCHANGED <<roles, held, topic>> /\ Steps(i)
    BY DEF OldPerms, Steps, db
  <1>3. q.op = "rolePatch" /\ Changes(i) /\ c.prog # <<>> /\ Head(c.prog) = "oldPerms"
    BY <1>1, <1>2, CalledAt DEF Owner, Changes
  <1>4. OneSlug' /\ Touched(i, F) /\ "st" \notin F
    BY <1>2, SlugsSame, OldPermsDoes DEF FollowInv
  <1>5. d.perms = c.perms
    BY <1>1, <1>4 DEF Touched, Fields
  <1> HIDE DEF F
  <1>6. ASSUME Mid(q, c), odd' = {} PROVE Mid(q, d)'
    <2>1. Follow /\ Follow'
      BY <1>2, <1>3, <1>6, FollowSame DEF Mid, MidSave, Before
    <2>2. CASE q.r \notin roles
      <3>1. d.prog = <<>>
        BY <1>1, <2>2, OldPermsDoes
      <3> QED BY <1>3, <2>1, <3>1 DEF Mid, MidSave, Before, Partly
    <2>3. CASE q.r \in roles
      <3>1. PICK old : old = PermsOf(q.r)
        OBVIOUS
      <3>2. /\ d.prog = Tail(c.prog) /\ d.todo = c.perms
            /\ d.had = {p \in (c.perms \ old) \cup (old \ c.perms) : p[2] \in Parsed}
        BY <1>1, <2>3, <3>1, OldPermsDoes
      <3>3. d.prog # <<>> /\ Head(d.prog) = "deletePerms"
        BY <1>1, <1>2, <1>3, <3>2, SaveMoves
      <3>4. \A p \in (c.perms \ old) \cup (old \ c.perms) : p[1] = Absent \/ p[2] \in Parsed
        BY <1>1, <1>6, <2>3, <3>1 DEF OldPerms
      <3>5. \A p : p \in old <=> <<q.r, p>> \in held
        BY <3>1, HeldOf
      <3>6. \A p \in d.had : p[2] \in Parsed
        BY <3>2
      <3>7. ASSUME NEW p \in c.perms \ d.had, p[1] # Absent PROVE \E t \in Topics : Listed(<<q.r, p>>, t)
        <4>1. <<q.r, p>> \in held
          BY <3>2, <3>4, <3>5, <3>7
        <4>2. <<q.r, p>>[2] = p
          OBVIOUS
        <4> QED BY <2>1, <3>7, <4>1, <4>2 DEF Follow, Sound
      <3>8. ASSUME NEW t \in Topics, NEW a \in Acts, topic[t] # Absent, q.r \in topic[t][a], <<topic[t].slug, a>> \notin d.had
            PROVE  <<topic[t].slug, a>> \in c.perms
        <4>1. <<topic[t].slug, a>> \in old
          BY <2>1, <2>3, <3>5, <3>8 DEF Follow, Complete
        <4>2. topic[t].slug # Absent
          BY <3>8, SlugOfRow
        <4> QED BY <3>2, <3>4, <3>8, <4>1, <4>2
      <3>9. Synced(q.r, c.perms, d.had)
        BY <3>6, <3>7, <3>8 DEF Synced
      <3>10. Synced(q.r, d.perms, d.had)'
        BY <1>2, <1>5, <3>9, SyncedSame
      <3> QED BY <1>3, <1>5, <2>1, <3>2, <3>3, <3>10 DEF Mid, MidSave, Before, Partly
    <2> QED BY <2>2, <2>3
  <1> QED BY <1>1, <1>2, <1>3, <1>4, <1>6, AtStep

LEMMA SaveDeletes ==
  ASSUME AdminShape, FollowInv, NEW i \in Requests, DeletePerms(i), Req(i).op = "rolePatch"
  PROVE  FollowInv'
  <1>1. PICK q, c, d : q = Req(i) /\ c = serving[i] /\ d = serving'[i]
    OBVIOUS
  <1>2. /\ At(i, "deletePerms") /\ UNCHANGED <<roles, topic>> /\ Steps(i)
        /\ held' = {h \in held : h[1] # q.r}
    BY <1>1 DEF DeletePerms, Steps
  <1>3. q.op = "rolePatch" /\ Changes(i) /\ c.prog # <<>> /\ Head(c.prog) = "deletePerms"
    BY <1>1, <1>2, CalledAt DEF Changes
  <1>4. OneSlug' /\ Touched(i, {"prog"}) /\ d.prog = Tail(c.prog)
    BY <1>1, <1>2, SlugsSame, DeletePermsDoes DEF FollowInv
  <1>5. d.perms = c.perms /\ d.todo = c.todo /\ d.had = c.had
    BY <1>1, <1>4 DEF Touched, Fields
  <1>6. d.prog # <<>> /\ Head(d.prog) = "insertPerms"
    BY <1>1, <1>2, <1>3, <1>4, SaveMoves
  <1>7. ASSUME Mid(q, c) PROVE Mid(q, d)'
    <2>1. Follow /\ c.todo = c.perms /\ Synced(q.r, c.perms, c.had)
      BY <1>3, <1>7 DEF Mid, MidSave, Before
    <2>2. RestFollow(q.r)
      BY <2>1 DEF Follow, RestFollow, Sound, Complete
    <2>3. RestFollow(q.r)'
      BY <1>2, <2>2, RestSame
    <2>4. PermsOf(q.r)' = {}
      BY <1>2 DEF PermsOf
    <2>5. Synced(q.r, d.perms, d.had)'
      BY <1>2, <1>5, <2>1, SyncedSame
    <2> QED BY <1>3, <1>5, <1>6, <2>1, <2>3, <2>4, <2>5 DEF Mid, MidSave, Before, Partly
  <1>8. "st" \notin {"prog"}
    OBVIOUS
  <1> QED BY <1>1, <1>2, <1>3, <1>4, <1>7, <1>8, AtStep

LEMMA SaveInserts ==
  ASSUME AdminShape, FollowInv, NEW i \in Requests, InsertPerms(i), Req(i).op = "rolePatch"
  PROVE  FollowInv'
  <1> DEFINE F == {"prog", "todo", "ok"}
  <1>1. PICK q, c, d : q = Req(i) /\ c = serving[i] /\ d = serving'[i]
    OBVIOUS
  <1>2. At(i, "insertPerms") /\ UNCHANGED <<roles, topic>> /\ Steps(i) /\ Changes(i)
    BY DEF InsertPerms, Steps, Changes
  <1>3. q.op = "rolePatch" /\ c.prog # <<>> /\ Head(c.prog) = "insertPerms"
    BY <1>1, <1>2, CalledAt
  <1>4. OneSlug' /\ "st" \notin F
    BY <1>2, SlugsSame DEF FollowInv
  <1>5. \A G : G \subseteq F /\ Touched(i, G) => Touched(i, F)
    BY DEF Touched
  <1>6. Touched(i, F) => d.perms = c.perms /\ d.had = c.had
    BY <1>1 DEF Touched, Fields
  <1>7. {"prog", "todo"} \subseteq F /\ {"prog", "ok"} \subseteq F /\ {"todo"} \subseteq F
    OBVIOUS
  <1> HIDE DEF F
  <1>8. Mid(q, c) => RestFollow(q.r) /\ PermsOf(q.r) \cup c.todo = c.perms /\ Synced(q.r, c.perms, c.had)
    BY <1>3 DEF Mid, MidSave, Before
  <1>9. CASE c.todo = {} /\ Touched(i, {"prog", "todo"}) /\ d.prog = Tail(c.prog) /\ d.todo = c.had /\ UNCHANGED held
    <2>1. Touched(i, F)
      BY <1>5, <1>7, <1>9
    <2>2. d.prog # <<>> /\ Head(d.prog) = "syncRead"
      BY <1>1, <1>2, <1>3, <1>9, SaveMoves
    <2>3. ASSUME Mid(q, c) PROVE Mid(q, d)'
      <3>1. RestFollow(q.r)'
        BY <1>2, <1>8, <1>9, <2>3, RestSame
      <3>2. PermsOf(q.r)' = d.perms
        BY <1>6, <1>8, <1>9, <2>1, <2>3 DEF PermsOf
      <3>3. Synced(q.r, d.perms, d.todo)'
        BY <1>2, <1>6, <1>8, <1>9, <2>1, <2>3, SyncedSame
      <3> QED BY <1>3, <2>2, <3>1, <3>2, <3>3 DEF Mid, MidSave, Before, Partly
    <2> QED BY <1>1, <1>2, <1>4, <2>1, <2>3, AtStep
  <1>10. CASE Touched(i, {"prog", "ok"}) /\ "failed" \in odd'
    <2>1. Touched(i, F)
      BY <1>5, <1>7, <1>10
    <2> QED BY <1>1, <1>2, <1>4, <1>10, <2>1, AtStep
  <1>11. CASE \E p \in c.todo : Touched(i, {"todo"}) /\ d.todo = c.todo \ {p} /\ held' = held \cup {<<q.r, p>>}
    <2>1. PICK p \in c.todo : Touched(i, {"todo"}) /\ d.todo = c.todo \ {p} /\ held' = held \cup {<<q.r, p>>}
      BY <1>11
    <2>2. Touched(i, F) /\ d.prog = c.prog
      BY <1>1, <1>5, <1>7, <2>1 DEF Touched, Fields
    <2>3. ASSUME Mid(q, c) PROVE Mid(q, d)'
      <3>1. {h \in held' : h[1] # q.r} = {h \in held : h[1] # q.r}
        BY <2>1
      <3>2. RestFollow(q.r)'
        BY <1>2, <1>8, <2>3, <3>1, RestSame
      <3>3. PermsOf(q.r)' = PermsOf(q.r) \cup {p}
        <4>1. <<q.r, p>>[1] = q.r /\ <<q.r, p>>[2] = p
          OBVIOUS
        <4>2. {x \in held' : x[1] = q.r} = {x \in held : x[1] = q.r} \cup {<<q.r, p>>}
          BY <2>1, <4>1
        <4>3. \A S : {h[2] : h \in S \cup {<<q.r, p>>}} = {h[2] : h \in S} \cup {p}
          BY <4>1
        <4> QED BY <4>2, <4>3 DEF PermsOf
      <3>4. PermsOf(q.r)' \cup d.todo = d.perms
        BY <1>6, <1>8, <2>1, <2>2, <2>3, <3>3
      <3>5. Synced(q.r, d.perms, d.had)'
        BY <1>2, <1>6, <1>8, <2>2, <2>3, SyncedSame
      <3> QED BY <1>3, <2>2, <3>2, <3>4, <3>5 DEF Mid, MidSave, Before, Partly
    <2> QED BY <1>1, <1>2, <1>4, <2>2, <2>3, AtStep
  <1> QED BY <1>1, <1>9, <1>10, <1>11, InsertPermsDoes

LEMMA SavedFollows ==
  ASSUME AdminShape, NEW r, RestFollow(r), NEW P, P = PermsOf(r), Synced(r, P, {})
  PROVE  Follow
  <1>1. ASSUME NEW h \in held, h[2][1] # Absent PROVE \E t \in Topics : Listed(h, t)
    <2>1. CASE h[1] # r
      BY <1>1, <2>1 DEF RestFollow, Sound
    <2>2. CASE h[1] = r
      <3>1. h = <<r, h[2]>>
        BY <2>2 DEF AdminShape
      <3>2. h[2] \in P
        BY <3>1, HeldOf
      <3> QED BY <1>1, <3>1, <3>2 DEF Synced
    <2> QED BY <2>1, <2>2
  <1>2. ASSUME NEW t \in Topics, NEW a \in Acts, NEW x \in roles, topic[t] # Absent, x \in topic[t][a]
        PROVE  <<x, <<topic[t].slug, a>>>> \in held
    <2>1. CASE x # r
      BY <1>2, <2>1 DEF RestFollow, Complete
    <2>2. CASE x = r
      BY <1>2, <2>2, HeldOf DEF Synced
    <2> QED BY <2>1, <2>2
  <1> QED BY <1>1, <1>2 DEF Follow, Sound, Complete

LEMMA SaveReads ==
  ASSUME AdminShape, FollowInv, NEW i \in Requests, SyncRead(i)
  PROVE  FollowInv'
  <1> DEFINE F == {"todo", "at", "row", "prog"}
  <1>1. PICK q, c, d : q = Req(i) /\ c = serving[i] /\ d = serving'[i]
    OBVIOUS
  <1>2. At(i, "syncRead") /\ UNCHANGED <<roles, topic, held>> /\ Steps(i)
    BY Zenon DEF SyncRead, Steps, db
  <1>3. q.op = "rolePatch" /\ c.prog # <<>> /\ Head(c.prog) = "syncRead" /\ Changes(i) /\ AtPoint("rolePatch", c.prog)
    BY <1>1, <1>2, CalledAt DEF Owner, Changes
  <1>4. OneSlug' /\ "st" \notin F
    BY <1>2, SlugsSame DEF FollowInv
  <1>5. \A G : G \subseteq F /\ Touched(i, G) => Touched(i, F)
    BY DEF Touched
  <1>6. Touched(i, F) => d.perms = c.perms
    BY <1>1 DEF Touched, Fields
  <1>7. {"prog"} \subseteq F /\ {"todo"} \subseteq F /\ {"todo", "at", "row", "prog"} \subseteq F
    OBVIOUS
  <1> HIDE DEF F
  <1>8. Mid(q, c) => RestFollow(q.r) /\ PermsOf(q.r) = c.perms /\ Synced(q.r, c.perms, c.todo)
    BY <1>3 DEF Mid, MidSave, Before
  <1>9. Mid(q, c) => RestFollow(q.r)' /\ PermsOf(q.r)' = c.perms
    <2>1. PermsOf(q.r)' = PermsOf(q.r)
      BY <1>2 DEF PermsOf
    <2> QED BY <1>2, <1>8, <2>1, RestSame
  <1>10. \A p \in c.todo : p[2] \in Parsed /\ p[2] \in Acts
    BY <1>1, <1>3, Called DEF CallOK, RolesCall, Parsed, Acts
  <1>11. CASE c.todo = {} /\ Touched(i, {"prog"}) /\ d.prog = Tail(c.prog)
    <2>1. Touched(i, F)
      BY <1>5, <1>7, <1>11
    <2>2. d.prog # <<>> /\ Head(d.prog) = "usersOf"
      BY <1>1, <1>2, <1>3, <1>11, SaveMoves
    <2>3. ASSUME Mid(q, c) PROVE Mid(q, d)'
      <3>1. Follow
        BY <1>8, <1>11, <2>3, SavedFollows
      <3>2. Follow'
        BY <1>2, <3>1, FollowSame
      <3> QED BY <1>3, <2>2, <3>2 DEF Mid, MidSave, Before, Partly
    <2> QED BY <1>1, <1>2, <1>3, <1>4, <2>1, <2>3, AtStep
  <1>12. ASSUME NEW p \in c.todo, Named(p) = {} \/ \E t \in Named(p) : q.r \in topic[t][p[2]] /\ p \in c.perms,
                Touched(i, {"todo"}), d.todo = c.todo \ {p},
                odd' = IF Named(p) = {} /\ p[1] # Absent THEN odd \cup {"unlisted"} ELSE odd
         PROVE  FollowInv'
    <2>1. Touched(i, F) /\ d.prog = c.prog
      BY <1>1, <1>5, <1>7, <1>12 DEF Touched, Fields
    <2>2. ASSUME Mid(q, c), odd' = {} PROVE Mid(q, d)'
      <3>1. p[1] # Absent => \E t \in Named(p) : q.r \in topic[t][p[2]] /\ p \in c.perms
        BY <1>12, <2>2
      <3>2. ASSUME NEW x \in c.perms \ d.todo, x[1] # Absent PROVE \E t \in Topics : Listed(<<q.r, x>>, t)
        <4>1. CASE x \notin c.todo
          BY <1>8, <2>2, <3>2, <4>1 DEF Synced
        <4>2. CASE x \in c.todo
          <5>1. x = p
            BY <1>12, <3>2, <4>2
          <5>2. PICK t \in Named(p) : q.r \in topic[t][p[2]]
            BY <3>1, <3>2, <5>1
          <5>3. t \in Topics /\ Listed(<<q.r, p>>, t)
            BY <1>10, <5>2 DEF Listed, Named
          <5> QED BY <5>1, <5>3
        <4> QED BY <4>1, <4>2
      <3>3. ASSUME NEW t \in Topics, NEW a \in Acts, topic[t] # Absent, q.r \in topic[t][a], <<topic[t].slug, a>> \notin d.todo
            PROVE  <<topic[t].slug, a>> \in c.perms
        <4>1. CASE <<topic[t].slug, a>> \notin c.todo
          BY <1>8, <2>2, <3>3, <4>1 DEF Synced
        <4>2. CASE <<topic[t].slug, a>> \in c.todo
          <5>1. p = <<topic[t].slug, a>> /\ p[1] = topic[t].slug
            BY <1>12, <3>3, <4>2
          <5>2. p[1] # Absent
            BY <3>3, <5>1, SlugOfRow
          <5> QED BY <3>1, <5>1, <5>2
        <4> QED BY <4>1, <4>2
      <3>4. Synced(q.r, c.perms, d.todo)
        BY <1>10, <1>12, <3>2, <3>3 DEF Synced
      <3>5. Synced(q.r, d.perms, d.todo)'
        BY <1>2, <1>6, <2>1, <3>4, SyncedSame
      <3> QED BY <1>3, <1>6, <1>9, <2>1, <2>2, <3>5 DEF Mid, MidSave, Before, Partly
    <2> QED BY <1>1, <1>2, <1>3, <1>4, <2>1, <2>2, AtStep
  <1>13. ASSUME NEW p \in c.todo, NEW t \in Named(p), Touched(i, {"todo", "at", "row", "prog"}), d.todo = c.todo \ {p},
                d.at = p, d.row = topic[t], d.prog = First("syncWrite", c.prog)
         PROVE  FollowInv'
    <2>1. Touched(i, F)
      BY <1>5, <1>7, <1>13
    <2>2. d.prog # <<>> /\ Head(d.prog) = "syncWrite"
      <3> DEFINE T == {"syncWrite", "syncRead", "usersOf", "sessionsOf", "block", "close"}
      <3>1. SavePoint \in Seq(T) /\ "syncWrite" \in T
        BY DEF SavePoint
      <3>2. c.prog = SavePoint
        BY <1>3, RolePatchMoves DEF AtPoint, SavePoint
      <3> HIDE DEF T
      <3> QED BY <1>13, <3>1, <3>2, FirstFacts
    <2>3. ASSUME Mid(q, c) PROVE Mid(q, d)'
      <3>1. d.todo \cup {d.at} = c.todo
        BY <1>13
      <3>2. Synced(q.r, d.perms, d.todo \cup {d.at})'
        BY <1>2, <1>6, <1>8, <2>1, <2>3, <3>1, SyncedSame
      <3>3. t \in Topics /\ topic'[t] # Absent /\ topic'[t].slug = d.at[1] /\ d.row = topic'[t]
        BY <1>2, <1>13 DEF Named
      <3> QED BY <1>3, <1>6, <1>9, <2>1, <2>2, <2>3, <3>2, <3>3 DEF Mid, MidSave, Before, Partly
    <2> QED BY <1>1, <1>2, <1>3, <1>4, <2>1, <2>3, AtStep
  <1> QED BY Zenon, <1>1, <1>11, <1>12, <1>13, SyncReadDoes

LEMMA SaveWrites ==
  ASSUME AdminShape, FollowInv, NEW i \in Requests, SyncWrite(i)
  PROVE  FollowInv'
  <1>1. PICK q, c, d : q = Req(i) /\ c = serving[i] /\ d = serving'[i]
    OBVIOUS
  <1>2. At(i, "syncWrite") /\ UNCHANGED <<roles, held>> /\ Steps(i)
    BY DEF SyncWrite, Steps, Else
  <1>3. q.op = "rolePatch" /\ c.prog # <<>> /\ Head(c.prog) = "syncWrite" /\ Changes(i)
    BY <1>1, <1>2, CalledAt DEF Owner, Changes
  <1>4. Touched(i, {"prog"}) /\ d.prog = Tail(c.prog) /\ "st" \notin {"prog"}
    BY <1>1, SyncWriteDoes
  <1>5. d.perms = c.perms /\ d.todo = c.todo /\ d.prog # <<>> /\ Head(d.prog) = "syncRead"
    <2>1. d.perms = c.perms /\ d.todo = c.todo
      BY <1>1, <1>4 DEF Touched, Fields
    <2> QED BY <1>1, <1>2, <1>3, <1>4, <2>1, SaveMoves
  <1>6. PICK p, new : p = c.at /\ new = IF p \in c.perms THEN c.row[p[2]] \cup {q.r} ELSE c.row[p[2]] \ {q.r}
    OBVIOUS
  <1>7. /\ c.row \in TopicRow /\ p \in Right /\ p[2] \in Acts /\ q.r \in Roles
        /\ c.perms \subseteq Right /\ \A x \in c.todo : x[2] \in Parsed
    <2>1. CallOK(q, c) /\ AdminRequest(q)
      BY <1>1, Called
    <2> QED BY <1>3, <1>6, <2>1 DEF CallOK, RolesCall, AdminRequest, Parsed, Acts
  <1>8. new \in SUBSET Roles
    BY <1>6, <1>7, RowList
  <1>9. topic' = [t \in Topics |-> IF topic[t] # Absent /\ topic[t].slug = p[1]
                                     THEN [topic[t] EXCEPT ![p[2]] = new] ELSE topic[t]]
    BY <1>1, <1>6 DEF SyncWrite
  <1>10. ASSUME NEW t \in Topics, topic[t] # Absent, topic[t].slug = p[1]
         PROVE  /\ topic'[t] # Absent /\ topic'[t].slug = topic[t].slug /\ topic'[t][p[2]] = new
                /\ \A a \in Acts : a # p[2] => topic'[t][a] = topic[t][a]
    <2>1. topic[t] \in TopicRow /\ topic'[t] = [topic[t] EXCEPT ![p[2]] = new]
      BY <1>9, <1>10, SlugOfRow
    <2>2. [topic[t] EXCEPT ![p[2]] = new] \in TopicRow
      BY <1>7, <1>8, <2>1, EditedRow
    <2>3. topic'[t] # Absent
      BY <2>1, <2>2, WorkloadAssumption
    <2>4. DOMAIN topic[t] = RowFields
      BY <2>1, RowForm
    <2> QED BY <1>7, <2>1, <2>3, <2>4 DEF RowFields, Acts
  <1>11. \A t \in Topics : topic[t] = Absent \/ topic[t].slug # p[1] => topic'[t] = topic[t]
    BY <1>9
  <1>12. \A t \in Topics : /\ topic'[t] = Absent <=> topic[t] = Absent
                           /\ topic[t] # Absent => topic'[t].slug = topic[t].slug
    BY <1>10, <1>11
  <1>13. OneSlug'
    BY <1>12 DEF FollowInv, OneSlug
  <1>14. ASSUME Mid(q, c) PROVE Mid(q, d)'
    <2>1. RestFollow(q.r) /\ PermsOf(q.r) = c.perms /\ Synced(q.r, c.perms, c.todo \cup {p})
      BY <1>3, <1>6, <1>14 DEF Mid, MidSave, Before
    <2>2. PICK o \in Topics : topic[o] # Absent /\ topic[o].slug = p[1] /\ c.row = topic[o]
      BY <1>3, <1>6, <1>14 DEF Mid, MidSave, Before
    <2>3. \A t \in Topics \ {o} : topic'[t] = topic[t]
      BY <1>11, <2>2 DEF FollowInv, OneSlug
    <2>4. /\ topic'[o] # Absent /\ topic'[o].slug = p[1] /\ topic'[o][p[2]] = new
          /\ \A a \in Acts : a # p[2] => topic'[o][a] = topic[o][a]
      BY <1>10, <2>2
    <2>5. \A x : x # q.r => (x \in new <=> x \in topic[o][p[2]])
      BY <1>6, <2>2
    <2>6. q.r \in new <=> p \in c.perms
      BY <1>6
    <2>7. \A t \in Topics, a \in Acts : \A x : x # q.r /\ topic[t] # Absent => (x \in topic'[t][a] <=> x \in topic[t][a])
      BY <2>3, <2>4, <2>5
    <2>8. \A h : h[1] # q.r => \A t \in Topics : Listed(h, t)' <=> Listed(h, t)
      BY <1>12, <2>7 DEF Listed
    <2>9. RestFollow(q.r)'
      <3>1. Sound({h \in held : h[1] # q.r}, Topics)'
        BY <1>2, <2>1, <2>8 DEF RestFollow, Sound
      <3>2. Complete(held, Topics, roles \ {q.r})'
        BY <1>2, <1>12, <2>1, <2>7 DEF RestFollow, Complete
      <3> QED BY <3>1, <3>2 DEF RestFollow
    <2>10. PermsOf(q.r)' = c.perms
      BY <1>2, <2>1 DEF PermsOf
    <2>11. ASSUME NEW x \in c.perms \ c.todo, x[1] # Absent PROVE \E t \in Topics : Listed(<<q.r, x>>, t)'
      <3>1. CASE x = p
        <4>1. Listed(<<q.r, p>>, o)'
          BY <1>7, <2>4, <2>6, <2>11, <3>1 DEF Listed
        <4> QED BY <3>1, <4>1
      <3>2. CASE x # p
        <4>1. PICK t \in Topics : Listed(<<q.r, x>>, t)
          BY <2>1, <2>11, <3>2 DEF Synced
        <4>2. topic[t] # Absent /\ topic[t].slug = x[1] /\ x[2] \in Acts /\ q.r \in topic[t][x[2]]
          BY <4>1 DEF Listed
        <4>3. x[1] # p[1] \/ x[2] # p[2]
          BY <1>7, <3>2 DEF Right
        <4>4. topic'[t][x[2]] = topic[t][x[2]]
          BY <2>2, <2>3, <2>4, <4>2, <4>3
        <4>5. Listed(<<q.r, x>>, t)'
          BY <1>12, <4>2, <4>4 DEF Listed
        <4> QED BY <4>5
      <3> QED BY <3>1, <3>2
    <2>12. ASSUME NEW t \in Topics, NEW a \in Acts, topic'[t] # Absent, q.r \in topic'[t][a], <<topic'[t].slug, a>> \notin c.todo
           PROVE  <<topic'[t].slug, a>> \in c.perms
      <3>1. CASE t = o /\ a = p[2]
        <4>1. <<topic'[t].slug, a>> = p
          BY <1>7, <2>4, <3>1 DEF Right
        <4> QED BY <2>4, <2>6, <2>12, <3>1, <4>1
      <3>2. CASE t # o \/ a # p[2]
        <4>1. topic'[t][a] = topic[t][a] /\ topic[t] # Absent /\ topic'[t].slug = topic[t].slug
          BY <1>12, <2>3, <2>4, <2>12, <3>2
        <4>2. <<topic[t].slug, a>> # p
          <5>1. ASSUME <<topic[t].slug, a>> = p PROVE FALSE
            <6>1. topic[t].slug = p[1] /\ a = p[2]
              BY <5>1
            <6> QED BY <2>2, <3>2, <4>1, <6>1 DEF FollowInv, OneSlug
          <5> QED BY <5>1
        <4> QED BY <2>1, <2>12, <4>1, <4>2 DEF Synced
      <3> QED BY <3>1, <3>2
    <2>13. Synced(q.r, d.perms, d.todo)'
      BY <1>5, <1>7, <2>11, <2>12 DEF Synced
    <2> QED BY <1>3, <1>5, <2>9, <2>10, <2>13 DEF Mid, MidSave, Before, Partly
  <1> QED BY <1>1, <1>2, <1>3, <1>4, <1>13, <1>14, AtStep

(* A topic's PATCH. *)
LEMMA PatchStep ==
  ASSUME AdminShape, FollowInv, NEW i \in Requests, NEW s \in TopicSteps, At(i, s), NEW F, Touched(i, F), "st" \notin F, Steps(i),
         OneSlug', NEW q, q = Req(i), NEW c, c = serving[i], NEW d, d = serving'[i],
         odd' = {} /\ MidPatch(q, c) => MidPatch(q, d)'
  PROVE  FollowInv'
  <1>1. q.op = "topicPatch" /\ Changes(i)
    BY CalledAt DEF Owner, Changes
  <1>2. odd' = {} /\ Mid(q, c) => Mid(q, d)'
    BY <1>1 DEF Mid, Partly
  <1> QED BY <1>1, <1>2, AtStep

LEMMA PatchHeads ==
  ASSUME AdminShape, NEW i \in Requests, NEW s \in TopicSteps \ {"existing"}, At(i, s),
         NEW c, c = serving[i], NEW d, d = serving'[i], d.prog = Tail(c.prog), NEW p, p = d.prog
  PROVE  /\ c.prog # <<>> /\ Head(c.prog) = s
         /\ s \in {"clearHome", "wipe"} => PatchStart(c.body, c.row, p)
         /\ s = "oldSlug" => p = DropPart(c.body)
         /\ s = "dropOld" => p = RenamePart(c.body)
         /\ s = "renamePerms" => p = UpdatePart(c.body)
         /\ s = "updateTopic" => p = SyncPart(c.body)
  <1>1. TopicAt(c.body, c.row, c.prog) /\ c.prog # <<>> /\ Head(c.prog) = s
    BY PatchRow
  <1>3. PICK b, ex, l : b = c.body /\ ex = c.row /\ l = c.prog
    OBVIOUS
  <1>4. TopicAt(b, ex, l) /\ l # <<>> /\ Head(l) = s /\ p = Tail(l)
    BY <1>1, <1>3
  <1>5. \/ s = "existing"
        \/ s = "syncPerms" /\ p = <<>>
        \/ s = "dropNew" /\ p = <<"syncPerms">>
        \/ s = "updateTopic" /\ p = SyncPart(b)
        \/ s = "renamePerms" /\ p = UpdatePart(b)
        \/ s = "dropOld" /\ p = RenamePart(b)
        \/ s = "oldSlug" /\ p = DropPart(b)
        \/ s = "wipe" /\ p = RestPart(b, ex)
        \/ s = "clearHome" /\ p \in {RestPart(b, ex), WipePart(b, ex)}
    BY <1>4, TopicPatchMoves
  <1>6. p \in {RestPart(b, ex), WipePart(b, ex)} => PatchStart(b, ex, p)
    BY DEF PatchStart
  <1> QED BY <1>3, <1>4, <1>5, <1>6

LEMMA PartsNonempty ==
  ASSUME NEW b, NEW ex
  PROVE  /\ UpdatePart(b) # <<>> /\ RenamePart(b) # <<>> /\ DropPart(b) # <<>>
         /\ \A p : PatchStart(b, ex, p) => p # <<>>
  <1>1. \A x : x \in TopicSteps => \A s \in Seq(TopicSteps) : First(x, s) # <<>> /\ First(x, s) \in Seq(TopicSteps)
    BY FirstFacts
  <1>2. {"clearHome", "wipe", "oldSlug", "dropOld", "renamePerms", "updateTopic"} \subseteq TopicSteps
    BY DEF TopicSteps
  <1>3. SyncPart(b) \in Seq(TopicSteps)
    <2>1. <<"dropNew", "syncPerms">> \in Seq(TopicSteps) /\ <<>> \in Seq(TopicSteps)
      BY DEF TopicSteps
    <2> QED BY <2>1 DEF SyncPart
  <1>4. UpdatePart(b) \in Seq(TopicSteps) /\ UpdatePart(b) # <<>>
    BY <1>1, <1>2, <1>3 DEF UpdatePart
  <1>5. /\ OldPart(b) \in Seq(TopicSteps) /\ OldPart(b) # <<>>
        /\ RenamePart(b) # <<>> /\ DropPart(b) # <<>>
    BY <1>1, <1>2, <1>4 DEF OldPart, DropPart, RenamePart
  <1>6. RestPart(b, ex) \in Seq(TopicSteps) /\ RestPart(b, ex) # <<>>
    BY <1>4, <1>5 DEF RestPart
  <1>7. WipePart(b, ex) \in Seq(TopicSteps) /\ WipePart(b, ex) # <<>>
    BY <1>1, <1>2, <1>6 DEF WipePart
  <1> QED BY <1>1, <1>2, <1>4, <1>5, <1>6, <1>7 DEF PatchStart

(* Between the read of the row and the first statement that writes.           *)
LEMMA EarlyOn ==
  ASSUME AdminShape', NEW q, NEW d, q.t \in Topics, Early(q.t, d)', OneSlug', PatchStart(d.body, d.row, d.prog)
  PROVE  MidPatch(q, d)'
  <1>1. d.prog \in {RestPart(d.body, d.row), WipePart(d.body, d.row), First("clearHome", RestPart(d.body, d.row)), First("clearHome", WipePart(d.body, d.row))}
    BY DEF PatchStart
  <1>2. Head(d.prog) \in {"clearHome", "wipe", "oldSlug", "updateTopic"} /\ (Head(d.prog) = "updateTopic" => ~Renames(d.body, d.row))
    BY <1>1, TopicParts DEF RestPart
  <1>3. d.prog # <<>>
    BY PartsNonempty
  <1>4. /\ Follow' /\ topic'[q.t] # Absent /\ topic'[q.t].slug = d.row.slug
        /\ topic'[q.t].slug # Absent
    BY SlugsPresent, RowForm DEF Early, AdminShape
  <1>5. ASSUME ~Renames(d.body, d.row) PROVE Ready(q.t, d)'
    <2>1. NewSlug(d) = d.row.slug
      BY <1>5 DEF NewSlug, Renames
    <2>2. Complete(held, Others(q.t), roles)'
      BY <1>4 DEF Follow, Complete, Others
    <2>3. ASSUME NEW h \in held', h[2][1] # Absent, h[2] \notin TopicPerms(d.row.slug) \/ h[1] \notin topic'[q.t][h[2][2]]
          PROVE  \E o \in Others(q.t) : Listed(h, o)'
      <3>1. h[2] \in Right
        BY DEF AdminShape
      <3>2. PICK o \in Topics : Listed(h, o)'
        BY <1>4, <2>3 DEF Follow, Sound
      <3>3. o # q.t
        BY <1>4, <2>3, <3>1, <3>2, PermOf DEF Listed
      <3> QED BY <3>2, <3>3 DEF Others
    <2>4. Sound({h \in held : h[2] \notin TopicPerms(NewSlug(d)) \/ h[1] \notin topic[q.t][h[2][2]]}, Others(q.t))'
      BY <2>1, <2>3 DEF Sound, NewSlug, Others
    <2>5. \A a \in Acts, r \in roles' : r \in topic'[q.t][a] => <<r, <<NewSlug(d), a>>>> \in held'
      BY <1>4, <2>1 DEF Follow, Complete
    <2> QED BY <1>4, <2>2, <2>4, <2>5 DEF Ready, NewSlug
  <1> QED BY <1>2, <1>3, <1>5 DEF MidPatch, Before

LEMMA ExistingFollow ==
  ASSUME AdminShape, AdminShape', FollowInv, NEW i \in Requests, Existing(i)
  PROVE  FollowInv'
  <1> DEFINE F == {"prog", "row", "ok"}
  <1>1. PICK q, c, d : q = Req(i) /\ c = serving[i] /\ d = serving'[i]
    OBVIOUS
  <1>2. At(i, "existing") /\ "existing" \in TopicSteps /\ UNCHANGED <<roles, held, topic>> /\ Steps(i)
    BY DEF Existing, Steps, Else, db, TopicSteps
  <1>3. PICK ex : ex = topic[q.t]
    OBVIOUS
  <1>4. /\ Touched(i, F) /\ "st" \notin F
        /\ ex = Absent => d.prog = <<>>
        /\ ex # Absent => d.row = ex /\ d.prog = PatchProgram(c.body, ex)
    BY <1>1, <1>2, <1>3, ExistingDoes
  <1>5. d.body = c.body
    BY <1>1, <1>4 DEF Touched, Fields
  <1>6. OneSlug'
    BY <1>2, SlugsSame DEF FollowInv
  <1>7. c.prog # <<>> /\ Head(c.prog) = "existing" /\ q.t \in Topics
    BY <1>1, <1>2, CalledAt, Called DEF AdminRequest
  <1> HIDE DEF F
  <1>8. ASSUME MidPatch(q, c) PROVE MidPatch(q, d)'
    <2>1. Follow'
      BY <1>2, <1>7, <1>8, FollowSame DEF MidPatch, Before
    <2>2. CASE ex = Absent
      BY <1>4, <2>1, <2>2 DEF MidPatch, Before
    <2>3. CASE ex # Absent
      <3>1. PatchStart(d.body, d.row, d.prog)
        BY <1>4, <1>5, <2>3, PatchProgramStarts
      <3>2. Early(q.t, d)'
        BY <1>2, <1>3, <1>4, <2>1, <2>3 DEF Early
      <3> QED BY <1>6, <1>7, <3>1, <3>2, EarlyOn
    <2> QED BY <2>2, <2>3
  <1> QED BY <1>1, <1>2, <1>4, <1>6, <1>8, PatchStep

LEMMA EarlyFollow ==
  ASSUME AdminShape, AdminShape', FollowInv, NEW i \in Requests, ClearHome(i) \/ Wipe(i)
  PROVE  FollowInv'
  <1>1. PICK q, c, d : q = Req(i) /\ c = serving[i] /\ d = serving'[i]
    OBVIOUS
  <1>2. PICK s \in {"clearHome", "wipe"} : At(i, s)
    BY DEF ClearHome, Wipe
  <1>3. s \in TopicSteps \ {"existing"} /\ UNCHANGED <<roles, held>> /\ Steps(i)
    BY DEF ClearHome, Wipe, Steps, Else, db, TopicSteps
  <1>4. Touched(i, {"prog"}) /\ "st" \notin {"prog"} /\ d.prog = Tail(c.prog)
    BY <1>1, ClearHomeDoes, WipeDoes
  <1>5. d.body = c.body /\ d.row = c.row
    BY <1>1, <1>4 DEF Touched, Fields
  <1>6. c.prog # <<>> /\ Head(c.prog) = s /\ PatchStart(d.body, d.row, d.prog) /\ q.t \in Topics
    <2>1. q.t \in Topics
      BY <1>1, Called DEF AdminRequest
    <2>2. c.prog # <<>> /\ Head(c.prog) = s /\ PatchStart(c.body, c.row, d.prog)
      BY <1>1, <1>2, <1>3, <1>4, PatchHeads
    <2> QED BY <1>5, <2>1, <2>2
  <1>7. ASSUME NEW t \in Topics
        PROVE  /\ topic'[t] = Absent <=> topic[t] = Absent
               /\ topic[t] # Absent => topic'[t].slug = topic[t].slug /\ \A a \in Acts : topic'[t][a] = topic[t][a]
    <2>1. CASE Wipe(i)
      BY <2>1 DEF Wipe, db
    <2>2. CASE ClearHome(i)
      <3>1. topic'[t] = IF topic[t] = Absent THEN Absent ELSE [topic[t] EXCEPT !.home = FALSE]
        BY <2>2 DEF ClearHome
      <3>2. CASE topic[t] # Absent
        <4>1. topic[t] \in TopicRow
          BY <3>2 DEF AdminShape
        <4>2. [topic[t] EXCEPT !.home = FALSE] \in TopicRow /\ DOMAIN topic[t] = RowFields
          BY <4>1, HomelessRow, RowForm
        <4>3. topic'[t] # Absent
          BY <3>1, <3>2, <4>2, WorkloadAssumption
        <4> QED BY <3>1, <3>2, <4>2, <4>3 DEF RowFields, Acts
      <3> QED BY <3>1, <3>2
    <2> QED BY <2>1, <2>2
  <1>8. \A h : \A t \in Topics : Listed(h, t)' <=> Listed(h, t)
    BY <1>7, ListsSame
  <1>9. OneSlug'
    BY <1>7 DEF FollowInv, OneSlug
  <1>10. ASSUME MidPatch(q, c) PROVE MidPatch(q, d)'
    <2>1. Early(q.t, c)
      BY <1>6, <1>10 DEF MidPatch, Before
    <2>2. Follow'
      BY <1>3, <1>7, <1>8, <2>1 DEF Early, Follow, Sound, Complete
    <2>3. Early(q.t, d)'
      BY <1>5, <1>6, <1>7, <2>1, <2>2 DEF Early
    <2> QED BY <1>6, <1>9, <2>3, EarlyOn
  <1> QED BY <1>1, <1>2, <1>3, <1>4, <1>9, <1>10, PatchStep

LEMMA OldSlugFollow ==
  ASSUME AdminShape, FollowInv, NEW i \in Requests, OldSlug(i)
  PROVE  FollowInv'
  <1>1. PICK q, c, d : q = Req(i) /\ c = serving[i] /\ d = serving'[i]
    OBVIOUS
  <1>2. At(i, "oldSlug") /\ "oldSlug" \in TopicSteps \ {"existing"} /\ UNCHANGED <<roles, held, topic>> /\ Steps(i)
    BY DEF OldSlug, Steps, Else, db, TopicSteps
  <1>3. /\ Touched(i, {"prog", "had"}) /\ "st" \notin {"prog", "had"} /\ d.prog = Tail(c.prog)
        /\ d.had = {h \in held : h[2] \in TopicPerms(c.row.slug)}
    BY <1>1, OldSlugDoes
  <1>4. d.body = c.body /\ d.row = c.row
    BY <1>1, <1>3 DEF Touched, Fields
  <1>5. c.prog # <<>> /\ Head(c.prog) = "oldSlug" /\ d.prog = DropPart(c.body)
    BY <1>1, <1>2, <1>3, PatchHeads
  <1>6. d.prog # <<>> /\ Head(d.prog) = "dropOld"
    BY <1>5, TopicParts, PartsNonempty
  <1>7. OneSlug'
    BY <1>2, SlugsSame DEF FollowInv
  <1>8. ASSUME MidPatch(q, c) PROVE MidPatch(q, d)'
    <2>1. Early(q.t, c)
      BY <1>5, <1>8 DEF MidPatch, Before
    <2>2. Follow'
      BY <1>2, <2>1, FollowSame DEF Early
    <2>3. Early(q.t, d)'
      BY <1>2, <1>4, <2>1, <2>2 DEF Early
    <2>4. d.had = {h \in held' : h[2] \in TopicPerms(d.row.slug)}
      BY <1>2, <1>3, <1>4
    <2> QED BY <1>5, <1>6, <2>3, <2>4 DEF MidPatch, Before, TopicPerms
  <1> QED BY <1>1, <1>2, <1>3, <1>7, <1>8, PatchStep

LEMMA DropOldFollow ==
  ASSUME AdminShape, FollowInv, NEW i \in Requests, DropOld(i)
  PROVE  FollowInv'
  <1>1. PICK q, c, d : q = Req(i) /\ c = serving[i] /\ d = serving'[i]
    OBVIOUS
  <1>2. At(i, "dropOld") /\ "dropOld" \in TopicSteps \ {"existing"} /\ UNCHANGED <<roles, topic>> /\ Steps(i)
    BY DEF DropOld, Steps, Else, TopicSteps
  <1>3. held' = IF c.had = {} THEN held ELSE {h \in held : h[2] \notin TopicPerms(c.row.slug)}
    BY <1>1 DEF DropOld
  <1>4. Touched(i, {"prog"}) /\ "st" \notin {"prog"} /\ d.prog = Tail(c.prog)
    BY <1>1, DropOldDoes
  <1>5. d.body = c.body /\ d.row = c.row /\ d.had = c.had
    BY <1>1, <1>4 DEF Touched, Fields
  <1>6. c.prog # <<>> /\ Head(c.prog) = "dropOld" /\ d.prog = RenamePart(c.body)
    BY <1>1, <1>2, <1>4, PatchHeads
  <1>7. d.prog # <<>> /\ Head(d.prog) = "renamePerms" /\ q.t \in Topics
    <2>1. q.t \in Topics
      BY <1>1, Called DEF AdminRequest
    <2> QED BY <1>6, <2>1, TopicParts, PartsNonempty
  <1>8. OneSlug /\ OneSlug'
    BY <1>2, SlugsSame DEF FollowInv
  <1>9. ASSUME MidPatch(q, c) PROVE MidPatch(q, d)'
    <2>1. /\ Follow /\ topic[q.t] # Absent /\ topic[q.t].slug = c.row.slug
          /\ c.had = {h \in held : h[2] \in TopicPerms(c.row.slug)}
      BY <1>6, <1>9 DEF MidPatch, Before, Early
    <2>2. held' = {h \in held : h[2] \notin TopicPerms(c.row.slug)}
      BY <1>3, <2>1
    <2>3. c.row.slug \in Slugs /\ c.row.slug # Absent
      BY <1>7, <2>1, SlugOfRow
    <2>4. OthersFollow(held, q.t)'
      <3>1. PICK H : H = held'
        OBVIOUS
      <3>2. Sound(H, Others(q.t)) /\ Complete(H, Others(q.t), roles)
        BY <1>7, <1>8, <2>1, <2>2, <3>1, DropOf DEF Follow
      <3> QED BY <1>2, <3>1, <3>2, SoundSame DEF OthersFollow, Others
    <2>5. ASSUME NEW h \in c.had PROVE h[2] \in TopicPerms(c.row.slug) /\ h[1] \in topic[q.t][h[2][2]]
      <3>1. h \in held /\ h[2] \in TopicPerms(c.row.slug) /\ h[2] \in Right
        BY <2>1, <2>5 DEF AdminShape
      <3>2. h[2][1] = c.row.slug
        BY <3>1, PermOf
      <3>3. PICK o \in Topics : Listed(h, o)
        BY <2>1, <2>3, <3>1, <3>2 DEF Follow, Sound
      <3>4. o = q.t
        BY <1>7, <1>8, <2>1, <3>2, <3>3 DEF Listed, OneSlug
      <3> QED BY <3>1, <3>3, <3>4 DEF Listed
    <2>6. ASSUME NEW a \in Acts, NEW r \in roles, r \in topic[q.t][a] PROVE <<r, <<c.row.slug, a>>>> \in c.had
      <3>1. <<r, <<c.row.slug, a>>>> \in held
        BY <1>7, <2>1, <2>6 DEF Follow, Complete
      <3>2. <<r, <<c.row.slug, a>>>>[2] \in TopicPerms(c.row.slug)
        BY DEF TopicPerms
      <3> QED BY <2>1, <3>1, <3>2
    <2>7. Moved(q.t, d)'
      BY <1>2, <1>5, <2>1, <2>4, <2>5, <2>6 DEF Moved, TopicPerms
    <2> QED BY <1>7, <2>7 DEF MidPatch, Before
  <1> QED BY <1>1, <1>2, <1>4, <1>8, <1>9, PatchStep

LEMMA RenameFollow ==
  ASSUME AdminShape, FollowInv, NEW i \in Requests, RenamePerms(i)
  PROVE  FollowInv'
  <1>1. PICK q, c, d : q = Req(i) /\ c = serving[i] /\ d = serving'[i]
    OBVIOUS
  <1>2. At(i, "renamePerms") /\ "renamePerms" \in TopicSteps \ {"existing"} /\ UNCHANGED <<roles, topic>> /\ Steps(i)
    BY DEF RenamePerms, Steps, Else, TopicSteps
  <1>3. PICK s : s = c.body.slug
    OBVIOUS
  <1>4. PICK N : N = {<<h[1], <<s, h[2][2]>>>> : h \in c.had}
    OBVIOUS
  <1>5. held' = held \cup N
    BY <1>1, <1>3, <1>4 DEF RenamePerms
  <1>6. Touched(i, {"prog"}) /\ "st" \notin {"prog"} /\ d.prog = Tail(c.prog)
    BY <1>1, RenamePermsDoes
  <1>7. d.body = c.body /\ d.row = c.row
    BY <1>1, <1>6 DEF Touched, Fields
  <1>8. c.prog # <<>> /\ Head(c.prog) = "renamePerms" /\ d.prog = UpdatePart(c.body)
    BY <1>1, <1>2, <1>6, PatchHeads
  <1>9. d.prog # <<>> /\ Head(d.prog) = "updateTopic" /\ q.t \in Topics /\ NewSlug(d) = s
    <2>1. q.t \in Topics
      BY <1>1, Called DEF AdminRequest
    <2>2. Renames(c.body, c.row)
      BY <1>1, <1>2, PatchRow
    <2>3. NewSlug(d) = s
      BY <1>3, <1>7, <2>2 DEF Renames, NewSlug
    <2> QED BY <1>8, <2>1, <2>3, TopicParts, PartsNonempty
  <1>10. OneSlug'
    BY <1>2, SlugsSame DEF FollowInv
  <1>11. ASSUME MidPatch(q, c) PROVE MidPatch(q, d)'
    <2>1. Moved(q.t, c)
      BY <1>8, <1>11 DEF MidPatch, Before
    <2>2. ASSUME NEW h \in N PROVE h[2] \in TopicPerms(s) /\ h[1] \in topic[q.t][h[2][2]]
      <3>1. PICK g \in c.had : h = <<g[1], <<s, g[2][2]>>>>
        BY <1>4, <2>2
      <3>2. g[2] \in TopicPerms(c.row.slug) /\ g[1] \in topic[q.t][g[2][2]]
        BY <2>1 DEF Moved
      <3> QED BY <3>1, <3>2 DEF TopicPerms
    <2>3. Complete(held, Others(q.t), roles)'
      BY <1>2, <1>5, <2>1 DEF Moved, OthersFollow, Complete, Others
    <2>4. ASSUME NEW h \in held', h[2][1] # Absent, h[2] \notin TopicPerms(s) \/ h[1] \notin topic[q.t][h[2][2]]
          PROVE  \E o \in Others(q.t) : Listed(h, o)
      <3>1. h \in held
        BY <1>5, <2>2, <2>4
      <3> QED BY <2>1, <2>4, <3>1 DEF Moved, OthersFollow, Sound
    <2>5. Sound({h \in held : h[2] \notin TopicPerms(NewSlug(d)) \/ h[1] \notin topic[q.t][h[2][2]]}, Others(q.t))'
      BY <1>2, <1>9, <2>4 DEF Sound, Listed, Others, NewSlug, TopicPerms
    <2>6. ASSUME NEW a \in Acts, NEW r \in roles, r \in topic[q.t][a] PROVE <<r, <<s, a>>>> \in held'
      <3>1. <<r, <<c.row.slug, a>>>> \in c.had
        BY <2>1, <2>6 DEF Moved
      <3>2. <<r, <<s, a>>>> \in N
        BY <1>4, <3>1
      <3> QED BY <1>5, <3>2
    <2>7. Ready(q.t, d)'
      BY <1>2, <1>7, <1>9, <2>1, <2>3, <2>5, <2>6 DEF Ready, Moved, NewSlug
    <2> QED BY <1>9, <2>7 DEF MidPatch, Before
  <1> QED BY <1>1, <1>2, <1>6, <1>10, <1>11, PatchStep

LEMMA MergedFields ==
  ASSUME NEW row \in TopicRow, NEW p, NEW f \in {"slug"} \cup Acts
  PROVE  Merge(row, p)[f] = IF f \in DOMAIN p THEN p[f] ELSE row[f]
  <1>1. DOMAIN row = RowFields
    BY RowForm
  <1> QED BY <1>1 DEF Merge, RowFields, Acts

(* What the UPDATE makes of the row, and what it returns.                     *)
LEMMA UpdatedRow ==
  ASSUME NEW row \in TopicRow, NEW ex \in TopicRow, NEW b, Asked(b), NEW p, p = PatchOf(b, ex), NEW new, new = Merge(row, p)
  PROVE  /\ new \in TopicRow /\ new # Absent
         /\ new.slug = IF Asks(b, "slug") THEN b.slug ELSE row.slug
         /\ \A a \in Acts : a \notin DOMAIN b => new[a] = row[a]
         /\ \A x : x = Merge(new, [slug |-> Merge(ex, p).slug]) =>
              x.slug = (IF Asks(b, "slug") THEN b.slug ELSE ex.slug) /\ \A a \in Acts : x[a] = new[a]
  <1>1. new \in TopicRow
    BY MergePatch
  <1>2. new # Absent
    BY <1>1, WorkloadAssumption
  <1>3. new.slug = IF Asks(b, "slug") THEN b.slug ELSE row.slug
    BY MergedFields, PatchFields DEF Asks
  <1>4. ASSUME NEW a \in Acts, a \notin DOMAIN b PROVE new[a] = row[a]
    <2>1. a \notin DOMAIN p
      BY <1>4, PatchFields
    <2> QED BY <2>1, MergedFields
  <1>5. Merge(ex, p).slug = IF Asks(b, "slug") THEN b.slug ELSE ex.slug
    BY MergedFields, PatchFields DEF Asks
  <1>6. ASSUME NEW s, NEW x, x = Merge(new, [slug |-> s]) PROVE x.slug = s /\ \A a \in Acts : x[a] = new[a]
    <2>1. PICK m : m = [slug |-> s]
      OBVIOUS
    <2>2. DOMAIN m = {"slug"} /\ m["slug"] = s
      BY <2>1
    <2>3. "slug" \notin Acts
      BY DEF Acts
    <2>4. x = Merge(new, m)
      BY <1>6, <2>1
    <2> HIDE <1>6
    <2> QED BY <1>1, <2>2, <2>3, <2>4, MergedFields
  <1> QED BY <1>1, <1>2, <1>3, <1>4, <1>5, <1>6

LEMMA UpdateFollow ==
  ASSUME AdminShape, FollowInv, NEW i \in Requests, UpdateTopic(i)
  PROVE  FollowInv'
  <1> DEFINE F == {"prog", "row", "ok"}
  <1>1. PICK q, c, d : q = Req(i) /\ c = serving[i] /\ d = serving'[i]
    OBVIOUS
  <1>2. At(i, "updateTopic") /\ "updateTopic" \in TopicSteps \ {"existing"} /\ UNCHANGED <<roles, held>> /\ Steps(i)
    BY DEF UpdateTopic, Steps, TopicSteps
  <1>3. PICK t, p : t = q.t /\ p = PatchOf(c.body, c.row)
    OBVIOUS
  <1>4. /\ Touched(i, F) /\ "st" \notin F
        /\ UpdateRefused(i) => "failed" \in odd' /\ topic' = topic
        /\ ~UpdateRefused(i) =>
             /\ topic[t] # Absent /\ topic' = [topic EXCEPT ![t] = Merge(topic[t], p)]
             /\ d.prog = Tail(c.prog) /\ d.row = Merge(topic'[t], [slug |-> Merge(c.row, p).slug])
    BY <1>1, <1>3, UpdateTopicDoes
  <1>5. d.body = c.body /\ t \in Topics
    BY <1>1, <1>3, <1>4, Called DEF Touched, Fields, AdminRequest
  <1>6. c.row \in TopicRow /\ Asked(c.body) /\ c.prog # <<>> /\ Head(c.prog) = "updateTopic"
    BY <1>1, <1>2, PatchRow
  <1> HIDE DEF F
  <1>7. CASE UpdateRefused(i)
    <2>1. OneSlug'
      BY <1>4, <1>7, SlugsSame DEF FollowInv
    <2> QED BY <1>1, <1>2, <1>4, <1>7, <2>1, PatchStep
  <1>8. CASE ~UpdateRefused(i)
    <2>1. PICK new, n : new = topic'[t] /\ n = IF Asks(c.body, "slug") THEN c.body.slug ELSE topic[t].slug
      OBVIOUS
    <2>2. topic \in [Topics -> TopicRow \cup {Absent}] /\ topic[t] \in TopicRow
      BY <1>4, <1>5, <1>8 DEF AdminShape
    <2>3. new = Merge(topic[t], p) /\ \A o \in Others(t) : topic'[o] = topic[o]
      BY <1>4, <1>5, <1>8, <2>1, <2>2 DEF Others
    <2>4. /\ new # Absent /\ new.slug = n /\ \A a \in Acts : a \notin DOMAIN c.body => new[a] = topic[t][a]
          /\ d.row.slug = (IF Asks(c.body, "slug") THEN c.body.slug ELSE c.row.slug) /\ \A a \in Acts : d.row[a] = new[a]
      <3>1. d.row = Merge(new, [slug |-> Merge(c.row, p).slug])
        BY <1>4, <1>8, <2>1
      <3> QED BY <1>3, <1>6, <2>1, <2>2, <2>3, <3>1, UpdatedRow
    <2>5. \A o \in Others(t) : topic[o] # Absent => topic[o].slug # n
      <3>1. CASE Asks(c.body, "slug")
        <4>1. Asks(p, "slug") /\ p.slug = n
          BY <1>3, <1>6, <2>1, <3>1, PatchFields DEF Asks
        <4>2. ~SlugTaken(t, p.slug)
          BY <1>1, <1>3, <1>8, <4>1 DEF UpdateRefused
        <4> QED BY <4>1, <4>2 DEF SlugTaken, Others
      <3>2. CASE ~Asks(c.body, "slug")
        BY <1>4, <1>5, <1>8, <2>1, <3>2 DEF FollowInv, OneSlug, Others
      <3> QED BY <3>1, <3>2
    <2>6. OneSlug'
      <3>1. OneSlug
        BY DEF FollowInv
      <3>2. topic'[t].slug = n /\ \A o \in Topics \ {t} : topic'[o] = topic[o] /\ (topic[o] # Absent => topic[o].slug # n)
        BY <2>1, <2>3, <2>4, <2>5 DEF Others
      <3>3. ASSUME NEW x \in Topics, NEW y \in Topics, topic'[x] # Absent, topic'[y] # Absent, topic'[x].slug = topic'[y].slug
            PROVE  x = y
        <4>1. CASE x = t \/ y = t
          BY <3>2, <3>3, <4>1
        <4>2. CASE x # t /\ y # t
          <5>1. topic'[x] = topic[x] /\ topic'[y] = topic[y]
            BY <3>2, <4>2
          <5> QED BY <3>1, <3>3, <5>1 DEF OneSlug
        <4> QED BY <4>1, <4>2
      <3> QED BY <3>3 DEF OneSlug
    <2>7. ASSUME MidPatch(q, c) PROVE MidPatch(q, d)'
      <3>1. Ready(t, c)
        BY <1>3, <1>6, <2>7 DEF MidPatch, Before
      <3>2. NewSlug(c) = n /\ d.row.slug = n
        BY <2>1, <2>4, <3>1 DEF NewSlug, Ready
      <3>3. /\ Complete(held, Others(t), roles)
            /\ Sound({h \in held : h[2] \notin TopicPerms(n) \/ h[1] \notin topic[t][h[2][2]]}, Others(t))
            /\ \A a \in Acts, r \in roles : r \in topic[t][a] => <<r, <<n, a>>>> \in held
        BY <3>1, <3>2 DEF Ready
      <3>4. Complete(held, Others(t), roles)'
        BY <1>2, <2>3, <3>3 DEF Complete, Others
      <3>5. \A h : \A o \in Others(t) : Listed(h, o) => Listed(h, o)'
        BY <2>3 DEF Listed
      <3>6. d.prog = SyncPart(c.body)
        BY <1>1, <1>2, <1>4, <1>8, PatchHeads
      <3>7. CASE DOMAIN c.body \cap Acts = {}
        <4>1. d.prog = <<>>
          BY <3>6, <3>7 DEF SyncPart
        <4>2. \A a \in Acts : new[a] = topic[t][a]
          BY <2>4, <3>7
        <4>3. ASSUME NEW h \in held, h[2][1] # Absent PROVE \E o \in Topics : Listed(h, o)'
          <5>1. CASE h[2] \notin TopicPerms(n) \/ h[1] \notin topic[t][h[2][2]]
            BY <3>3, <3>5, <4>3, <5>1 DEF Sound, Others
          <5>2. CASE h[2] \in TopicPerms(n) /\ h[1] \in topic[t][h[2][2]]
            <6>1. h[2][1] = n /\ h[2][2] \in Acts
              BY <5>2 DEF TopicPerms
            <6>2. Listed(h, t)'
              BY <2>1, <2>4, <4>2, <5>2, <6>1 DEF Listed
            <6> QED BY <1>5, <6>2
          <5> QED BY <5>1, <5>2
        <4>4. ASSUME NEW o \in Topics, NEW a \in Acts, NEW r \in roles, topic'[o] # Absent, r \in topic'[o][a]
              PROVE  <<r, <<topic'[o].slug, a>>>> \in held
          <5>1. CASE o = t
            BY <2>1, <2>4, <3>3, <4>2, <4>4, <5>1
          <5>2. CASE o # t
            BY <1>2, <3>4, <4>4, <5>2 DEF Complete, Others
          <5> QED BY <5>1, <5>2
        <4>5. Follow'
          BY <1>2, <4>3, <4>4 DEF Follow, Sound, Complete
        <4> QED BY <4>1, <4>5 DEF MidPatch, Before
      <3>8. CASE DOMAIN c.body \cap Acts # {}
        <4>1. d.prog = <<"dropNew", "syncPerms">>
          BY <3>6, <3>8 DEF SyncPart
        <4>2. LET l == <<"dropNew", "syncPerms">> IN l # <<>> /\ Head(l) = "dropNew"
          OBVIOUS
        <4>3. Returned(t, d)'
          BY <2>1, <2>4, <3>2 DEF Returned
        <4>4. \A h \in held : h[2] \notin TopicPerms(n) /\ h[2][1] # Absent => \E o \in Others(t) : Listed(h, o)'
          BY <3>3, <3>5 DEF Sound
        <4>5. OthersFollow({h \in held : h[2] \notin TopicPerms(d.row.slug)}, t)'
          BY <1>2, <3>2, <3>4, <4>4 DEF OthersFollow, Sound, Others, TopicPerms
        <4> QED BY <1>3, <4>1, <4>2, <4>3, <4>5 DEF MidPatch, Before
      <3> QED BY <3>7, <3>8
    <2> QED BY <1>1, <1>2, <1>4, <2>6, <2>7, PatchStep
  <1> QED BY <1>7, <1>8

LEMMA DropNewFollow ==
  ASSUME AdminShape, FollowInv, NEW i \in Requests, DropNew(i)
  PROVE  FollowInv'
  <1>1. PICK q, c, d : q = Req(i) /\ c = serving[i] /\ d = serving'[i]
    OBVIOUS
  <1>2. At(i, "dropNew") /\ "dropNew" \in TopicSteps \ {"existing"} /\ UNCHANGED <<roles, topic>> /\ Steps(i)
    BY DEF DropNew, Steps, Else, TopicSteps
  <1>3. held' = {h \in held : h[2] \notin TopicPerms(c.row.slug)}
    BY <1>1 DEF DropNew
  <1>4. Touched(i, {"prog"}) /\ "st" \notin {"prog"} /\ d.prog = Tail(c.prog)
    BY <1>1, DropNewDoes
  <1>5. d.row = c.row /\ q.t \in Topics
    BY <1>1, <1>4, Called DEF Touched, Fields, AdminRequest
  <1>6. c.prog # <<>> /\ Head(c.prog) = "dropNew" /\ d.prog = <<"syncPerms">>
    <2>1. c.prog # <<>> /\ Head(c.prog) = "dropNew"
      BY <1>1, <1>2 DEF At
    <2>2. PICK b, ex, l, p : b = c.body /\ ex = c.row /\ l = c.prog /\ p = Tail(l)
      OBVIOUS
    <2>3. TopicAt(c.body, c.row, c.prog)
      BY <1>1, <1>2, PatchRow
    <2>4. TopicAt(b, ex, l) /\ l # <<>> /\ Head(l) = "dropNew"
      BY <2>1, <2>2, <2>3
    <2>5. p = <<"syncPerms">>
      BY <2>2, <2>4, TopicPatchMoves
    <2> QED BY <1>4, <2>1, <2>2, <2>5
  <1>7. <<"syncPerms">> # <<>> /\ Head(<<"syncPerms">>) = "syncPerms"
    OBVIOUS
  <1>8. OneSlug'
    BY <1>2, SlugsSame DEF FollowInv
  <1>9. ASSUME MidPatch(q, c) PROVE MidPatch(q, d)'
    <2>1. Returned(q.t, c) /\ OthersFollow({h \in held : h[2] \notin TopicPerms(c.row.slug)}, q.t)
      BY <1>6, <1>9 DEF MidPatch, Before
    <2>2. Returned(q.t, d)'
      BY <1>2, <1>5, <2>1 DEF Returned
    <2>3. \A h \in held' : h[2][1] # Absent => \E o \in Others(q.t) : Listed(h, o)
      BY <1>3, <2>1 DEF OthersFollow, Sound
    <2>4. ASSUME NEW o \in Others(q.t), NEW a \in Acts, NEW r \in roles, topic[o] # Absent, r \in topic[o][a]
          PROVE  <<r, <<topic[o].slug, a>>>> \in held'
      <3>1. <<r, <<topic[o].slug, a>>>> \in held
        BY <2>1, <2>4 DEF OthersFollow, Complete
      <3>2. topic[o].slug # c.row.slug
        BY <1>5, <2>1, <2>4 DEF Returned, FollowInv, OneSlug, Others
      <3> QED BY <1>3, <3>1, <3>2, NoPermOf
    <2>5. OthersFollow(held, q.t)'
      BY <1>2, <2>3, <2>4 DEF OthersFollow, Sound, Complete, Others, Listed
    <2> QED BY <1>6, <1>7, <2>2, <2>5 DEF MidPatch, Before
  <1> QED BY <1>1, <1>2, <1>4, <1>8, <1>9, PatchStep

LEMMA SyncPermsFollow ==
  ASSUME AdminShape, FollowInv, NEW i \in Requests, SyncPerms(i)
  PROVE  FollowInv'
  <1>1. PICK q, c, d : q = Req(i) /\ c = serving[i] /\ d = serving'[i]
    OBVIOUS
  <1>2. At(i, "syncPerms") /\ "syncPerms" \in TopicSteps \ {"existing"} /\ UNCHANGED <<roles, topic>> /\ Steps(i)
    BY DEF SyncPerms, Steps, Else, TopicSteps
  <1>3. PICK N : N = UNION {{<<r, <<c.row.slug, a>>>> : r \in c.row[a]} : a \in Acts}
    OBVIOUS
  <1>4. held' = held \cup N
    BY <1>1, <1>3 DEF SyncPerms
  <1>5. Touched(i, {"prog"}) /\ "st" \notin {"prog"} /\ d.prog = Tail(c.prog)
    BY <1>1, SyncPermsDoes
  <1>6. q.t \in Topics
    BY <1>1, Called DEF AdminRequest
  <1>7. c.prog # <<>> /\ Head(c.prog) = "syncPerms" /\ d.prog = <<>>
    <2>1. c.prog # <<>> /\ Head(c.prog) = "syncPerms"
      BY <1>1, <1>2 DEF At
    <2>2. PICK b, ex, l, p : b = c.body /\ ex = c.row /\ l = c.prog /\ p = Tail(l)
      OBVIOUS
    <2>3. TopicAt(c.body, c.row, c.prog)
      BY <1>1, <1>2, PatchRow
    <2>4. TopicAt(b, ex, l) /\ l # <<>> /\ Head(l) = "syncPerms"
      BY <2>1, <2>2, <2>3
    <2>5. p = <<>>
      BY <2>2, <2>4, TopicPatchMoves
    <2> QED BY <1>5, <2>1, <2>2, <2>5
  <1>8. OneSlug'
    BY <1>2, SlugsSame DEF FollowInv
  <1>9. ASSUME MidPatch(q, c) PROVE MidPatch(q, d)'
    <2>1. Returned(q.t, c) /\ OthersFollow(held, q.t)
      BY <1>7, <1>9 DEF MidPatch, Before
    <2>2. ASSUME NEW h \in held', h[2][1] # Absent PROVE \E o \in Topics : Listed(h, o)
      <3>1. CASE h \in held
        BY <2>1, <2>2, <3>1 DEF OthersFollow, Sound, Others
      <3>2. CASE h \in N
        <4>1. PICK a \in Acts : h \in {<<r, <<c.row.slug, a>>>> : r \in c.row[a]}
          BY <1>3, <3>2
        <4>2. PICK r \in c.row[a] : h = <<r, <<c.row.slug, a>>>>
          BY <4>1
        <4>3. Listed(h, q.t)
          BY <2>1, <4>2 DEF Returned, Listed
        <4> QED BY <1>6, <4>3
      <3> QED BY <1>4, <3>1, <3>2
    <2>3. ASSUME NEW o \in Topics, NEW a \in Acts, NEW r \in roles, topic[o] # Absent, r \in topic[o][a]
          PROVE  <<r, <<topic[o].slug, a>>>> \in held'
      <3>1. CASE o = q.t
        BY <1>3, <1>4, <2>1, <2>3, <3>1 DEF Returned
      <3>2. CASE o # q.t
        BY <1>4, <2>1, <2>3, <3>2 DEF OthersFollow, Complete, Others
      <3> QED BY <3>1, <3>2
    <2>4. Follow'
      BY <1>2, <2>2, <2>3 DEF Follow, Sound, Complete, Listed
    <2> QED BY <1>7, <2>4 DEF MidPatch, Before
  <1> QED BY <1>1, <1>2, <1>5, <1>8, <1>9, PatchStep

LEMMA FollowInit == AdminInit => FollowInv
  <1> SUFFICES ASSUME AdminInit PROVE FollowInv
    OBVIOUS
  <1>1. /\ work \in Workloads /\ topic = work.topics /\ roles = Roles \ work.later
        /\ serving = [i \in DOMAIN work.reqs |-> Idle]
        /\ held = work.global \cup
             {h \in Roles \X (Slugs \X Acts) : \E t \in Topics :
                topic[t] # Absent /\ topic[t].slug = h[2][1] /\ h[1] \in topic[t][h[2][2]]}
    BY DEF AdminInit
  <1>2. work.global \subseteq Roles \X ({Absent} \X STRING) /\ topic \in [Topics -> TopicRow \cup {Absent}]
    BY <1>1, WorkloadAssumption
  <1>3. OneSlug
    BY <1>1, WorkloadAssumption DEF OneSlug
  <1>4. \A i \in Requests : ~Busy(i)
    BY <1>1 DEF Requests, Idle, Busy, InFlight
  <1>5. Sound(held, Topics)
    <2> SUFFICES ASSUME NEW h \in held, h[2][1] # Absent PROVE \E t \in Topics : Listed(h, t)
      BY DEF Sound
    <2>1. h \notin work.global
      BY <1>2
    <2>2. h \in Roles \X (Slugs \X Acts) /\ \E t \in Topics : topic[t] # Absent /\ topic[t].slug = h[2][1] /\ h[1] \in topic[t][h[2][2]]
      BY <1>1, <2>1
    <2> QED BY <2>2 DEF Listed
  <1>6. Complete(held, Topics, roles)
    <2> SUFFICES ASSUME NEW t \in Topics, NEW a \in Acts, NEW r \in roles, topic[t] # Absent, r \in topic[t][a]
                 PROVE  <<r, <<topic[t].slug, a>>>> \in held
      BY DEF Complete
    <2>1. r \in Roles /\ topic[t].slug \in Slugs
      BY <1>1, <1>2, RowForm
    <2>2. PICK h : h = <<r, <<topic[t].slug, a>>>>
      OBVIOUS
    <2>3. h \in Roles \X (Slugs \X Acts) /\ h[1] = r /\ h[2][1] = topic[t].slug /\ h[2][2] = a
      BY <2>1, <2>2
    <2> QED BY <1>1, <2>2, <2>3
  <1>7. Following
    BY <1>4, <1>5, <1>6 DEF Following, Follow
  <1> QED BY <1>3, <1>4, <1>7 DEF FollowInv, Serial

LEMMA RolesPermsFollow ==
  ASSUME AdminShape, FollowInv, NEW i \in Requests, InsertPerms(i) \/ DeletePerms(i)
  PROVE  FollowInv'
  <1>1. CASE InsertPerms(i)
    <2>1. At(i, "insertPerms")
      BY <1>1 DEF InsertPerms
    <2>2. Req(i).op \in {"roleCreate", "rolePatch"}
      BY <2>1, CalledAt DEF Owner
    <2> QED BY <1>1, <2>2, CreatePermsFollow, SaveInserts
  <1>2. CASE DeletePerms(i)
    <2>1. At(i, "deletePerms")
      BY <1>2 DEF DeletePerms
    <2>2. Req(i).op \in {"rolePatch", "roleDelete"}
      BY <2>1, CalledAt DEF Owner
    <2> QED BY <1>2, <2>2, SaveDeletes, DropRoleFollow
  <1> QED BY <1>1, <1>2

LEMMA PatchFollow ==
  ASSUME AdminShape, FollowInv, AdminShape', NEW i \in Requests,
         \/ Existing(i) \/ ClearHome(i) \/ Wipe(i) \/ OldSlug(i) \/ DropOld(i) \/ RenamePerms(i) \/ UpdateTopic(i)
         \/ DropNew(i) \/ SyncPerms(i)
  PROVE  FollowInv'
  BY ExistingFollow, EarlyFollow, OldSlugFollow, DropOldFollow, RenameFollow, UpdateFollow, DropNewFollow,
     SyncPermsFollow, Zenon

LEMMA FollowCalls ==
  ASSUME AdminShape, FollowInv, NEW i \in Requests, Steps(i)
  PROVE  FollowInv'
  <1>1. AdminShape'
    BY ShapeCalls
  <1> QED BY <1>1, EnterFollow, ShowFollow, PatchFollow, InsertTopicFollow, DeleteFollow, BulkFollow, AsideSteps,
             RevokeFollow, CreateFollow, RolesPermsFollow, OldPermsFollow, SaveReads, SaveWrites, DropRoleFollow,
             Zenon DEF Steps

LEMMA FollowNext == AdminShape /\ FollowInv /\ [AdminNext]_adminVars => FollowInv'
  <1> SUFFICES ASSUME AdminShape, FollowInv, [AdminNext]_adminVars PROVE FollowInv'
    OBVIOUS
  <1>1. ASSUME UNCHANGED <<work, serving, roles, held, topic, odd>> PROVE FollowInv'
    <2>1. Requests' = Requests /\ \A j \in Requests : (Busy(j)' <=> Busy(j)) /\ serving'[j] = serving[j]
      BY <1>1 DEF Requests, Busy, InFlight, Changes, Req
    <2> QED BY <1>1, <2>1, FollowAside
  <1>2. CASE UNCHANGED <<work, serving, copy, db, seats, audit, torn, odd>>
    BY <1>1, <1>2 DEF db
  <1>3. CASE \E i \in Requests : Steps(i)
    BY <1>3, FollowCalls
  <1>4. CASE UNCHANGED adminVars
    BY <1>1, <1>4 DEF adminVars
  <1> QED BY <1>2, <1>3, <1>4, NextCalls

LEMMA FollowSuffice == AdminShape /\ FollowInv => PermsFollowTopics
  <1> SUFFICES ASSUME AdminShape, FollowInv, Quiet, odd = {}, NEW t \in Topics, NEW a \in Acts, NEW r \in roles,
                      topic[t] # Absent
               PROVE  r \in topic[t][a] <=> <<r, <<topic[t].slug, a>>>> \in held
    BY DEF PermsFollowTopics
  <1>1. \A i \in Requests : ~Busy(i)
    BY DEF Quiet, Busy, InFlight
  <1>2. Follow /\ OneSlug
    BY <1>1 DEF FollowInv, Following
  <1>3. r \in topic[t][a] => <<r, <<topic[t].slug, a>>>> \in held
    BY <1>2 DEF Follow, Complete
  <1>4. ASSUME <<r, <<topic[t].slug, a>>>> \in held PROVE r \in topic[t][a]
    <2>1. PICK h : h = <<r, <<topic[t].slug, a>>>>
      OBVIOUS
    <2>2. h[1] = r /\ h[2][1] = topic[t].slug /\ h[2][2] = a /\ h \in held
      BY <1>4, <2>1
    <2>3. topic[t].slug # Absent
      BY SlugOfRow
    <2>4. PICK o \in Topics : Listed(h, o)
      BY <1>2, <2>2, <2>3 DEF Follow, Sound
    <2>5. o = t
      BY <1>2, <2>2, <2>4 DEF Listed, OneSlug
    <2> QED BY <2>2, <2>4, <2>5 DEF Listed
  <1> QED BY <1>3, <1>4

(* PermsFollowTopics: unless requests overlapped, failed half-way or          *)
(* bypassed the lists, the rows of roles_permissions and the topics' role     *)
(* lists say the same after every request that writes both.                   *)
THEOREM ListsFollowPerms == AdminSpec => []PermsFollowTopics
  <1>1. AdminInit => AdminShape /\ FollowInv
    BY ShapeInit, FollowInit
  <1>2. AdminShape /\ FollowInv /\ [AdminNext]_adminVars => (AdminShape /\ FollowInv)'
    BY ShapeNext, FollowNext
  <1>3. AdminShape /\ FollowInv => PermsFollowTopics
    BY FollowSuffice
  <1> QED BY <1>1, <1>2, <1>3, PTL DEF AdminSpec

-----------------------------------------------------------------------------
(* The second factor *)

LoginPCs == {"ready", "gate", "expire", "password", "factor", "redeem", "replay", "clear", "mint",
             "done", "over", "dead", "cut"}
RequestFields == {"pc", "gates", "code", "secret", "late"}

SignsIn(p) == Op(p) = "login"
\* A login whose factor, if one was asked for, has been accepted.
Accepted(p) == SignsIn(p) /\ call[p].pc \in {"clear", "mint", "done"}
Entered(p) == SignsIn(p) /\ call[p].pc # "ready"

Forms ==
  /\ DOMAIN call = Calls /\ \A p \in Calls : DOMAIN call[p] = RequestFields
  /\ \A p \in Calls : SignsIn(p) => call[p].pc \in LoginPCs
  /\ clock \in Nat
  /\ DOMAIN codes = {"by", "unused"}
  /\ \A k \in spent : k.until \in Int

\* A code somebody typed: six digits of a step, or one of a set handed out.
Form(c) ==
  /\ IsOtp(c) => c.step \in Int /\ ~ IsRecovery(c)
  /\ IsRecovery(c) /\ c.by \in Calls => call[c.by].pc = "done"
CodesTyped == \A p \in Calls : Entered(p) => Form(call[p].code)

\* A set in force has been issued for good.
SetIssued == codes.by \in Calls => call[codes.by].pc = "done"

\* A recovery code that was accepted is used up, or its set is gone.
UsedUp == \A p \in Calls : Accepted(p) /\ IsRecovery(call[p].code) =>
            call[p].code.by # codes.by \/ call[p].code.slot \notin codes.unused

\* A login that redeems a code, and one between the check of its digits and
\* their SET, within one step.
AtRedeem == \A p \in Calls : SignsIn(p) /\ call[p].pc = "redeem" => IsRecovery(call[p].code)
InTime == \A p \in Calls : SignsIn(p) /\ call[p].pc = "replay" =>
            /\ IsOtp(call[p].code)
            /\ ~ call[p].late => call[p].code.step + 1 >= clock /\ call[p].code.step <= clock + 1

\* Digits that were accepted are remembered as long as they verify.
Known(c) == clock <= c.step + 1 => \E k \in spent : k.code = c /\ k.until > c.step + 1
Kept == \A p \in Calls : Accepted(p) /\ IsOtp(call[p].code) /\ ~ call[p].late => Known(call[p].code)

Spends(p) == IsRecovery(call[p].code) \/ (IsOtp(call[p].code) /\ ~ call[p].late)
EachOnce == \A p, q \in Calls :
              p # q /\ Accepted(p) /\ Accepted(q) /\ Spends(p) /\ Spends(q) => call[p].code # call[q].code

FactorInv == Forms /\ CodesTyped /\ SetIssued /\ UsedUp /\ AtRedeem /\ InTime /\ Kept /\ EachOnce

-----------------------------------------------------------------------------

LEMMA FactorInit ==
  ASSUME Init
  PROVE  FactorInv
<1>1. /\ call = [p \in Calls |-> [pc |-> "ready", gates |-> <<>>, code |-> None, secret |-> None, late |-> FALSE]]
      /\ clock = 1 /\ codes = IF load.on THEN [by |-> Old, unused |-> Slots] ELSE NoCodes
  BY DEF Init
<1>2. \A p \in Calls : call[p].pc = "ready" /\ DOMAIN call[p] = RequestFields
  BY <1>1 DEF RequestFields
<1>3. DOMAIN codes = {"by", "unused"} /\ codes.by \notin Calls
  BY <1>1, LoginAssumption DEF NoCodes, Sources
<1>4. Forms
  BY <1>1, <1>2, <1>3 DEF Init, Forms, LoginPCs
<1>5. QED
  BY <1>2, <1>3, <1>4 DEF FactorInv, CodesTyped, SetIssued, UsedUp, AtRedeem, InTime, Kept, EachOnce, Entered, Accepted

\* A request goes on without its code being judged.
LEMMA GoesOn ==
  ASSUME FactorInv, UNCHANGED <<load, clock, codes, spent>>, NEW p \in Calls, NEW c,
         call' = [call EXCEPT ![p] = c], DOMAIN c = RequestFields, call[p].pc # "done",
         SignsIn(p) => /\ c.pc \in LoginPCs /\ c.pc \notin {"ready", "replay", "redeem"}
                       /\ call[p].pc # "ready" /\ c.code = call[p].code /\ c.late = call[p].late
                       /\ c.pc \in {"clear", "mint", "done"} => call[p].pc \in {"clear", "mint"}
  PROVE  FactorInv'
<1>1. call'[p] = c /\ DOMAIN call' = Calls /\ \A q \in Calls : q # p => call'[q] = call[q]
  BY DEF FactorInv, Forms
<1>2. \A q \in Calls : SignsIn(q)' = SignsIn(q)
  BY DEF SignsIn, Op
<1>3. Forms'
  BY <1>1, <1>2 DEF FactorInv, Forms
<1>4. \A q \in Calls : call[q].pc = "done" => call'[q].pc = "done"
  BY <1>1
<1>5. \A q \in Calls : SignsIn(q) /\ call'[q].pc # "ready" =>
        call[q].pc # "ready" /\ call'[q].code = call[q].code /\ call'[q].late = call[q].late
  BY <1>1
<1>6. \A q \in Calls : Accepted(q)' => Accepted(q)
  BY <1>1, <1>2 DEF Accepted
<1>7. \A q \in Calls : Entered(q)' => Entered(q)
  BY <1>2, <1>5 DEF Entered
<1>8. CodesTyped'
  BY <1>2, <1>4, <1>5, <1>7 DEF FactorInv, CodesTyped, Form, Entered, IsOtp, IsRecovery
<1>9. SetIssued'
  BY <1>4 DEF FactorInv, SetIssued
<1>10. \A q \in Calls : Accepted(q)' => call'[q].code = call[q].code /\ call'[q].late = call[q].late
  BY <1>2, <1>5 DEF Accepted
<1>11. UsedUp' /\ Kept' /\ EachOnce'
  BY <1>6, <1>10 DEF FactorInv, UsedUp, Kept, EachOnce, Known, Spends, IsOtp, IsRecovery
<1>12. InTime' /\ AtRedeem'
  BY <1>1, <1>2 DEF FactorInv, InTime, AtRedeem, IsOtp, IsRecovery
<1>13. QED
  BY <1>3, <1>8, <1>9, <1>11, <1>12 DEF FactorInv

\* A request goes to another place, its fields else as they were.
LEMMA GoesTo ==
  ASSUME FactorInv, UNCHANGED <<load, clock, codes, spent>>, NEW p \in Calls, NEW pc, Goto(p, pc), call[p].pc # "done",
         SignsIn(p) => /\ pc \in LoginPCs /\ pc \notin {"ready", "replay", "redeem"} /\ call[p].pc # "ready"
                       /\ pc \in {"clear", "mint", "done"} => call[p].pc \in {"clear", "mint"}
  PROVE  FactorInv'
<1> DEFINE c == [call[p] EXCEPT !.pc = pc]
<1>1. call' = [call EXCEPT ![p] = c] /\ DOMAIN c = RequestFields /\ c.pc = pc /\ c.code = call[p].code /\ c.late = call[p].late
  BY DEF Goto, FactorInv, Forms, RequestFields
<1> HIDE DEF c
<1>2. QED
  BY <1>1, GoesOn

\* One that keeps a secret on the way; no login does.
LEMMA GoesWith ==
  ASSUME FactorInv, UNCHANGED <<load, clock, codes, spent>>, NEW p \in Calls, NEW pc, NEW s, ~ SignsIn(p), call[p].pc # "done",
         call' = [call EXCEPT ![p].pc = pc, ![p].secret = s]
  PROVE  FactorInv'
<1> DEFINE c == [call[p] EXCEPT !.pc = pc, !.secret = s]
<1>1. call' = [call EXCEPT ![p] = c] /\ DOMAIN c = RequestFields
  BY DEF FactorInv, Forms, RequestFields
<1> HIDE DEF c
<1>2. QED
  BY <1>1, GoesOn

\* The rate limiter.
LEMMA GatesFactor ==
  ASSUME FactorInv, NEW p \in Calls, Incr(p) \/ Expire(p)
  PROVE  FactorInv'
<1>1. UNCHANGED <<load, clock, codes, spent>> /\ call[p].pc \in {"gate", "expire"}
  BY DEF Incr, Expire
<1>2. CASE Goto(p, "expire") \/ Goto(p, "over")
  BY <1>1, <1>2, GoesTo DEF LoginPCs
<1>3. CASE Admit(p)
  <2> DEFINE pc == IF Len(call[p].gates) = 1 THEN AfterGates[Op(p)] ELSE "gate"
             c == [call[p] EXCEPT !.gates = Tail(@), !.pc = pc]
  <2>1. /\ call' = [call EXCEPT ![p] = c] /\ DOMAIN c = RequestFields
        /\ c.pc = pc /\ c.code = call[p].code /\ c.late = call[p].late
    BY <1>3 DEF Admit, FactorInv, Forms, RequestFields
  <2>2. SignsIn(p) => pc \in {"gate", "password"}
    BY DEF SignsIn, AfterGates
  <2> HIDE DEF c, pc
  <2>3. QED
    BY <1>1, <2>1, <2>2, GoesOn DEF LoginPCs
<1>4. QED
  BY <1>2, <1>3 DEF Incr, Expire

LEMMA TypedForm ==
  ASSUME FactorInv, NEW p \in Calls, SignsIn(p), NEW c \in Typed(p)
  PROVE  Form(c)
<1>1. CASE load.ops[p].code = "totp"
  <2>1. PICK s \in Shown, n \in {m \in 0 .. load.steps + 2 : m + 1 >= clock /\ m <= clock + 1} : c = Otp(s, n)
    BY <1>1 DEF Typed
  <2>2. n \in Int /\ DOMAIN c = {"secret", "step"} /\ c.step = n
    BY <2>1 DEF Otp
  <2>3. QED
    BY <2>2 DEF Form, IsOtp, IsRecovery
<1>2. CASE load.ops[p].code = "recovery"
  <2>1. PICK s \in HandedOut, i \in Slots : c = Recovery(s, i)
    BY <1>2 DEF Typed
  <2>2. DOMAIN c = {"by", "slot"} /\ c.by = s
    BY <2>1 DEF Recovery
  <2>3. s \in Calls => call[s].pc = "done"
    BY LoginAssumption DEF HandedOut, Done
  <2>4. QED
    BY <2>2, <2>3 DEF Form, IsOtp, IsRecovery
<1>3. CASE load.ops[p].code \notin {"totp", "recovery"}
  <2>1. c = None
    BY <1>3 DEF Typed
  <2>2. QED
    BY <2>1 DEF Form, IsOtp, IsRecovery
<1>4. QED
  BY <1>1, <1>2, <1>3

\* A login becomes c, whose code, if any, has not been accepted.
LEMMA LoginBecomes ==
  ASSUME FactorInv, UNCHANGED <<load, clock, codes, spent>>, NEW p \in Calls, NEW c, SignsIn(p),
         call' = [call EXCEPT ![p] = c], DOMAIN c = RequestFields, call[p].pc # "done",
         c.pc \in LoginPCs, Form(c.code),
         c.pc \in {"clear", "mint", "done"} => c.code = None,
         c.pc = "redeem" => IsRecovery(c.code),
         c.pc = "replay" => IsOtp(c.code) /\ (~ c.late => c.code.step + 1 >= clock /\ c.code.step <= clock + 1)
  PROVE  FactorInv'
<1>1. call'[p] = c /\ DOMAIN call' = Calls /\ \A q \in Calls : q # p => call'[q] = call[q]
  BY DEF FactorInv, Forms
<1>2. \A q \in Calls : SignsIn(q)' = SignsIn(q)
  BY DEF SignsIn, Op
<1>3. Forms'
  BY <1>1, <1>2 DEF FactorInv, Forms
<1>4. \A q \in Calls : call[q].pc = "done" => call'[q].pc = "done"
  BY <1>1
<1>5. \A q \in Calls : q # p => Entered(q)' = Entered(q) /\ Accepted(q)' = Accepted(q)
  BY <1>1, <1>2 DEF Entered, Accepted
<1>6. CodesTyped'
  BY <1>1, <1>4, <1>5 DEF FactorInv, CodesTyped, Form, IsOtp, IsRecovery
<1>7. SetIssued'
  BY <1>4 DEF FactorInv, SetIssued
<1>8. Accepted(p)' => ~ IsRecovery(call'[p].code) /\ ~ IsOtp(call'[p].code)
  BY <1>1 DEF Accepted, IsRecovery, IsOtp
<1>9. \A q \in Calls : Accepted(q)' /\ (IsRecovery(call'[q].code) \/ IsOtp(call'[q].code)) =>
        Accepted(q) /\ call'[q] = call[q]
  BY <1>1, <1>5, <1>8
<1>10. UsedUp' /\ Kept' /\ EachOnce'
  BY <1>9 DEF FactorInv, UsedUp, Kept, EachOnce, Known, Spends, IsOtp, IsRecovery
<1>11. InTime' /\ AtRedeem'
  BY <1>1, <1>2 DEF FactorInv, InTime, AtRedeem, IsOtp, IsRecovery
<1>12. QED
  BY <1>3, <1>6, <1>7, <1>10, <1>11 DEF FactorInv

LEMMA StartFactor ==
  ASSUME FactorInv, NEW p \in Calls, NEW c, Start(p, c), SignsIn(p) => c \in Typed(p)
  PROVE  FactorInv'
<1> DEFINE d == [call[p] EXCEPT !.pc = FirstStep[Op(p)], !.gates = Gates[Op(p)], !.code = c]
<1>1. /\ call' = [call EXCEPT ![p] = d] /\ DOMAIN d = RequestFields
      /\ d.pc = FirstStep[Op(p)] /\ d.code = c
      /\ call[p].pc = "ready" /\ UNCHANGED <<load, clock, codes, spent>>
  BY DEF Start, FactorInv, Forms, RequestFields, stored
<1> HIDE DEF d
<1>2. CASE SignsIn(p)
  <2>1. d.pc = "gate"
    BY <1>1, <1>2 DEF SignsIn, FirstStep
  <2>2. Form(c)
    BY <1>2, TypedForm
  <2>3. QED
    BY <1>1, <1>2, <2>1, <2>2, LoginBecomes DEF LoginPCs
<1>3. CASE ~ SignsIn(p)
  BY <1>1, <1>3, GoesOn
<1>4. QED
  BY <1>2, <1>3

LEMMA LoginFactorFactor ==
  ASSUME FactorInv, NEW p \in Calls, LoginFactor(p)
  PROVE  FactorInv'
<1>1. call[p].pc = "factor" /\ UNCHANGED <<load, clock, codes, spent>>
  BY DEF LoginFactor, stored
<1>2. CASE ~ SignsIn(p)
  <2>1. \E c : call' = [call EXCEPT ![p] = c] /\ DOMAIN c = RequestFields
    BY DEF LoginFactor, Goto, FactorInv, Forms, RequestFields
  <2>2. QED
    BY <1>1, <1>2, <2>1, GoesOn
<1>3. CASE SignsIn(p)
  <2>1. Form(call[p].code)
    BY <1>1, <1>3 DEF FactorInv, CodesTyped, Entered
  <2>2. CASE call' = [call EXCEPT ![p].pc = "clear", ![p].code = None]
    <3> DEFINE c == [call[p] EXCEPT !.pc = "clear", !.code = None]
    <3>1. call' = [call EXCEPT ![p] = c] /\ DOMAIN c = RequestFields /\ c.pc = "clear" /\ c.code = None
      BY <2>2 DEF FactorInv, Forms, RequestFields
    <3>2. Form(None)
      BY DEF Form, IsOtp, IsRecovery
    <3> HIDE DEF c
    <3>3. QED
      BY <1>1, <1>3, <3>1, <3>2, LoginBecomes DEF LoginPCs
  <2>3. ASSUME NEW pc, Goto(p, pc), pc \in {"redeem", "over", "replay"},
               pc = "redeem" => IsRecovery(call[p].code), pc = "replay" => Verifies(totp.secret, call[p].code)
        PROVE  FactorInv'
    <3> DEFINE c == [call[p] EXCEPT !.pc = pc]
    <3>1. call' = [call EXCEPT ![p] = c] /\ DOMAIN c = RequestFields /\ c.pc = pc /\ c.code = call[p].code
      BY <2>3 DEF Goto, FactorInv, Forms, RequestFields
    <3> HIDE DEF c
    <3>2. QED
      BY <1>1, <1>3, <2>1, <2>3, <3>1, LoginBecomes DEF LoginPCs, Verifies
  <2>4. QED
    BY <2>2, <2>3 DEF LoginFactor
<1>4. QED
  BY <1>2, <1>3

\* A recovery code is used up, or refused.
LEMMA RedeemFactor ==
  ASSUME FactorInv, NEW p \in Calls, LoginRedeem(p)
  PROVE  FactorInv'
<1> DEFINE c == call[p].code
           valid == codes.by = c.by /\ c.slot \in codes.unused
<1>1. /\ call[p].pc = "redeem" /\ UNCHANGED <<load, clock, spent>>
      /\ codes' = IF valid THEN [codes EXCEPT !.unused = @ \ {c.slot}] ELSE codes
      /\ Goto(p, IF valid THEN "clear" ELSE "over")
  BY DEF LoginRedeem
<1>2. CASE ~ valid
  BY <1>1, <1>2, GoesTo DEF LoginPCs
<1>3. CASE valid
  <2>1. /\ codes'.by = codes.by /\ codes'.unused = codes.unused \ {c.slot} /\ DOMAIN codes' = {"by", "unused"}
    BY <1>1, <1>3 DEF FactorInv, Forms
  <2>2. /\ call'[p].pc = "clear" /\ call'[p].code = c /\ call'[p].late = call[p].late
        /\ DOMAIN call' = Calls /\ DOMAIN call'[p] = RequestFields /\ \A q \in Calls : q # p => call'[q] = call[q]
    BY <1>1, <1>3 DEF Goto, FactorInv, Forms, RequestFields
  <2> HIDE DEF valid
  <2>3. \A q \in Calls : SignsIn(q)' = SignsIn(q)
    BY <1>1 DEF SignsIn, Op
  <2>4. Forms'
    BY <1>1, <2>1, <2>2, <2>3 DEF FactorInv, Forms, LoginPCs
  <2>5. \A q \in Calls : call[q].pc = "done" => call'[q].pc = "done"
    BY <1>1, <2>2
  <2>6. \A q \in Calls : call'[q].code = call[q].code /\ call'[q].late = call[q].late /\ Entered(q)' = Entered(q)
    BY <1>1, <2>2, <2>3 DEF Entered
  <2>7. \A q \in Calls : q # p => Accepted(q)' = Accepted(q)
    BY <2>2, <2>3 DEF Accepted
  <2>8. CodesTyped' /\ SetIssued'
    BY <2>1, <2>5, <2>6 DEF FactorInv, CodesTyped, SetIssued, Form, IsOtp, IsRecovery
  <2>9. AtRedeem' /\ InTime'
    BY <1>1, <2>2, <2>3 DEF FactorInv, AtRedeem, InTime, IsOtp, IsRecovery
  <2>10. SignsIn(p) => IsRecovery(c) /\ ~ IsOtp(c)
    BY <1>1 DEF FactorInv, AtRedeem, CodesTyped, Entered, Form
  <2>11. codes.by = c.by /\ c.slot \in codes.unused
    BY <1>3 DEF valid
  <2>12. UsedUp'
    BY <2>1, <2>6, <2>7, <2>11 DEF FactorInv, UsedUp, IsRecovery
  <2>13. Kept'
    <3> SUFFICES ASSUME NEW q \in Calls, NEW e, e = call'[q].code, Accepted(q)', IsOtp(e), ~ call'[q].late
                 PROVE  Known(e)'
      BY DEF Kept, Known, IsOtp
    <3>1. q # p
      BY <2>2, <2>3, <2>10 DEF Accepted
    <3>2. QED
      BY <1>1, <2>6, <2>7, <3>1 DEF FactorInv, Kept, Known
  <2>14. \A q \in Calls : q # p /\ Accepted(q) => call[q].code # c \/ ~ SignsIn(p)
    BY <2>10, <2>11 DEF FactorInv, UsedUp
  <2>15. EachOnce'
    <3> SUFFICES ASSUME NEW q \in Calls, NEW r \in Calls, q # r, Accepted(q)', Accepted(r)', Spends(q)', Spends(r)'
                 PROVE  call'[q].code # call'[r].code
      BY DEF EachOnce
    <3>1. Spends(q) /\ Spends(r)
      BY <2>6 DEF Spends, IsOtp, IsRecovery
    <3>2. CASE q # p /\ r # p
      BY <2>6, <2>7, <3>1, <3>2 DEF FactorInv, EachOnce
    <3>3. CASE q = p \/ r = p
      BY <2>3, <2>6, <2>7, <2>14, <3>3 DEF Accepted
    <3>4. QED
      BY <3>2, <3>3
  <2>16. QED
    BY <2>4, <2>8, <2>9, <2>12, <2>13, <2>15 DEF FactorInv
<1>4. QED
  BY <1>2, <1>3

\* Digits are remembered, or found.
LEMMA ReplayFactor ==
  ASSUME FactorInv, NEW p \in Calls, LoginReplay(p)
  PROVE  FactorInv'
<1> DEFINE c == call[p].code
           k == [code |-> c, until |-> clock + 3]
<1>1. call[p].pc = "replay" /\ UNCHANGED <<load, clock, codes>>
  BY DEF LoginReplay
<1>2. CASE Remembered(c)
  <2>1. Goto(p, "over") /\ UNCHANGED spent
    BY <1>2 DEF LoginReplay
  <2>2. QED
    BY <1>1, <2>1, GoesTo DEF LoginPCs
<1>3. CASE ~ Remembered(c)
  <2>1. Goto(p, "clear") /\ spent' = spent \cup {k}
    BY <1>3 DEF LoginReplay
  <2>2. /\ call'[p].pc = "clear" /\ call'[p].code = c /\ call'[p].late = call[p].late
        /\ DOMAIN call' = Calls /\ DOMAIN call'[p] = RequestFields /\ \A q \in Calls : q # p => call'[q] = call[q]
    BY <2>1 DEF Goto, FactorInv, Forms, RequestFields
  <2>3. k.code = c /\ k.until = clock + 3 /\ k.until \in Int
    BY DEF FactorInv, Forms
  <2> HIDE DEF k
  <2>4. \A q \in Calls : SignsIn(q)' = SignsIn(q)
    BY <1>1 DEF SignsIn, Op
  <2>5. Forms'
    BY <1>1, <2>1, <2>2, <2>3, <2>4 DEF FactorInv, Forms, LoginPCs
  <2>6. \A q \in Calls : call[q].pc = "done" => call'[q].pc = "done"
    BY <1>1, <2>2
  <2>7. \A q \in Calls : call'[q].code = call[q].code /\ call'[q].late = call[q].late /\ Entered(q)' = Entered(q)
    BY <1>1, <2>2, <2>4 DEF Entered
  <2>8. \A q \in Calls : q # p => Accepted(q)' = Accepted(q)
    BY <2>2, <2>4 DEF Accepted
  <2>9. CodesTyped' /\ SetIssued'
    BY <1>1, <2>6, <2>7 DEF FactorInv, CodesTyped, SetIssued, Form, IsOtp, IsRecovery
  <2>10. AtRedeem' /\ InTime'
    BY <1>1, <2>2, <2>4 DEF FactorInv, AtRedeem, InTime, IsOtp, IsRecovery
  <2>11. SignsIn(p) => /\ IsOtp(c) /\ ~ IsRecovery(c) /\ c.step \in Int
                       /\ ~ call[p].late => c.step + 1 >= clock /\ c.step <= clock + 1
    BY <1>1 DEF FactorInv, InTime, CodesTyped, Entered, Form
  <2>12. UsedUp'
    <3>1. \A q \in Calls : Accepted(q)' /\ IsRecovery(call'[q].code) => q # p
      BY <2>2, <2>4, <2>11 DEF Accepted
    <3>2. QED
      BY <1>1, <2>7, <2>8, <3>1 DEF FactorInv, UsedUp, IsRecovery
  <2>13. Kept'
    <3> SUFFICES ASSUME NEW q \in Calls, NEW e, e = call'[q].code, Accepted(q)', IsOtp(e), ~ call'[q].late
                 PROVE  Known(e)'
      BY DEF Kept, Known, IsOtp
    <3>1. CASE q # p
      BY <1>1, <2>1, <2>7, <2>8, <3>1 DEF FactorInv, Kept, Known
    <3>2. CASE q = p
      <4>1. SignsIn(p) /\ ~ call[p].late
        BY <2>4, <2>7, <3>2 DEF Accepted
      <4>2. clock \in Nat
        BY DEF FactorInv, Forms
      <4>3. k.until > c.step + 1
        BY <2>3, <2>11, <4>1, <4>2
      <4>4. k \in spent'
        BY <2>1
      <4>5. QED
        BY <2>2, <2>3, <3>2, <4>3, <4>4 DEF Known
    <3>3. QED
      BY <3>1, <3>2
  <2>14. ASSUME NEW q \in Calls, q # p, Accepted(q), Spends(q), SignsIn(p), Spends(p)
         PROVE  call[q].code # c
    <3> SUFFICES ASSUME call[q].code = c PROVE FALSE
      OBVIOUS
    <3>1. IsOtp(c) /\ ~ IsRecovery(c) /\ ~ call[p].late /\ ~ call[q].late
      BY <2>11, <2>14 DEF Spends
    <3>2. Known(c)
      BY <2>14, <3>1 DEF FactorInv, Kept
    <3>3. clock <= c.step + 1
      BY <2>11, <2>14, <3>1 DEF FactorInv, Forms
    <3>4. QED
      BY <1>3, <3>2, <3>3 DEF Known, Remembered
  <2>15. EachOnce'
    <3> SUFFICES ASSUME NEW q \in Calls, NEW r \in Calls, q # r, Accepted(q)', Accepted(r)', Spends(q)', Spends(r)'
                 PROVE  call'[q].code # call'[r].code
      BY DEF EachOnce
    <3>1. Spends(q) /\ Spends(r) /\ SignsIn(q) /\ SignsIn(r)
      BY <2>4, <2>7 DEF Spends, IsOtp, IsRecovery, Accepted
    <3>2. CASE q # p /\ r # p
      BY <2>7, <2>8, <3>1, <3>2 DEF FactorInv, EachOnce
    <3>3. CASE q = p
      BY <2>7, <2>8, <2>14, <3>1, <3>3
    <3>4. CASE r = p
      BY <2>7, <2>8, <2>14, <3>1, <3>4
    <3>5. QED
      BY <3>2, <3>3, <3>4
  <2>16. QED
    BY <2>5, <2>9, <2>10, <2>12, <2>13, <2>15 DEF FactorInv
<1>4. QED
  BY <1>2, <1>3

\* The 2FA panel replaces or deletes the set of recovery codes.
LEMMA SetReplaced ==
  ASSUME FactorInv, NEW p \in Calls, ConfirmIssue(p) \/ DisableDrop(p)
  PROVE  FactorInv'
<1>1. /\ UNCHANGED <<load, clock, spent>> /\ Goto(p, "done") /\ call[p].pc \in {"issue", "drop"}
      /\ codes' = [by |-> p, unused |-> Slots] \/ codes' = [by |-> None, unused |-> {}]
  BY DEF ConfirmIssue, DisableDrop, NoCodes
<1>2. /\ call'[p].pc = "done" /\ call'[p].code = call[p].code /\ call'[p].late = call[p].late
      /\ DOMAIN call' = Calls /\ DOMAIN call'[p] = RequestFields /\ \A q \in Calls : q # p => call'[q] = call[q]
  BY <1>1 DEF Goto, FactorInv, Forms, RequestFields
<1>3. ~ SignsIn(p) /\ \A q \in Calls : SignsIn(q)' = SignsIn(q)
  BY <1>1 DEF SignsIn, Op, FactorInv, Forms, LoginPCs
<1>4. Forms'
  BY <1>1, <1>2, <1>3 DEF FactorInv, Forms
<1>5. \A q \in Calls : call[q].pc = "done" => call'[q].pc = "done"
  BY <1>1, <1>2
<1>6. \A q \in Calls : SignsIn(q) => q # p /\ call'[q] = call[q]
  BY <1>2, <1>3
<1>7. \A q \in Calls : (Accepted(q)' => Accepted(q) /\ call'[q] = call[q]) /\ (Entered(q)' => Entered(q) /\ call'[q] = call[q])
  BY <1>3, <1>6 DEF Accepted, Entered
<1>8. CodesTyped'
  BY <1>5, <1>7 DEF FactorInv, CodesTyped, Form, IsOtp, IsRecovery
<1>9. SetIssued'
  BY <1>1, <1>2, LoginAssumption DEF SetIssued, Sources
<1>10. UsedUp'
  <2> SUFFICES ASSUME NEW q \in Calls, Accepted(q)', IsRecovery(call'[q].code)
               PROVE  call'[q].code.by # codes'.by \/ call'[q].code.slot \notin codes'.unused
    BY DEF UsedUp, IsRecovery
  <2>1. Accepted(q) /\ call'[q] = call[q]
    BY <1>7
  <2>2. call[q].code.by # p
    <3>1. Form(call[q].code) /\ IsRecovery(call[q].code)
      BY <2>1 DEF FactorInv, CodesTyped, Accepted, Entered, IsRecovery
    <3>2. QED
      BY <1>1, <3>1 DEF Form
  <2>3. QED
    BY <1>1, <2>1, <2>2
<1>11. AtRedeem' /\ InTime'
  BY <1>1, <1>3, <1>6 DEF FactorInv, AtRedeem, InTime, IsOtp, IsRecovery
<1>12. Kept' /\ EachOnce'
  BY <1>1, <1>7 DEF FactorInv, Kept, EachOnce, Known, Spends, IsOtp, IsRecovery
<1>13. QED
  BY <1>4, <1>8, <1>9, <1>10, <1>11, <1>12 DEF FactorInv

\* The clock steps on.
LEMMA TickFactor ==
  ASSUME FactorInv, Tick
  PROVE  FactorInv'
<1>1. /\ UNCHANGED <<load, codes>> /\ clock' = clock + 1
      /\ spent' = {k \in spent : k.until > clock + 1}
      /\ call' = [p \in Calls |-> [call[p] EXCEPT !.late = @ \/ call[p].pc = "replay"]]
  BY DEF Tick
<1>2. DOMAIN call' = Calls /\ \A p \in Calls : DOMAIN call'[p] = DOMAIN call[p]
  BY <1>1
<1>3. \A p \in Calls : /\ call'[p].pc = call[p].pc /\ call'[p].code = call[p].code
                       /\ call[p].pc # "replay" => (call'[p].late <=> call[p].late)
                       /\ call[p].pc = "replay" => call'[p].late
  <2> SUFFICES ASSUME NEW p \in Calls
               PROVE  /\ call'[p].pc = call[p].pc /\ call'[p].code = call[p].code
                      /\ call[p].pc # "replay" => (call'[p].late <=> call[p].late)
                      /\ call[p].pc = "replay" => call'[p].late
    OBVIOUS
  <2>1. call'[p] = [call[p] EXCEPT !.late = @ \/ call[p].pc = "replay"]
    BY <1>1
  <2>2. {"pc", "code", "late"} \subseteq DOMAIN call[p]
    BY DEF FactorInv, Forms, RequestFields
  <2>3. call'[p].pc = call[p].pc /\ call'[p].code = call[p].code
    BY <2>1, <2>2
  <2>4. call'[p].late = (call[p].late \/ call[p].pc = "replay")
    BY <2>1, <2>2, Zenon
  <2>5. QED
    BY <2>3, <2>4, Zenon
<1>4. \A p \in Calls : /\ SignsIn(p)' = SignsIn(p) /\ Entered(p)' = Entered(p) /\ Accepted(p)' = Accepted(p)
                       /\ Accepted(p) => (call'[p].late <=> call[p].late)
  BY <1>1, <1>3 DEF SignsIn, Op, Entered, Accepted
<1>5. clock \in Nat
  BY DEF FactorInv, Forms
<1>6. Forms'
  <2>1. clock' \in Nat
    BY <1>1, <1>5
  <2>2. QED
    BY <1>1, <1>2, <1>3, <1>4, <2>1 DEF FactorInv, Forms
<1>7. CodesTyped' /\ SetIssued' /\ AtRedeem'
  <2>1. \A p \in Calls : Form(call[p].code) => Form(call[p].code)'
    BY <1>3 DEF Form, IsOtp, IsRecovery
  <2>2. CodesTyped'
    BY <1>4, <2>1 DEF FactorInv, CodesTyped
  <2>3. SetIssued'
    BY <1>1, <1>3 DEF FactorInv, SetIssued
  <2>4. AtRedeem'
    BY <1>3, <1>4 DEF FactorInv, AtRedeem, IsRecovery
  <2>5. QED
    BY <2>2, <2>3, <2>4
<1>8. UsedUp' /\ EachOnce'
  <2>1. UsedUp'
    BY <1>1, <1>3, <1>4 DEF FactorInv, UsedUp, IsRecovery
  <2>2. \A p \in Calls : Accepted(p) /\ Spends(p)' => Spends(p)
    BY <1>3, <1>4 DEF Spends, IsOtp, IsRecovery
  <2>3. EachOnce'
    BY <1>3, <1>4, <2>2 DEF FactorInv, EachOnce
  <2>4. QED
    BY <2>1, <2>3
<1>9. InTime'
  BY <1>3, <1>4 DEF FactorInv, InTime, IsOtp
<1>10. Kept'
  <2> SUFFICES ASSUME NEW q \in Calls, NEW e, e = call'[q].code, Accepted(q)', IsOtp(e), ~ call'[q].late
               PROVE  Known(e)'
    BY DEF Kept, Known, IsOtp
  <2>1. Known(e) /\ Form(e)
    BY <1>3, <1>4 DEF FactorInv, Kept, CodesTyped, Entered, Accepted
  <2>2. e.step \in Int
    BY <2>1 DEF Form
  <2> SUFFICES ASSUME clock' <= e.step + 1
               PROVE  \E k \in spent' : k.code = e /\ k.until > e.step + 1
    BY DEF Known
  <2>3. clock <= e.step + 1
    BY <1>1, <1>5, <2>2
  <2>4. PICK k \in spent : k.code = e /\ k.until > e.step + 1
    BY <2>1, <2>3 DEF Known
  <2>5. k.until > clock + 1
    BY <1>1, <1>5, <2>2, <2>4 DEF FactorInv, Forms
  <2>6. QED
    BY <1>1, <2>4, <2>5
<1>11. QED
  BY <1>6, <1>7, <1>8, <1>9, <1>10 DEF FactorInv

LEMMA ProceedFactor ==
  ASSUME FactorInv, NEW p \in Calls, Proceed(p)
  PROVE  FactorInv'
<1>1. CASE Incr(p) \/ Expire(p)
  BY <1>1, GatesFactor
<1>2. CASE LoginFactor(p)
  BY <1>2, LoginFactorFactor
<1>3. CASE LoginRedeem(p)
  BY <1>3, RedeemFactor
<1>4. CASE LoginReplay(p)
  BY <1>4, ReplayFactor
<1>5. CASE ConfirmIssue(p) \/ DisableDrop(p)
  BY <1>5, SetReplaced
<1>6. CASE LoginPassword(p)
  BY <1>6, GoesTo DEF LoginPassword, stored, LoginPCs
<1>7. CASE LoginClear(p)
  BY <1>7, GoesTo DEF LoginClear, LoginPCs
<1>8. CASE LoginMint(p)
  BY <1>8, GoesTo DEF LoginMint, stored, LoginPCs
<1>9. CASE EnrolRead(p)
  <2>1. ~ SignsIn(p) /\ call[p].pc = "row" /\ UNCHANGED <<load, clock, codes, spent>>
    BY <1>9 DEF EnrolRead, SignsIn, stored
  <2>2. QED
    BY <1>9, <2>1, GoesTo, GoesWith DEF EnrolRead
<1>10. CASE EnrolUpsert(p)
  <2>1. ~ SignsIn(p) /\ call[p].pc = "upsert"
    BY <1>10 DEF EnrolUpsert, FactorInv, Forms, LoginPCs
  <2>2. QED
    BY <1>10, <2>1, GoesWith DEF EnrolUpsert
<1>11. CASE ConfirmRead(p)
  <2>1. ~ SignsIn(p) /\ call[p].pc = "row" /\ UNCHANGED <<load, clock, codes, spent>>
    BY <1>11 DEF ConfirmRead, SignsIn, stored
  <2>2. QED
    BY <1>11, <2>1, GoesTo, GoesWith DEF ConfirmRead
<1>12. CASE ConfirmUpdate(p)
  <2>1. ~ SignsIn(p) /\ call[p].pc = "confirm"
    BY <1>12 DEF ConfirmUpdate, FactorInv, Forms, LoginPCs
  <2>2. QED
    BY <1>12, <2>1, GoesTo DEF ConfirmUpdate
<1>13. CASE DisableRead(p)
  <2>1. ~ SignsIn(p) /\ call[p].pc = "row" /\ UNCHANGED <<load, clock, codes, spent>>
    BY <1>13 DEF DisableRead, SignsIn, stored
  <2>2. QED
    BY <1>13, <2>1, GoesTo, GoesWith DEF DisableRead
<1>14. CASE DisableCheck(p)
  <2>1. ~ SignsIn(p) /\ call[p].pc = "check" /\ UNCHANGED <<load, clock, codes, spent>>
    BY <1>14 DEF DisableCheck, FactorInv, Forms, LoginPCs, stored
  <2>2. QED
    BY <1>14, <2>1, GoesTo DEF DisableCheck
<1>15. QED
  BY <1>1, <1>2, <1>3, <1>4, <1>5, <1>6, <1>7, <1>8, <1>9, <1>10, <1>11, <1>12, <1>13, <1>14 DEF Proceed

\* Nothing of a login moves.
LEMMA FactorStays ==
  ASSUME FactorInv, UNCHANGED <<load, call, clock, codes, spent>>
  PROVE  FactorInv'
BY DEF FactorInv, Forms, CodesTyped, SetIssued, UsedUp, AtRedeem, InTime, Kept, EachOnce, Entered, Accepted,
       SignsIn, Op, Form, Known, Spends, IsOtp, IsRecovery

LEMMA LoginStep ==
  ASSUME FactorInv, Next
  PROVE  FactorInv'
<1>1. CASE \E p \in Calls : Arrive(p)
  <2>1. PICK p \in Calls : Arrive(p)
    BY <1>1
  <2>2. PICK c \in Typed(p) : Start(p, c)
    BY <2>1 DEF Arrive
  <2>3. QED
    BY <2>2, StartFactor
<1>2. CASE \E p \in Calls : Proceed(p)
  BY <1>2, ProceedFactor
<1>3. CASE \E p \in Calls : Die(p)
  <2>1. PICK p \in Calls : Die(p)
    BY <1>3
  <2>2. UNCHANGED <<load, clock, codes, spent>> /\ call[p].pc \notin {"ready", "done"}
    BY <2>1 DEF Die, stored, Flying, Finished
  <2>3. QED
    BY <2>1, <2>2, GoesTo DEF Die, LoginPCs
<1>4. CASE \E b \in Buckets : Lapse(b)
  BY <1>4, FactorStays DEF Lapse
<1>5. CASE Tick
  BY <1>5, TickFactor
<1>6. QED
  BY <1>1, <1>2, <1>3, <1>4, <1>5 DEF Next

\* E-mail linking: no request of it is a login.
LEMMA LinkFactor ==
  ASSUME FactorInv, NEW p \in Calls, LinkStep(p)
  PROVE  FactorInv'
<1>1. call[p].pc \in {"free", "store", "mail", "get", "link", "linkLast", "forgetLast"}
  BY DEF LinkStep, SendFree, SendStore, SendMail, VerifyGet, VerifyLink, VerifyForget
<1>2. ~ SignsIn(p) /\ call[p].pc # "done"
  BY <1>1 DEF FactorInv, Forms, LoginPCs
<1>3. UNCHANGED <<load, clock, codes, spent>>
  BY DEF LinkStep, SendFree, SendStore, SendMail, VerifyGet, VerifyLink, VerifyForget, stored
<1>4. \/ \E pc : Goto(p, pc)
      \/ \E pc, s : call' = [call EXCEPT ![p].pc = pc, ![p].secret = s]
  BY DEF LinkStep, SendFree, SendStore, SendMail, VerifyGet, VerifyLink, VerifyForget
<1>5. QED
  BY <1>2, <1>3, <1>4, GoesTo, GoesWith

LEMMA AccountStep ==
  ASSUME FactorInv, AccountNext
  PROVE  FactorInv'
<1>1. CASE Next
  BY <1>1, LoginStep
<1>2. CASE \E p \in Calls : SendArrive(p) \/ VerifyArrive(p)
  <2>1. PICK p \in Calls : SendArrive(p) \/ VerifyArrive(p)
    BY <1>2
  <2>2. ~ SignsIn(p) /\ \E c : Start(p, c)
    BY <2>1 DEF SendArrive, VerifyArrive, SignsIn
  <2>3. QED
    BY <2>2, StartFactor
<1>3. CASE \E p \in Calls : LinkStep(p)
  BY <1>3, LinkFactor
<1>4. CASE UNCHANGED vars
  BY <1>4, FactorStays DEF vars
<1>5. QED
  BY <1>1, <1>2, <1>3, <1>4 DEF AccountNext, Claim, OtpLapses

\* Each accepted once: no two sessions opened by one factor.
LEMMA OnceSays ==
  ASSUME FactorInv
  PROVE  FactorSpentOnce
<1>1. \A p \in Calls : Minted(p) => Accepted(p)
  BY DEF Minted, Done, Accepted, SignsIn
<1>2. RecoveryOnce
  BY <1>1 DEF FactorInv, EachOnce, Spends, RecoveryOnce
<1>3. CodeOnce
  BY <1>1 DEF FactorInv, EachOnce, Spends, CodeOnce
<1>4. QED
  BY <1>2, <1>3 DEF FactorSpentOnce

\* However many logins present it at once, however the 2FA panel is used
\* meanwhile and whatever requests die, a recovery code or the digits of an
\* authenticator open one session.
THEOREM FactorOpensOnce == AccountSpec => []FactorSpentOnce
<1>1. AccountInit => FactorInv
  BY FactorInit DEF AccountInit
<1>2. FactorInv /\ [AccountNext]_accountVars => FactorInv'
  BY AccountStep, FactorStays DEF accountVars, vars
<1>3. FactorInv => FactorSpentOnce
  BY OnceSays
<1>4. QED
  BY <1>1, <1>2, <1>3, PTL DEF AccountSpec

-----------------------------------------------------------------------------
(* The passkey button *)

Gets == Button!Gets
OnItsWay(g) == get[g].pc \in {"sent", "stored"}
Attempt == {"pc", "get", "opts", "sign", "sid", "chal", "aged"}
Signed == {"post", "read", "forget", "verify", "count"}

ButtonForms ==
  /\ DOMAIN get = Gets /\ \A g \in Gets : DOMAIN get[g] = {"by", "pc"}
  /\ DOMAIN try = Attempt
  /\ signs \in Nat /\ (counter # None => counter \in Nat)

\* A GET under way is the one the attempt waits for, or the one prefetch.
Answering ==
  /\ \A g \in Gets : get[g].by = "none" => get[g].pc = "none"
  /\ \A g \in Gets : OnItsWay(g) => get[g].by \in {"click", "prefetch"}
  /\ \A g \in Gets : OnItsWay(g) /\ get[g].by = "click" => try.pc = "fetch" /\ try.get = g
  /\ \A g \in Gets : OnItsWay(g) /\ get[g].by = "prefetch" => busy
  /\ \A g, h \in Gets : OnItsWay(g) /\ OnItsWay(h) /\ get[g].by = "prefetch" /\ get[h].by = "prefetch" => g = h
  /\ \A g \in Gets : get[g].pc = "stored" => g \in live

\* A challenge that a cookie names, or a request carries, is no longer in the making.
Answered ==
  /\ cookie # None => cookie \in Gets /\ get[cookie].pc = "done"
  /\ try.pc = "read" => try.sid \in Gets /\ get[try.sid].pc = "done"
  /\ try.pc = "forget" => try.chal \in Gets /\ get[try.chal].pc = "done"

\* Nothing is fetched behind an attempt, whose options and cookie belong together.
Together ==
  ~ crossed =>
    /\ try.pc # "idle" => ~ busy /\ cached = None
    /\ cached # None => cached \in live \cap Gets /\ cookie = cached
    /\ try.pc \in {"sheet", "post"} => try.opts \in Gets /\ cookie = try.opts
    /\ try.pc = "read" => try.sid = try.opts
    /\ try.pc \in {"sheet", "post", "read"} => try.opts \in live \/ try.aged
    /\ try.pc \in {"forget", "verify"} => try.chal = try.opts

\* The authenticator's counter is ahead of the one on file.
Ahead ==
  /\ counter # None => counter <= signs
  /\ try.pc \in Signed => try.sign = signs /\ (counter # None => try.sign > counter)

ButtonInv == ButtonForms /\ Answering /\ Answered /\ Together /\ Ahead /\ ChallengeMatches

LEMMA ButtonInit ==
  ASSUME Button!Init
  PROVE  ButtonInv
<1>1. /\ get = [g \in Gets |-> [by |-> "none", pc |-> "none"]]
      /\ try = [pc |-> "idle", get |-> 0, opts |-> 0, sign |-> 0, sid |-> 0, chal |-> 0, aged |-> FALSE]
      /\ cached = None /\ cookie = None /\ counter = 0 /\ signs = 0 /\ results = {}
  BY DEF Button!Init, Button!NoTry, Gets
<1>2. try.pc = "idle" /\ DOMAIN try = Attempt
  BY <1>1 DEF Attempt
<1>3. \A g \in Gets : get[g].by = "none" /\ get[g].pc = "none" /\ DOMAIN get[g] = {"by", "pc"}
  BY <1>1
<1>4. ButtonForms
  BY <1>1, <1>2, <1>3 DEF ButtonForms
<1>5. QED
  BY <1>1, <1>2, <1>3, <1>4 DEF ButtonInv, Answering, Answered, Together, Ahead, ChallengeMatches, Button!ChallengeMatches, OnItsWay, Signed

\* A step of the attempt that moves no GET.
LEMMA TryGoesOn ==
  ASSUME ButtonInv, UNCHANGED <<get, busy>>, DOMAIN try' = Attempt, try.pc # "fetch",
         \A g \in Gets : get[g].pc = "stored" => g \in live',
         signs' \in Nat, counter' # None => counter' \in Nat
  PROVE  ButtonForms' /\ Answering'
<1>1. ButtonForms'
  BY DEF ButtonInv, ButtonForms, Gets, Button!Gets
<1>2. \A g \in Gets : OnItsWay(g) => get[g].by # "click"
  BY DEF ButtonInv, Answering
<1>3. QED
  BY <1>1, <1>2 DEF ButtonInv, Answering, OnItsWay

\* One that is over, and turned down only for its age or for a removed key.
LEMMA TryEnds ==
  ASSUME ButtonInv, UNCHANGED <<get, live, busy, cached, signs, crossed>>, try.pc # "fetch", NEW r, Button!Finish(r),
         counter' = counter \/ counter' = try.sign, try.pc \in Signed \/ UNCHANGED counter,
         try.pc # "idle", cookie' \in {cookie, None}, r = "mismatch" => crossed
  PROVE  ButtonInv'
<1>1. try' = [pc |-> "idle", get |-> 0, opts |-> 0, sign |-> 0, sid |-> 0, chal |-> 0, aged |-> FALSE]
  BY DEF Button!Finish, Button!NoTry
<1>2. try'.pc = "idle" /\ DOMAIN try' = Attempt
  BY <1>1 DEF Attempt
<1>3. counter' # None => counter' \in Nat /\ counter' <= signs
  BY DEF ButtonInv, ButtonForms, Ahead
<1>4. ButtonForms' /\ Answering'
  BY <1>2, <1>3, TryGoesOn DEF ButtonInv, ButtonForms, Answering
<1>5. Together' /\ Answered'
  BY <1>2 DEF ButtonInv, Together, Answered
<1>6. Ahead'
  BY <1>2, <1>3 DEF Ahead, Signed
<1>7. ChallengeMatches'
  BY DEF ButtonInv, ChallengeMatches, Button!ChallengeMatches, Button!Finish
<1>8. QED
  BY <1>4, <1>5, <1>6, <1>7 DEF ButtonInv

LEMMA PostStep ==
  ASSUME ButtonInv, Button!Post
  PROVE  ButtonInv'
<1>1. try.pc = "post" /\ UNCHANGED <<get, live, counter, cookie, cached, busy, signs, crossed>>
  BY DEF Button!Post, Button!server
<1>2. CASE cookie = None
  <2> DEFINE r == IF try.aged THEN "aged" ELSE "mismatch"
  <2>1. Button!Finish(r)
    BY <1>2 DEF Button!Post
  <2>2. crossed
    BY <1>1, <1>2, AccountsAssumption DEF ButtonInv, Together, Gets, Button!Gets
  <2> HIDE DEF r
  <2>3. QED
    BY <1>1, <2>1, <2>2, TryEnds DEF Signed
<1>3. CASE cookie # None
  <2>1. try' = [try EXCEPT !.pc = "read", !.sid = cookie] /\ UNCHANGED results
    BY <1>3 DEF Button!Post
  <2>2. /\ DOMAIN try' = Attempt /\ try'.pc = "read" /\ try'.sid = cookie
        /\ try'.opts = try.opts /\ try'.aged = try.aged /\ try'.sign = try.sign
    BY <2>1 DEF ButtonInv, ButtonForms, Attempt
  <2>3. ButtonForms' /\ Answering'
    BY <1>1, <2>2, TryGoesOn DEF ButtonInv, ButtonForms, Answering
  <2>4. Together' /\ Answered'
    BY <1>1, <1>3, <2>2 DEF ButtonInv, Together, Answered
  <2>5. Ahead' /\ ChallengeMatches'
    BY <1>1, <2>1, <2>2 DEF ButtonInv, Ahead, Signed, ChallengeMatches, Button!ChallengeMatches
  <2>6. QED
    BY <2>3, <2>4, <2>5 DEF ButtonInv
<1>4. QED
  BY <1>2, <1>3

LEMMA ReadStep ==
  ASSUME ButtonInv, Button!Read
  PROVE  ButtonInv'
<1>1. try.pc = "read" /\ UNCHANGED <<get, live, counter, cookie, cached, busy, signs, crossed>>
  BY DEF Button!Read, Button!server
<1>2. CASE try.sid \notin live
  <2> DEFINE r == IF try.aged THEN "aged" ELSE "mismatch"
  <2>1. Button!Finish(r)
    BY <1>2 DEF Button!Read
  <2>2. try.aged \/ crossed
    BY <1>1, <1>2 DEF ButtonInv, Together
  <2>3. r = "mismatch" => crossed
    BY <2>2
  <2> HIDE DEF r
  <2>4. QED
    BY <1>1, <2>1, <2>3, TryEnds DEF Signed
<1>3. CASE try.sid \in live
  <2>1. try' = [try EXCEPT !.pc = "forget", !.chal = try.sid] /\ UNCHANGED results
    BY <1>3 DEF Button!Read
  <2>2. /\ DOMAIN try' = Attempt /\ try'.pc = "forget" /\ try'.chal = try.sid
        /\ try'.opts = try.opts /\ try'.aged = try.aged /\ try'.sign = try.sign
    BY <2>1 DEF ButtonInv, ButtonForms, Attempt
  <2>3. ButtonForms' /\ Answering'
    BY <1>1, <2>2, TryGoesOn DEF ButtonInv, ButtonForms, Answering
  <2>4. Together' /\ Answered'
    BY <1>1, <1>3, <2>2 DEF ButtonInv, Together, Answered
  <2>5. Ahead' /\ ChallengeMatches'
    BY <1>1, <2>1, <2>2 DEF ButtonInv, Ahead, Signed, ChallengeMatches, Button!ChallengeMatches
  <2>6. QED
    BY <2>3, <2>4, <2>5 DEF ButtonInv
<1>4. QED
  BY <1>2, <1>3

LEMMA ForgetStep ==
  ASSUME ButtonInv, Button!Forget
  PROVE  ButtonInv'
<1>1. /\ try.pc = "forget" /\ UNCHANGED <<get, counter, cookie, cached, busy, signs, crossed, results>>
      /\ live' = live \ {try.chal} /\ try' = [try EXCEPT !.pc = "verify"]
  BY DEF Button!Forget, Button!tally
<1>2. /\ DOMAIN try' = Attempt /\ try'.pc = "verify" /\ try'.chal = try.chal
      /\ try'.opts = try.opts /\ try'.aged = try.aged /\ try'.sign = try.sign
  BY <1>1 DEF ButtonInv, ButtonForms, Attempt
<1>3. \A g \in Gets : get[g].pc = "stored" => g \in live'
  BY <1>1 DEF ButtonInv, Answering, Answered
<1>4. ButtonForms' /\ Answering'
  BY <1>1, <1>2, <1>3, TryGoesOn DEF ButtonInv, ButtonForms
<1>5. Together' /\ Answered'
  BY <1>1, <1>2 DEF ButtonInv, Together, Answered
<1>6. Ahead' /\ ChallengeMatches'
  BY <1>1, <1>2 DEF ButtonInv, Ahead, Signed, ChallengeMatches, Button!ChallengeMatches
<1>7. QED
  BY <1>4, <1>5, <1>6 DEF ButtonInv

LEMMA VerifyStep ==
  ASSUME ButtonInv, Button!Verify
  PROVE  ButtonInv'
<1>1. try.pc = "verify" /\ UNCHANGED <<get, live, counter, cached, busy, signs, crossed>> /\ cookie' \in {cookie, None}
  BY DEF Button!Verify, Button!server
<1>2. counter # None /\ ~ (try.opts = try.chal /\ try.sign > counter) => crossed
  BY <1>1 DEF ButtonInv, Together, Ahead, Signed
<1>3. CASE Button!Finish("removed")
  BY <1>1, <1>3, TryEnds
<1>4. CASE Button!Finish("mismatch") /\ crossed
  BY <1>1, <1>4, TryEnds
<1>5. CASE try' = [try EXCEPT !.pc = "count"] /\ UNCHANGED <<cookie, results>>
  <2>1. /\ DOMAIN try' = Attempt /\ try'.pc = "count" /\ try'.sign = try.sign
    BY <1>5 DEF ButtonInv, ButtonForms, Attempt
  <2>2. ButtonForms' /\ Answering'
    BY <1>1, <2>1, TryGoesOn DEF ButtonInv, ButtonForms, Answering
  <2>3. Together' /\ Answered'
    BY <1>1, <1>5, <2>1 DEF ButtonInv, Together, Answered
  <2>4. Ahead' /\ ChallengeMatches'
    BY <1>1, <1>5, <2>1 DEF ButtonInv, Ahead, Signed, ChallengeMatches, Button!ChallengeMatches
  <2>5. QED
    BY <2>2, <2>3, <2>4 DEF ButtonInv
<1>6. QED
  BY <1>2, <1>3, <1>4, <1>5 DEF Button!Verify

LEMMA CountStep ==
  ASSUME ButtonInv, Button!Count
  PROVE  ButtonInv'
<1>1. /\ try.pc = "count" /\ UNCHANGED <<get, live, cached, busy, signs, crossed>> /\ cookie' = None
      /\ counter' = (IF counter = None THEN None ELSE try.sign) /\ Button!Finish("signed in")
  BY Zenon DEF Button!Count
<1>2. counter' = counter \/ counter' = try.sign
  BY <1>1, Zenon
<1>3. QED
  BY <1>1, <1>2, TryEnds DEF Signed

LEMMA SignStep ==
  ASSUME ButtonInv, Button!Sign
  PROVE  ButtonInv'
<1>1. /\ try.pc = "sheet" /\ UNCHANGED <<get, live, counter, cookie, cached, busy, crossed, results>>
      /\ signs' = signs + 1 /\ try' = [try EXCEPT !.pc = "post", !.sign = signs + 1]
  BY DEF Button!Sign, Button!server, Button!tally
<1>2. /\ DOMAIN try' = Attempt /\ try'.pc = "post" /\ try'.sign = signs + 1
      /\ try'.opts = try.opts /\ try'.aged = try.aged
  BY <1>1 DEF ButtonInv, ButtonForms, Attempt
<1>3. signs' \in Nat
  BY <1>1 DEF ButtonInv, ButtonForms
<1>4. ButtonForms' /\ Answering'
  BY <1>1, <1>2, <1>3, TryGoesOn DEF ButtonInv, ButtonForms, Answering
<1>5. Together' /\ Answered'
  BY <1>1, <1>2 DEF ButtonInv, Together, Answered
<1>6. Ahead' /\ ChallengeMatches'
  BY <1>1, <1>2 DEF ButtonInv, ButtonForms, Ahead, Signed, ChallengeMatches, Button!ChallengeMatches
<1>7. QED
  BY <1>4, <1>5, <1>6 DEF ButtonInv

LEMMA CancelStep ==
  ASSUME ButtonInv, Button!Cancel
  PROVE  ButtonInv'
<1>1. try.pc = "sheet" /\ UNCHANGED <<get, live, counter, cookie, cached, busy, signs, crossed>> /\ Button!Finish("cancelled")
  BY DEF Button!Cancel, Button!server, Button!Finish
<1>2. QED
  BY <1>1, TryEnds

\* A GET leaves: no other waits for the same.
LEMMA SendStep ==
  ASSUME ButtonInv, NEW by \in {"click", "prefetch"}, Button!Send(by), try.pc = "idle", UNCHANGED <<live, counter, cookie, signs, results>>,
         by = "prefetch" => ~ busy /\ busy' /\ cached = None /\ UNCHANGED <<cached, crossed>>,
         by = "click" => (busy' <=> busy) /\ cached' = None /\ (~ crossed' => ~ crossed /\ ~ busy), crossed => crossed'
  PROVE  ButtonInv'
<1>1. PICK g \in Gets : /\ get[g].by = "none" /\ get' = [get EXCEPT ![g] = [by |-> by, pc |-> "sent"]]
                        /\ try' = IF by = "click" THEN [Button!NoTry EXCEPT !.pc = "fetch", !.get = g] ELSE try
  BY Zenon DEF Button!Send, Button!Fresh, Gets
<1>2. /\ get'[g].by = by /\ get'[g].pc = "sent" /\ DOMAIN get'[g] = {"by", "pc"}
      /\ DOMAIN get' = Gets /\ \A h \in Gets : h # g => get'[h] = get[h]
  BY <1>1 DEF ButtonInv, ButtonForms
<1>3. by = "prefetch" => UNCHANGED try
  BY <1>1
<1>4. by = "click" => try'.pc = "fetch" /\ try'.get = g /\ DOMAIN try' = Attempt
  BY <1>1 DEF Button!NoTry, Attempt
<1>5. get[g].pc = "none"
  BY <1>1 DEF ButtonInv, Answering
<1>6. ButtonForms'
  BY <1>2, <1>3, <1>4 DEF ButtonInv, ButtonForms, Gets, Button!Gets
<1>7. \A h \in Gets : OnItsWay(h)' => h = g \/ (OnItsWay(h) /\ get'[h] = get[h] /\ get[h].by = "prefetch" /\ by = "click")
  BY <1>2, <1>3 DEF ButtonInv, Answering, OnItsWay
<1>8. Answering'
  <2>1. \A h \in Gets : OnItsWay(h)' /\ get'[h].by = "prefetch" => busy'
    BY <1>2, <1>7 DEF ButtonInv, Answering
  <2>2. \A h \in Gets : OnItsWay(h)' /\ get'[h].by = "click" => h = g /\ by = "click"
    BY <1>2, <1>7
  <2>3. \A h, i \in Gets : OnItsWay(h)' /\ OnItsWay(i)' /\ get'[h].by = "prefetch" /\ get'[i].by = "prefetch" => h = i
    BY <1>2, <1>7 DEF ButtonInv, Answering
  <2>4. \A h \in Gets : (get'[h].by = "none" => get'[h].pc = "none") /\ (OnItsWay(h)' => get'[h].by \in {"click", "prefetch"})
                        /\ (get'[h].pc = "stored" => h \in live')
    BY <1>2, <1>7 DEF ButtonInv, Answering, OnItsWay
  <2>5. QED
    BY <1>4, <2>1, <2>2, <2>3, <2>4 DEF Answering, OnItsWay
<1>9. Answered'
  <2>1. cookie # None => cookie \in Gets /\ get'[cookie].pc = "done"
    BY <1>2, <1>5 DEF ButtonInv, Answered
  <2>2. try'.pc \notin {"read", "forget"}
    BY <1>3, <1>4
  <2>3. QED
    BY <2>1, <2>2 DEF Answered
<1>10. Together'
  <2>1. CASE by = "prefetch"
    BY <1>3, <2>1 DEF ButtonInv, Together
  <2>2. CASE by = "click"
    BY <1>4, <2>2 DEF ButtonInv, Together
  <2>3. QED
    BY <2>1, <2>2
<1>11. Ahead'
  BY <1>3, <1>4 DEF ButtonInv, Ahead, Signed
<1>12. ChallengeMatches'
  BY DEF ButtonInv, ChallengeMatches, Button!ChallengeMatches
<1>13. QED
  BY <1>6, <1>8, <1>9, <1>10, <1>11, <1>12 DEF ButtonInv

LEMMA PrefetchStep ==
  ASSUME ButtonInv, Button!Prefetch
  PROVE  ButtonInv'
<1>1. try.pc = "idle" /\ cached = None /\ UNCHANGED <<live, counter, cookie, cached, signs, results, crossed>> /\ Button!Send("prefetch")
  BY DEF Button!Prefetch, Button!NoTry, Button!server, Button!tally
<1>2. ~ busy /\ busy'
  BY DEF Button!Prefetch
<1>3. QED
  BY <1>1, <1>2, SendStep

LEMMA ClickStep ==
  ASSUME ButtonInv, Button!Click
  PROVE  ButtonInv'
<1>1. try.pc = "idle" /\ cached' = None /\ UNCHANGED <<live, counter, cookie, busy, signs, results>>
  BY DEF Button!Click, Button!NoTry, Button!server
<1>2. crossed' = (crossed \/ busy)
  BY DEF Button!Click
<1>3. (~ crossed' => ~ crossed /\ ~ busy) /\ (crossed => crossed') /\ (busy' <=> busy)
  BY <1>1, <1>2, Zenon
<1>4. CASE Button!Send("click")
  BY <1>1, <1>3, <1>4, SendStep
<1>5. CASE cached # None /\ try' = [Button!NoTry EXCEPT !.pc = "sheet", !.opts = cached] /\ UNCHANGED get
  <2>1. DOMAIN try' = Attempt /\ try'.pc = "sheet" /\ try'.opts = cached
    BY <1>5 DEF Button!NoTry, Attempt
  <2>2. ButtonForms' /\ Answering'
    BY <1>1, <1>5, <2>1, TryGoesOn DEF ButtonInv, ButtonForms, Answering
  <2>3. Together'
    BY <1>1, <1>3, <1>5, <2>1 DEF ButtonInv, Together
  <2>4. Answered' /\ Ahead'
    BY <1>1, <1>5, <2>1 DEF ButtonInv, Answered, Ahead, Signed
  <2>5. ChallengeMatches'
    BY <1>1, <1>3 DEF ButtonInv, ChallengeMatches, Button!ChallengeMatches
  <2>6. QED
    BY <2>2, <2>3, <2>4, <2>5 DEF ButtonInv
<1>6. QED
  BY <1>4, <1>5 DEF Button!Click

LEMMA ChallengeStep ==
  ASSUME ButtonInv, NEW g \in Gets, Button!Challenge(g)
  PROVE  ButtonInv'
<1>1. /\ get[g].pc = "sent" /\ get' = [get EXCEPT ![g].pc = "stored"] /\ live' = live \cup {g}
      /\ UNCHANGED <<cookie, cached, busy, try, counter, signs, crossed, results>>
  BY DEF Button!Challenge, Button!tally
<1>2. /\ get'[g].by = get[g].by /\ get'[g].pc = "stored" /\ DOMAIN get'[g] = {"by", "pc"}
      /\ DOMAIN get' = Gets /\ \A h \in Gets : h # g => get'[h] = get[h]
  BY <1>1 DEF ButtonInv, ButtonForms
<1>3. ButtonForms'
  BY <1>1, <1>2 DEF ButtonInv, ButtonForms, Gets, Button!Gets
<1>4. Answering'
  BY <1>1, <1>2 DEF ButtonInv, Answering, OnItsWay
<1>5. Answered'
  BY <1>1, <1>2 DEF ButtonInv, Answered
<1>6. Together' /\ Ahead' /\ ChallengeMatches'
  BY <1>1 DEF ButtonInv, Together, Ahead, Signed, ChallengeMatches, Button!ChallengeMatches
<1>7. QED
  BY <1>3, <1>4, <1>5, <1>6 DEF ButtonInv

\* A GET is over: for the prefetch, so is busy; for a click, the wait.
LEMMA GetOver ==
  ASSUME ButtonInv, NEW g \in Gets, OnItsWay(g), get' = [get EXCEPT ![g].pc = "done"], DOMAIN try' = Attempt,
         UNCHANGED <<live, counter, signs>>,
         get[g].by # "prefetch" => UNCHANGED busy,
         get[g].by = "prefetch" => UNCHANGED try
  PROVE  /\ ButtonForms' /\ Answering'
         /\ get'[g].pc = "done" /\ \A h \in Gets : get[h].pc = "done" => get'[h].pc = "done"
         /\ get[g].by \in {"click", "prefetch"}
         /\ get[g].by = "click" => try.pc = "fetch" /\ try.get = g
<1>1. /\ get'[g].by = get[g].by /\ get'[g].pc = "done" /\ DOMAIN get'[g] = {"by", "pc"}
      /\ DOMAIN get' = Gets /\ \A h \in Gets : h # g => get'[h] = get[h]
  BY DEF ButtonInv, ButtonForms
<1>2. /\ get[g].by \in {"click", "prefetch"}
      /\ get[g].by = "click" => try.pc = "fetch" /\ try.get = g
  BY DEF ButtonInv, Answering
<1>3. ButtonForms'
  BY <1>1 DEF ButtonInv, ButtonForms, Gets, Button!Gets
<1>4. \A h \in Gets : OnItsWay(h)' => h # g /\ OnItsWay(h) /\ get'[h] = get[h]
  BY <1>1 DEF OnItsWay
<1>5. \A h \in Gets : OnItsWay(h)' /\ get[h].by = "prefetch" => get[g].by = "click" /\ busy
  BY <1>2, <1>4 DEF ButtonInv, Answering
<1>6. \A h \in Gets : OnItsWay(h)' /\ get[h].by = "click" => get[g].by = "prefetch" /\ try.pc = "fetch" /\ try.get = h
  BY <1>2, <1>4 DEF ButtonInv, Answering
<1>7. Answering'
  <2>1. \A h \in Gets : OnItsWay(h)' /\ get'[h].by = "prefetch" => busy'
    BY <1>4, <1>5
  <2>2. \A h \in Gets : OnItsWay(h)' /\ get'[h].by = "click" => try'.pc = "fetch" /\ try'.get = h
    BY <1>4, <1>6
  <2>3. \A h, i \in Gets : OnItsWay(h)' /\ OnItsWay(i)' /\ get'[h].by = "prefetch" /\ get'[i].by = "prefetch" => h = i
    BY <1>4 DEF ButtonInv, Answering
  <2>4. \A h \in Gets : (get'[h].by = "none" => get'[h].pc = "none") /\ (OnItsWay(h)' => get'[h].by \in {"click", "prefetch"})
                        /\ (get'[h].pc = "stored" => h \in live')
    BY <1>1, <1>2, <1>4 DEF ButtonInv, Answering, OnItsWay
  <2>5. QED
    BY <2>1, <2>2, <2>3, <2>4 DEF Answering, OnItsWay
<1>8. QED
  BY <1>1, <1>2, <1>3, <1>7

LEMMA AnswerStep ==
  ASSUME ButtonInv, NEW g \in Gets, Button!Answer(g)
  PROVE  ButtonInv'
<1>1. /\ get[g].pc = "stored" /\ get' = [get EXCEPT ![g].pc = "done"] /\ cookie' = g
      /\ UNCHANGED <<live, counter, signs, results, crossed>>
  BY DEF Button!Answer, Button!tally, Button!server
<1>2. g \in live /\ OnItsWay(g)
  BY <1>1 DEF ButtonInv, Answering, OnItsWay
<1>3. CASE get[g].by = "prefetch"
  <2>1. cached' = g /\ ~ busy' /\ UNCHANGED try
    BY <1>3 DEF Button!Answer
  <2>2. ButtonForms' /\ Answering' /\ get'[g].pc = "done" /\ \A h \in Gets : get[h].pc = "done" => get'[h].pc = "done"
    BY <1>1, <1>2, <1>3, <2>1, GetOver DEF ButtonInv, ButtonForms
  <2>3. busy
    BY <1>2, <1>3 DEF ButtonInv, Answering
  <2>4. Together'
    BY <1>1, <1>2, <2>1, <2>3 DEF ButtonInv, Together
  <2>5. Answered' /\ Ahead' /\ ChallengeMatches'
    BY <1>1, <2>1, <2>2 DEF ButtonInv, Answered, Ahead, Signed, ChallengeMatches, Button!ChallengeMatches
  <2>6. QED
    BY <2>2, <2>4, <2>5 DEF ButtonInv
<1>4. CASE get[g].by # "prefetch"
  <2>1. try' = [try EXCEPT !.pc = "sheet", !.opts = g] /\ UNCHANGED <<cached, busy>>
    BY <1>4 DEF Button!Answer
  <2>2. DOMAIN try' = Attempt /\ try'.pc = "sheet" /\ try'.opts = g
    BY <2>1 DEF ButtonInv, ButtonForms, Attempt
  <2>3. /\ ButtonForms' /\ Answering' /\ get'[g].pc = "done" /\ \A h \in Gets : get[h].pc = "done" => get'[h].pc = "done"
        /\ try.pc = "fetch"
    BY <1>1, <1>2, <1>4, <2>1, <2>2, GetOver
  <2>4. Together'
    BY <1>1, <1>2, <2>1, <2>2, <2>3 DEF ButtonInv, Together
  <2>5. Answered' /\ Ahead' /\ ChallengeMatches'
    BY <1>1, <2>2, <2>3 DEF ButtonInv, Answered, Ahead, Signed, ChallengeMatches, Button!ChallengeMatches
  <2>6. QED
    BY <2>3, <2>4, <2>5 DEF ButtonInv
<1>5. QED
  BY <1>3, <1>4

LEMMA FailStep ==
  ASSUME ButtonInv, NEW g \in Gets, Button!Fail(g)
  PROVE  ButtonInv'
<1>1. /\ OnItsWay(g) /\ get' = [get EXCEPT ![g].pc = "done"]
      /\ UNCHANGED <<live, counter, cookie, cached, signs, crossed>>
  BY DEF Button!Fail, Button!server, OnItsWay
<1>2. CASE get[g].by = "prefetch"
  <2>1. ~ busy' /\ UNCHANGED <<try, results>>
    BY <1>2 DEF Button!Fail
  <2>2. ButtonForms' /\ Answering' /\ \A h \in Gets : get[h].pc = "done" => get'[h].pc = "done"
    BY <1>1, <1>2, <2>1, GetOver DEF ButtonInv, ButtonForms
  <2>3. Together' /\ Answered' /\ Ahead' /\ ChallengeMatches'
    BY <1>1, <2>1, <2>2 DEF ButtonInv, Together, Answered, Ahead, Signed, ChallengeMatches, Button!ChallengeMatches
  <2>4. QED
    BY <2>2, <2>3 DEF ButtonInv
<1>3. CASE get[g].by # "prefetch"
  <2>1. try' = Button!NoTry /\ results' = results \cup {"unreachable"} /\ UNCHANGED busy
    BY <1>3 DEF Button!Fail
  <2>2. try'.pc = "idle" /\ DOMAIN try' = Attempt
    BY <2>1 DEF Button!NoTry, Attempt
  <2>3. /\ ButtonForms' /\ Answering' /\ \A h \in Gets : get[h].pc = "done" => get'[h].pc = "done"
        /\ try.pc = "fetch"
    BY <1>1, <1>3, <2>1, <2>2, GetOver
  <2>4. Together' /\ Answered' /\ Ahead' /\ ChallengeMatches'
    BY <1>1, <2>1, <2>2, <2>3 DEF ButtonInv, Together, Answered, Ahead, Signed, ChallengeMatches, Button!ChallengeMatches
  <2>5. QED
    BY <2>3, <2>4 DEF ButtonInv
<1>4. QED
  BY <1>2, <1>3

\* Time passes over options, challenges and keys.
LEMMA AgeStep ==
  ASSUME ButtonInv, NEW g \in Gets, Button!Age(g)
  PROVE  ButtonInv'
<1>1. /\ g # cached /\ get[g].pc = "done" /\ live' = live \ {g}
      /\ try' = [try EXCEPT !.aged = @ \/ g = try.opts]
      /\ UNCHANGED <<get, cookie, cached, busy, counter, signs, results, crossed>>
  BY DEF Button!Age, Button!tally
<1>2. "aged" \in DOMAIN try /\ DOMAIN try = Attempt
  BY DEF ButtonInv, ButtonForms, Attempt
<1>3. try'.aged = (try.aged \/ g = try.opts)
  BY <1>1, <1>2, Zenon
<1>4. /\ DOMAIN try' = Attempt /\ try'.pc = try.pc /\ try'.get = try.get /\ try'.opts = try.opts
      /\ try'.sign = try.sign /\ try'.sid = try.sid /\ try'.chal = try.chal
  BY <1>1, <1>2 DEF Attempt
<1>5. (try.aged => try'.aged) /\ (g = try.opts => try'.aged)
  BY <1>3, Zenon
<1>6. ButtonForms'
  BY <1>1, <1>4 DEF ButtonInv, ButtonForms, Gets, Button!Gets
<1>7. Answering'
  BY <1>1, <1>4 DEF ButtonInv, Answering, OnItsWay
<1>8. Together'
  BY <1>1, <1>4, <1>5 DEF ButtonInv, Together
<1>9. Answered' /\ Ahead' /\ ChallengeMatches'
  BY <1>1, <1>4 DEF ButtonInv, Answered, Ahead, Signed, ChallengeMatches, Button!ChallengeMatches
<1>10. QED
  BY <1>6, <1>7, <1>8, <1>9 DEF ButtonInv

LEMMA ButtonRest ==
  ASSUME ButtonInv, Button!GoStale \/ Button!Remove \/ UNCHANGED Button!vars
  PROVE  ButtonInv'
<1>1. /\ UNCHANGED <<get, live, cookie, busy, try, signs, results, crossed>>
      /\ cached' \in {cached, None} /\ counter' \in {counter, None}
  BY DEF Button!GoStale, Button!Remove, Button!vars, Button!tally, Button!server
<1>2. QED
  BY <1>1 DEF ButtonInv, ButtonForms, Gets, Button!Gets, Answering, OnItsWay, Together, Answered, Ahead, Signed, ChallengeMatches, Button!ChallengeMatches

LEMMA ButtonStep ==
  ASSUME ButtonInv, Button!Next
  PROVE  ButtonInv'
BY PrefetchStep, ClickStep, SignStep, CancelStep, PostStep, ReadStep, ForgetStep, VerifyStep, CountStep, ButtonRest,
   ChallengeStep, AnswerStep, FailStep, AgeStep DEF Button!Next, Gets

\* A passkey that was signed is never turned down because the tab's cookie
\* stands for another challenge, unless a click found a prefetch under way.
THEOREM CookieMatches == AccountSpec => []ChallengeMatches
<1>1. AccountInit => ButtonInv
  BY ButtonInit DEF AccountInit
<1>2. ButtonInv /\ [AccountNext]_accountVars => ButtonInv'
  <2>1. [AccountNext]_accountVars => Button!Next \/ UNCHANGED Button!vars
    BY DEF AccountNext, accountVars, buttonVars, Button!vars
  <2>2. QED
    BY <2>1, ButtonStep, ButtonRest
<1>3. ButtonInv => ChallengeMatches
  BY DEF ButtonInv
<1>4. QED
  BY <1>1, <1>2, <1>3, PTL DEF AccountSpec
=============================================================================
