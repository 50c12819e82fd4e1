-------------------------- MODULE ModerationProofs --------------------------
(***************************************************************************)
(* Proofs about the office, for any number of requests, users and flags:   *)
(* that two verdicts on one flag exclude each other unless they overlapped *)
(* (VerdictsAgree), and that a ban leaves its user in no encrypted topic   *)
(* (BannedOut).  Both speak of what is stored; the invariants Inv and      *)
(* OutInv add where the requests are that produced it.  And about the      *)
(* sessions a ban, a logout or a change of rights closes, for any number   *)
(* of browsers, sessions, tokens and requests, with failures or without:   *)
(* a closed session gets no new token (NoMintAfterClose), for which        *)
(* CloseInv adds that only a refresh comes to the step that mints.         *)
(*                                                                         *)
(* And about the open tab's header (HeaderAgrees): at rest its bell and    *)
(* its badge tell what the tables hold.  In between, the truth is on its   *)
(* way, and HeadInv says where.  The bell: unless it is excepted, the      *)
(* notifications lie in one line, the first d shown, the next e - d on     *)
(* the wire in order, the rest still to be sent; an answer that has been   *)
(* read tells of all of them, and while a PATCH is under way everything    *)
(* is shown and shown as read (BellInv).  The badge: every number of flags *)
(* somebody holds is today's, and either the last number under way to the  *)
(* tab fits the table or a request is about to send one that does          *)
(* (BadgeInv).                                                             *)
(***************************************************************************)
EXTENDS Moderation, SessionAuth, FiniteSetTheorems, FunctionTheorems, SequenceTheorems, TLAPS

Statuses == {"pending", "dismissed", "actioned"}
Rows == [user : {desk.jobs[j].user : j \in Jobs}, st : Statuses]
Review(j) == Task(j).op = "review"
Dismisses(j) == Task(j).act = "dismiss"
Clean(f) == f \notin raced \cup Botched

\* A review that found its flag pending and is not over.
Judging(j) == Review(j) /\ job[j].pc \notin {"todo", "readFlag", "done"}

\* One that is about to close a flag over a deleted message.
Closing(j, f) == Judging(j) /\ Is(j, "resolve") /\ ~Dismisses(j) /\ job[j].flag = f

Shape ==
  /\ DOMAIN job = Jobs
  /\ \A j \in Jobs : DOMAIN job[j] = {"pc", "flag", "count", "rooms"}
  /\ flag \in Seq(Rows)
  /\ gone \subseteq DOMAIN flag
  /\ \A p \in penal : p.flag = 0 \/ p.flag \in DOMAIN flag
  /\ cut \subseteq {j \in Jobs : Is(j, "done")}

\* What each request knows of the flag it judges.
Course(j) ==
  /\ ~Review(j) => job[j].flag = 0
  /\ job[j].pc \in {"readFlag", "delete", "resolve", "permit"} => Review(j)
  /\ Is(j, "insertFlag") => ~Review(j)
  /\ Judging(j) => job[j].flag \in DOMAIN flag
  /\ Judging(j) /\ job[j].pc \in {"delete", "permit", "insertBan", "insertMute"} => ~Dismisses(j)
  /\ Judging(j) /\ Is(j, "resolve") /\ ~Dismisses(j) => job[j].flag \in gone
  /\ Judging(j) /\ job[j].flag \notin raced =>
       IF job[j].pc \in {"delete", "resolve"} THEN flag[job[j].flag].st = "pending"
       ELSE Dismisses(j) \/ flag[job[j].flag].st = "actioned"

Apart ==
  \A i, j \in Jobs : i # j /\ Judging(i) /\ Judging(j) /\ job[i].flag = job[j].flag => job[i].flag \in raced

\* What each flag tells of its message and its author.
Record(f) ==
  /\ flag[f].st = "actioned" => f \in gone
  /\ flag[f].st # "actioned" => \A p \in penal : p.flag # f
  /\ f \in gone => flag[f].st = "actioned" \/ (flag[f].st = "pending" /\ \E j \in Jobs : Closing(j, f))

Inv ==
  /\ Shape
  /\ \A j \in Jobs : Course(j)
  /\ Apart
  /\ \A f \in DOMAIN flag : Clean(f) => Record(f)

caseState == <<desk, flag, gone, penal, raced, job, cut>>

---------------------------------------------------------------------------
\* At the start there is no flag and no request under way.
THEOREM InvInit == QueueInit => Inv
<1> SUFFICES ASSUME QueueInit PROVE Inv  OBVIOUS
<1> USE DEF QueueInit, NewJob
<1>1. flag = <<>> /\ DOMAIN flag = {} /\ flag \in Seq(Rows)  OBVIOUS
<1>2. \A j \in Jobs : job[j].pc = "todo" /\ job[j].flag = 0  OBVIOUS
<1>3. Shape  BY <1>1 DEF Shape
<1>4. \A j \in Jobs : Course(j)  BY <1>2 DEF Course, Judging, Is
<1>5. Apart  BY <1>2 DEF Apart, Judging
<1> QED  BY <1>1, <1>3, <1>4, <1>5 DEF Inv

\* Actions that touch none of this.
LEMMA InvStutter == Inv /\ UNCHANGED caseState => Inv'
BY DEF Inv, Shape, Rows, Course, Apart, Record, Clean, Botched, Closing, Judging, Review, Dismisses,
       Task, Is, caseState

\* A step of one request that leaves the others alone.
Only(j) == DOMAIN job' = Jobs /\ \A i \in Jobs \ {j} : job'[i] = job[i]

LEMMA GoMoves ==
  ASSUME NEW j \in Jobs, Shape, Go(j)
  PROVE  /\ Only(j) /\ DOMAIN job'[j] = DOMAIN job[j]
         /\ job'[j].flag = job[j].flag /\ job'[j].pc = After(Task(j), job[j].pc)
BY DEF Go, Shape, Only

LEMMA StopMoves ==
  ASSUME NEW j \in Jobs, Shape, Stop(j)
  PROVE  /\ Only(j) /\ DOMAIN job'[j] = DOMAIN job[j]
         /\ job'[j].flag = job[j].flag /\ job'[j].pc = "done"
BY DEF Stop, Shape, Only

Past == {"todo", "readFlag", "delete", "resolve"}

\* A request that goes on after its verdict, or that is none.
LEMMA PcMove ==
  ASSUME Inv, NEW j \in Jobs, UNCHANGED <<desk, flag, gone, penal, raced, cut>>,
         Only(j), DOMAIN job'[j] = DOMAIN job[j], job'[j].flag = job[j].flag,
         job[j].pc \notin Past \cup {"done"}, job'[j].pc \notin Past \cup {"insertFlag"},
         Judging(j) /\ job'[j].pc \in {"permit", "insertBan", "insertMute"} => ~Dismisses(j),
         job'[j].pc = "permit" => Review(j)
  PROVE  Inv'
<1> USE DEF Inv, Only, Past
<1>0. \A i \in Jobs : Task(i)' = Task(i) /\ Review(i)' = Review(i) /\ Dismisses(i)' = Dismisses(i)
      BY DEF Task, Review, Dismisses
<1>1. Shape'  BY DEF Shape, Rows, Is
<1>2. \A i \in Jobs : Judging(i)' => Judging(i)  BY <1>0 DEF Judging
<1>3. ASSUME NEW i \in Jobs PROVE Course(i)'
  <2>1. CASE i # j  BY <1>0, <2>1 DEF Course, Judging, Is
  <2>2. CASE i = j  BY <1>0, <1>2, <2>2 DEF Course, Judging, Is
  <2> QED  BY <2>1, <2>2
<1>4. \A i \in Jobs : job'[i].flag = job[i].flag  OBVIOUS
<1>5. Apart'  BY <1>2, <1>4 DEF Apart
<1>6. Botched' = Botched  BY <1>4 DEF Botched, Shape
<1>7. ASSUME NEW f \in DOMAIN flag, Clean(f)' PROVE Record(f)'
  <2>1. Clean(f) /\ Record(f)  BY <1>6, <1>7 DEF Clean
  <2>2. \A i \in Jobs : Closing(i, f) => Closing(i, f)'  BY <1>0 DEF Closing, Judging, Is
  <2> QED  BY <2>1, <2>2 DEF Record
<1> QED  BY <1>1, <1>3, <1>5, <1>7

LEMMA InvArrive == ASSUME Inv, NEW j \in Jobs, Arrive(j) PROVE Inv'
<1> USE DEF Inv
<1>0. /\ UNCHANGED <<desk, flag, gone, penal, raced, cut>> /\ Is(j, "todo")
      /\ \A i \in Jobs : Task(i)' = Task(i) /\ Review(i)' = Review(i) /\ Dismisses(i)' = Dismisses(i)
      BY DEF Arrive, feedVars, caseVars, Task, Review, Dismisses
<1>1. /\ Only(j) /\ DOMAIN job'[j] = DOMAIN job[j]
      /\ \/ job'[j].flag = job[j].flag /\ ~Review(j) /\ job'[j].pc \in {"insertFlag", "insertBan", "insertMute", "lift"}
         \/ job'[j].pc = "readFlag" /\ Review(j)
  <2>1. CASE Task(j).op \in {"report", "ban", "mute", "lift"} /\ job' = [job EXCEPT ![j].pc = First(Task(j))]
        BY <2>1 DEF First, Shape, Only, Review
  <2>2. CASE Review(j) /\ \E f \in (IF Task(j).here THEN pane.list ELSE DOMAIN flag) :
               job' = [job EXCEPT ![j].pc = First(Task(j)), ![j].flag = f]
        BY <2>2 DEF First, Shape, Only, Review
  <2> QED  BY <2>1, <2>2 DEF Arrive, Review
<1>2. Shape'  BY <1>0, <1>1 DEF Shape, Rows, Is, Only
<1>3. \A i \in Jobs : /\ Judging(i)' => i # j
                      /\ i # j => job'[i] = job[i] /\ (Judging(i)' <=> Judging(i))
      BY <1>0, <1>1 DEF Judging, Only
<1>4. ASSUME NEW i \in Jobs PROVE Course(i)'
  <2>1. CASE i # j  BY <1>0, <1>3, <2>1 DEF Course, Is
  <2>2. CASE i = j  BY <1>0, <1>1, <1>3, <2>2 DEF Course, Is
  <2> QED  BY <2>1, <2>2
<1>5. Apart'  BY <1>0, <1>3 DEF Apart
<1>6. j \notin cut /\ Botched' = Botched  BY <1>0, <1>3 DEF Botched, Shape, Is
<1>7. ASSUME NEW f \in DOMAIN flag, Clean(f)' PROVE Record(f)'
  <2>1. Clean(f) /\ Record(f)  BY <1>0, <1>6, <1>7 DEF Clean
  <2>2. \A i \in Jobs : Closing(i, f) => Closing(i, f)'  BY <1>0, <1>3 DEF Closing, Is
  <2> QED  BY <1>0, <2>1, <2>2 DEF Record
<1> QED  BY <1>0, <1>2, <1>4, <1>5, <1>7

LEMMA InvFail == ASSUME Inv, NEW j \in Jobs, Fail(j) PROVE Inv'
<1> USE DEF Inv
<1>0. /\ UNCHANGED <<desk, flag, gone, penal, raced>> /\ cut' = cut \cup {j} /\ Running(j) /\ Stop(j)
      /\ \A i \in Jobs : Task(i)' = Task(i) /\ Review(i)' = Review(i) /\ Dismisses(i)' = Dismisses(i)
      BY DEF Fail, caseVars, Task, Review, Dismisses
<1>1. Only(j) /\ DOMAIN job'[j] = DOMAIN job[j] /\ job'[j].flag = job[j].flag /\ job'[j].pc = "done"
      BY <1>0, StopMoves
<1>2. Shape'  BY <1>0, <1>1 DEF Shape, Rows, Is, Only
<1>3. \A i \in Jobs : /\ Judging(i)' => i # j
                      /\ i # j => job'[i] = job[i] /\ (Judging(i)' <=> Judging(i))
      BY <1>0, <1>1 DEF Judging, Only
<1>4. ASSUME NEW i \in Jobs PROVE Course(i)'
  <2>1. CASE i # j  BY <1>0, <1>3, <2>1 DEF Course, Is
  <2>2. CASE i = j  BY <1>0, <1>1, <1>3, <2>2 DEF Course, Is
  <2> QED  BY <2>1, <2>2
<1>5. Apart'  BY <1>0, <1>3 DEF Apart
<1>6. Botched' = Botched \cup {job[j].flag}  BY <1>0, <1>1, <1>3 DEF Botched, Shape
<1>7. ASSUME NEW f \in DOMAIN flag, Clean(f)' PROVE Record(f)'
  <2>1. Clean(f) /\ Record(f) /\ f # job[j].flag  BY <1>0, <1>6, <1>7 DEF Clean
  <2>2. \A i \in Jobs : Closing(i, f) => Closing(i, f)'  BY <1>0, <1>3, <2>1 DEF Closing, Is
  <2> QED  BY <1>0, <2>1, <2>2 DEF Record
<1> QED  BY <1>0, <1>2, <1>4, <1>5, <1>7

LEMMA InvInsertFlag == ASSUME Inv, NEW j \in Jobs, InsertFlag(j) PROVE Inv'
<1> USE DEF Inv
<1> DEFINE new == Len(flag) + 1
<1>0. /\ UNCHANGED <<desk, gone, penal, raced, cut>> /\ Is(j, "insertFlag") /\ Go(j)
      /\ flag' = Append(flag, [user |-> Task(j).user, st |-> "pending"])
      /\ \A i \in Jobs : Task(i)' = Task(i) /\ Review(i)' = Review(i) /\ Dismisses(i)' = Dismisses(i)
      BY DEF InsertFlag, Task, Review, Dismisses
<1>1. Only(j) /\ DOMAIN job'[j] = DOMAIN job[j] /\ job'[j].flag = job[j].flag /\ job'[j].pc = "count"
      BY <1>0, GoMoves DEF After, Is
<1>2. /\ flag \in Seq(Rows) /\ [user |-> Task(j).user, st |-> "pending"] \in Rows
      BY DEF Shape, Rows, Task, Statuses
<1>3. /\ flag' \in Seq(Rows) /\ DOMAIN flag = 1..Len(flag) /\ DOMAIN flag' = 1..new /\ new \notin DOMAIN flag
      /\ \A f \in DOMAIN flag : f \in DOMAIN flag' /\ flag'[f] = flag[f]
      /\ DOMAIN flag' = DOMAIN flag \cup {new} /\ flag'[new].st = "pending" /\ new # 0
      BY <1>0, <1>2
<1>4. Shape'  BY <1>0, <1>1, <1>3 DEF Shape, Rows, Is, Only
<1>5. \A i \in Jobs : Judging(i)' => Judging(i) /\ job'[i].flag = job[i].flag
      BY <1>0, <1>1 DEF Judging, Only, Is
<1>6. ASSUME NEW i \in Jobs PROVE Course(i)'
  <2>1. CASE i # j
    <3>1. job'[i] = job[i] /\ (Judging(i)' <=> Judging(i))  BY <1>0, <1>1, <2>1 DEF Judging, Only
    <3> QED  BY <1>0, <1>3, <3>1 DEF Course, Is
  <2>2. CASE i = j
    <3>1. ~Review(j)  BY <1>0 DEF Course
    <3> QED  BY <1>0, <1>1, <2>2, <3>1 DEF Course, Judging, Is
  <2> QED  BY <2>1, <2>2
<1>7. Apart'  BY <1>0, <1>5 DEF Apart
<1>8. Botched' = Botched  BY <1>0, <1>1 DEF Botched, Shape, Only, Is
<1>9. ASSUME NEW f \in DOMAIN flag', Clean(f)' PROVE Record(f)'
  <2>1. CASE f \in DOMAIN flag
    <3>1. Clean(f) /\ Record(f)  BY <1>0, <1>8, <1>9, <2>1 DEF Clean
    <3>2. \A i \in Jobs : Closing(i, f) => Closing(i, f)'  BY <1>0, <1>1 DEF Closing, Judging, Is, Only
    <3> QED  BY <1>0, <1>3, <2>1, <3>1, <3>2 DEF Record
  <2>2. CASE f = new
        BY <1>0, <1>3, <2>2 DEF Record, Shape
  <2> QED  BY <1>3, <2>1, <2>2
<1> QED  BY <1>4, <1>6, <1>7, <1>9

LEMMA InvReadFlag == ASSUME Inv, NEW j \in Jobs, ReadFlag(j) PROVE Inv'
<1> USE DEF Inv
<1> DEFINE f0 == job[j].flag
<1>0. /\ UNCHANGED <<desk, flag, gone, penal, cut>> /\ Is(j, "readFlag")
      /\ \A i \in Jobs : Task(i)' = Task(i) /\ Review(i)' = Review(i) /\ Dismisses(i)' = Dismisses(i)
      BY DEF ReadFlag, feedVars, Task, Review, Dismisses
<1>1. /\ Only(j) /\ DOMAIN job'[j] = DOMAIN job[j] /\ job'[j].flag = f0 /\ Review(j) /\ raced \subseteq raced'
      /\ \/ job'[j].pc = "done" /\ raced' = raced
         \/ /\ job'[j].pc = (IF Dismisses(j) THEN "resolve" ELSE "delete")
            /\ f0 \in DOMAIN flag /\ flag[f0].st = "pending"
            /\ \A i \in Jobs \ {j} : Judging(i) /\ job[i].flag = f0 => f0 \in raced'
  <2>1. CASE (f0 \notin DOMAIN flag \/ flag[f0].st # "pending") /\ Stop(j) /\ UNCHANGED raced
        BY <1>0, <2>1, StopMoves DEF Course, Is
  <2>2. CASE /\ f0 \in DOMAIN flag /\ flag[f0].st = "pending" /\ Go(j)
             /\ raced' = IF {i \in Jobs \ {j} : Running(i) /\ job[i].flag = f0 /\ ~Is(i, "readFlag")} # {}
                         THEN raced \cup {f0} ELSE raced
    <3>1. /\ Only(j) /\ DOMAIN job'[j] = DOMAIN job[j] /\ job'[j].flag = f0
          /\ job'[j].pc = (IF Dismisses(j) THEN "resolve" ELSE "delete")
          BY <1>0, <2>2, GoMoves DEF After, Is, Dismisses
    <3>2. \A i \in Jobs : Judging(i) => Running(i) /\ ~Is(i, "readFlag")  BY DEF Judging, Running, Is
    <3>3. Review(j)  BY <1>0 DEF Course, Is
    <3> QED  BY <2>2, <3>1, <3>2, <3>3
  <2> QED  BY <2>1, <2>2 DEF ReadFlag
<1>2. Shape'  BY <1>0, <1>1 DEF Shape, Rows, Is, Only
<1>3. \A i \in Jobs \ {j} : job'[i] = job[i] /\ (Judging(i)' <=> Judging(i))
      BY <1>0, <1>1 DEF Judging, Only
<1>4. ASSUME NEW i \in Jobs PROVE Course(i)'
  <2>1. CASE i # j  BY <1>0, <1>1, <1>3, <2>1 DEF Course, Is
  <2>2. CASE i = j  BY <1>0, <1>1, <2>2 DEF Course, Judging, Is
  <2> QED  BY <2>1, <2>2
<1>5. Judging(j)' => job'[j].pc # "done"  BY DEF Judging
<1>6. ASSUME NEW i \in Jobs, NEW k \in Jobs, i # k, Judging(i)', Judging(k)', job'[i].flag = job'[k].flag
      PROVE  job'[i].flag \in raced'
  <2>1. CASE i # j /\ k # j  BY <1>1, <1>3, <1>6, <2>1 DEF Apart
  <2>2. CASE i = j  BY <1>1, <1>3, <1>5, <1>6, <2>2
  <2>3. CASE k = j  BY <1>1, <1>3, <1>5, <1>6, <2>3
  <2> QED  BY <2>1, <2>2, <2>3
<1>7. Botched' = Botched  BY <1>0, <1>1 DEF Botched, Shape, Only, Is
<1>8. ASSUME NEW f \in DOMAIN flag, Clean(f)' PROVE Record(f)'
  <2>1. Clean(f) /\ Record(f)  BY <1>1, <1>7, <1>8 DEF Clean
  <2>2. \A i \in Jobs : Closing(i, f) => Closing(i, f)'  BY <1>0, <1>3 DEF Closing, Is
  <2> QED  BY <1>0, <2>1, <2>2 DEF Record
<1> QED  BY <1>0, <1>2, <1>4, <1>6, <1>8 DEF Apart

LEMMA InvDelete == ASSUME Inv, NEW j \in Jobs, DeleteMessage(j) PROVE Inv'
<1> USE DEF Inv
<1> DEFINE f0 == job[j].flag
<1>0. /\ UNCHANGED <<desk, flag, penal, raced, cut>> /\ Is(j, "delete") /\ gone' = gone \cup {f0} /\ Go(j)
      /\ \A i \in Jobs : Task(i)' = Task(i) /\ Review(i)' = Review(i) /\ Dismisses(i)' = Dismisses(i)
      BY DEF DeleteMessage, feedVars, Task, Review, Dismisses
<1>1. Only(j) /\ DOMAIN job'[j] = DOMAIN job[j] /\ job'[j].flag = f0 /\ job'[j].pc = "resolve"
      BY <1>0, GoMoves DEF After, Is
<1>2. Judging(j) /\ ~Dismisses(j) /\ f0 \in DOMAIN flag /\ (f0 \notin raced => flag[f0].st = "pending")
      BY <1>0 DEF Course, Judging, Is
<1>3. Shape'  BY <1>0, <1>1, <1>2 DEF Shape, Rows, Is, Only
<1>4. \A i \in Jobs : job'[i].flag = job[i].flag /\ (Judging(i)' <=> Judging(i))
      BY <1>0, <1>1, <1>2 DEF Judging, Only
<1>5. ASSUME NEW i \in Jobs PROVE Course(i)'
  <2>1. CASE i # j  BY <1>0, <1>1, <1>4, <2>1 DEF Course, Is, Only
  <2>2. CASE i = j  BY <1>0, <1>1, <1>2, <2>2 DEF Course, Is
  <2> QED  BY <2>1, <2>2
<1>6. Apart'  BY <1>0, <1>4 DEF Apart
<1>7. Botched' = Botched  BY <1>0, <1>4 DEF Botched, Shape
<1>8. \A f : f = f0 => Closing(j, f)'  BY <1>0, <1>1, <1>2, <1>4 DEF Closing, Is
<1>9. ASSUME NEW f \in DOMAIN flag, Clean(f)' PROVE Record(f)'
  <2>1. Clean(f) /\ Record(f)  BY <1>0, <1>7, <1>9 DEF Clean
  <2>2. \A i \in Jobs : Closing(i, f) => Closing(i, f)'  BY <1>0, <1>1, <1>4 DEF Closing, Is, Only
  <2>3. CASE f # f0  BY <1>0, <2>1, <2>2, <2>3 DEF Record
  <2>4. CASE f = f0
    <3>1. flag'[f].st = "pending" /\ penal' = penal  BY <1>0, <1>2, <2>1, <2>4 DEF Clean
    <3>2. \E i \in Jobs : Closing(i, f)'  BY <1>8, <2>4
    <3>3. \A p \in penal : p.flag # f  BY <1>0, <2>1, <3>1 DEF Record
    <3> QED  BY <3>1, <3>2, <3>3 DEF Record
  <2> QED  BY <2>3, <2>4
<1> QED  BY <1>0, <1>3, <1>5, <1>6, <1>9

LEMMA SeqUpdate ==
  ASSUME NEW R, NEW s \in Seq(R), NEW f \in DOMAIN s
  PROVE  s[f] \in R /\ \A r \in R : [s EXCEPT ![f] = r] \in Seq(R)
OBVIOUS

LEMMA RowUpdate ==
  ASSUME NEW U, NEW s \in Seq([user : U, st : Statuses]), NEW f \in DOMAIN s, NEW v \in Statuses
  PROVE  LET t == [s EXCEPT ![f].st = v]
         IN /\ t \in Seq([user : U, st : Statuses]) /\ DOMAIN t = DOMAIN s /\ t[f].st = v
            /\ \A g \in DOMAIN s : g # f => t[g] = s[g]
<1> DEFINE R == [user : U, st : Statuses]
           t == [s EXCEPT ![f].st = v]
<1>1. s[f] \in R /\ \A r \in R : [s EXCEPT ![f] = r] \in Seq(R)  BY SeqUpdate
<1>2. [s[f] EXCEPT !.st = v] \in R /\ [s[f] EXCEPT !.st = v].st = v  BY <1>1
<1>3. t = [s EXCEPT ![f] = [s[f] EXCEPT !.st = v]]  OBVIOUS
<1> QED  BY <1>1, <1>2, <1>3

LEMMA InvResolve == ASSUME Inv, NEW j \in Jobs, Resolve(j) PROVE Inv'
<1> USE DEF Inv
<1> DEFINE f0 == job[j].flag
           verdict == IF Dismisses(j) THEN "dismissed" ELSE "actioned"
<1>0. /\ UNCHANGED <<desk, gone, penal, raced, cut>> /\ Is(j, "resolve") /\ Go(j)
      /\ flag' = IF flag[f0].st # "pending" THEN flag ELSE [flag EXCEPT ![f0].st = verdict]
      /\ \A i \in Jobs : Task(i)' = Task(i) /\ Review(i)' = Review(i) /\ Dismisses(i)' = Dismisses(i)
      BY DEF Resolve, Task, Review, Dismisses
<1>1. Only(j) /\ DOMAIN job'[j] = DOMAIN job[j] /\ job'[j].flag = f0 /\ job'[j].pc = "count"
      BY <1>0, GoMoves DEF After, Is
<1>2. /\ Judging(j) /\ f0 \in DOMAIN flag /\ (f0 \notin raced => flag[f0].st = "pending")
      /\ (~Dismisses(j) => f0 \in gone)
      BY <1>0 DEF Course, Judging, Is
<1>3. /\ flag' \in Seq(Rows) /\ DOMAIN flag' = DOMAIN flag
      /\ \A f \in DOMAIN flag : f # f0 => flag'[f] = flag[f]
      /\ flag[f0].st # "pending" => flag' = flag
      /\ flag[f0].st = "pending" => flag'[f0].st = verdict
  <2>1. CASE flag[f0].st # "pending"  BY <1>0, <1>2, <2>1 DEF Shape
  <2>2. CASE flag[f0].st = "pending"
    <3>1. flag \in Seq(Rows) /\ verdict \in Statuses  BY DEF Shape, Statuses
    <3>2. flag' = [flag EXCEPT ![f0].st = verdict]  BY <1>0, <2>2
    <3> HIDE DEF f0, verdict
    <3> QED  BY <1>2, <2>2, <3>1, <3>2, RowUpdate DEF Rows
  <2> QED  BY <2>1, <2>2
<1>4. Shape'
  <2>1. Rows' = Rows  BY <1>0 DEF Rows
  <2>2. \A i \in Jobs : Is(i, "done") => Is(i, "done")'  BY <1>0, <1>1 DEF Is, Only
  <2>3. DOMAIN job' = Jobs /\ \A i \in Jobs : DOMAIN job'[i] = {"pc", "flag", "count", "rooms"}
        BY <1>1 DEF Shape, Only
  <2> QED  BY <1>0, <1>3, <2>1, <2>2, <2>3 DEF Shape
<1>5. \A i \in Jobs : job'[i].flag = job[i].flag /\ (Judging(i)' <=> Judging(i))
      BY <1>0, <1>1, <1>2 DEF Judging, Only
<1>6. \A i \in Jobs \ {j} : Judging(i) /\ job[i].flag = f0 => f0 \in raced  BY <1>2 DEF Apart
<1>7. ASSUME NEW i \in Jobs PROVE Course(i)'
  <2>1. CASE i # j
    <3>1. Judging(i) /\ job[i].flag \notin raced => flag'[job[i].flag] = flag[job[i].flag]
          BY <1>3, <1>6, <2>1 DEF Course
    <3>2. job'[i] = job[i] /\ Course(i)  BY <1>1, <2>1 DEF Only
    <3> HIDE DEF f0, verdict
    <3> QED  BY <1>0, <1>3, <1>5, <3>1, <3>2 DEF Course, Is
  <2>2. CASE i = j  BY <1>0, <1>1, <1>2, <1>3, <1>5, <2>2 DEF Course, Is
  <2> QED  BY <2>1, <2>2
<1>8. Apart'  BY <1>0, <1>5 DEF Apart
<1>9. Botched' = Botched  BY <1>0, <1>5 DEF Botched, Shape
<1>10. ASSUME NEW f \in DOMAIN flag, Clean(f)' PROVE Record(f)'
  <2>1. Clean(f) /\ Record(f)  BY <1>0, <1>9, <1>10 DEF Clean
  <2>2. CASE f # f0
    <3>1. \A i \in Jobs : Closing(i, f) => Closing(i, f)'
          BY <1>0, <1>1, <1>5, <2>2 DEF Closing, Is, Only
    <3> QED  BY <1>0, <1>3, <2>1, <2>2, <3>1 DEF Record
  <2>3. CASE f = f0
    <3>1. flag[f].st = "pending" /\ flag'[f].st = verdict /\ f \notin raced
          BY <1>2, <1>3, <2>1, <2>3 DEF Clean
    <3>2. CASE ~Dismisses(j)  BY <1>0, <1>2, <2>3, <3>1, <3>2 DEF Record
    <3>3. CASE Dismisses(j)
      <4>1. \A i \in Jobs : ~Closing(i, f)  BY <1>6, <2>3, <3>1, <3>3 DEF Closing
      <4> QED  BY <1>0, <2>1, <3>1, <3>3, <4>1 DEF Record
    <3> QED  BY <3>2, <3>3
  <2> QED  BY <2>2, <2>3
<1> QED  BY <1>3, <1>4, <1>7, <1>8, <1>10

\* A sentence is passed on no dismissed flag, and on none that is still open.
LEMMA InvSentence ==
  ASSUME Inv, NEW j \in Jobs, NEW kind, Is(j, "insertBan") \/ Is(j, "insertMute"),
         UNCHANGED <<desk, flag, gone, raced, cut>>, penal' = penal \cup {Sentence(j, kind)}, Go(j)
  PROVE  Inv'
<1> USE DEF Inv
<1> DEFINE f0 == job[j].flag
<1>0. \A i \in Jobs : Task(i)' = Task(i) /\ Review(i)' = Review(i) /\ Dismisses(i)' = Dismisses(i)
      BY DEF Task, Review, Dismisses
<1>1. /\ Only(j) /\ DOMAIN job'[j] = DOMAIN job[j] /\ job'[j].flag = f0
      /\ job'[j].pc \in {"revoke", "answer", "done"}
      BY GoMoves DEF After, Last, Is
<1>2. \/ f0 = 0
      \/ Judging(j) /\ f0 \in DOMAIN flag /\ (f0 \notin raced => flag[f0].st = "actioned")
      BY DEF Course, Judging, Is
<1>3. Shape'  BY <1>0, <1>1, <1>2 DEF Shape, Rows, Is, Only, Sentence
<1>4. \A i \in Jobs : job'[i].flag = job[i].flag /\ (Judging(i)' => Judging(i))
      BY <1>0, <1>1 DEF Judging, Only, Is
<1>5. ASSUME NEW i \in Jobs PROVE Course(i)'
  <2>1. CASE i # j  BY <1>0, <1>1, <1>4, <2>1 DEF Course, Is, Only
  <2>2. CASE i = j  BY <1>0, <1>1, <1>4, <2>2 DEF Course, Is
  <2> QED  BY <2>1, <2>2
<1>6. Apart'  BY <1>4 DEF Apart
<1>7. Botched' = Botched  BY <1>4 DEF Botched, Shape
<1>8. ASSUME NEW f \in DOMAIN flag, Clean(f)' PROVE Record(f)'
  <2>1. Clean(f) /\ Record(f)  BY <1>7, <1>8 DEF Clean
  <2>2. \A i \in Jobs : Closing(i, f) => Closing(i, f)'  BY <1>0, <1>1 DEF Closing, Judging, Is, Only
  <2>3. flag[f].st # "actioned" => f # f0
    <3>1. DOMAIN flag = 1..Len(flag)  BY DEF Shape
    <3> QED  BY <1>2, <2>1, <3>1 DEF Clean
  <2> QED  BY <2>1, <2>2, <2>3 DEF Record, Sentence
<1> QED  BY <1>3, <1>5, <1>6, <1>8

LEMMA InvBan == ASSUME Inv, NEW j \in Jobs, InsertBan(j) PROVE Inv'
BY InvSentence DEF InsertBan, feedVars

LEMMA InvMute == ASSUME Inv, NEW j \in Jobs, InsertMute(j) PROVE Inv'
BY InvSentence DEF InsertMute, feedVars

LEMMA InvLift == ASSUME Inv, NEW j \in Jobs, Lift(j) PROVE Inv'
<1> USE DEF Inv
<1>0. /\ UNCHANGED <<desk, flag, gone, raced, cut>> /\ Is(j, "lift") /\ penal' \subseteq penal /\ Go(j)
      /\ \A i \in Jobs : Task(i)' = Task(i) /\ Review(i)' = Review(i) /\ Dismisses(i)' = Dismisses(i)
      BY DEF Lift, feedVars, Task, Review, Dismisses
<1>1. Only(j) /\ DOMAIN job'[j] = DOMAIN job[j] /\ job'[j].flag = job[j].flag /\ job'[j].pc = "done"
      BY <1>0, GoMoves DEF After, Is
<1>2. Shape'  BY <1>0, <1>1 DEF Shape, Rows, Is, Only
<1>3. \A i \in Jobs : job'[i].flag = job[i].flag /\ (Judging(i)' => Judging(i))
      BY <1>0, <1>1 DEF Judging, Only
<1>4. ASSUME NEW i \in Jobs PROVE Course(i)'
  <2>1. CASE i # j  BY <1>0, <1>1, <1>3, <2>1 DEF Course, Is, Only
  <2>2. CASE i = j  BY <1>0, <1>1, <1>3, <2>2 DEF Course, Judging, Is
  <2> QED  BY <2>1, <2>2
<1>5. Apart'  BY <1>0, <1>3 DEF Apart
<1>6. Botched' = Botched  BY <1>0, <1>3 DEF Botched, Shape
<1>7. ASSUME NEW f \in DOMAIN flag, Clean(f)' PROVE Record(f)'
  <2>1. Clean(f) /\ Record(f)  BY <1>0, <1>6, <1>7 DEF Clean
  <2>2. \A i \in Jobs : Closing(i, f) => Closing(i, f)'  BY <1>0, <1>1 DEF Closing, Judging, Is, Only
  <2> QED  BY <1>0, <2>1, <2>2 DEF Record
<1> QED  BY <1>0, <1>2, <1>4, <1>5, <1>7

\* The statements that change no flag, message or sanction.
LEMMA InvMove ==
  ASSUME Inv, NEW j \in Jobs,
         CountFlags(j) \/ PublishCount(j) \/ Permit(j) \/ RevokeTokens(j) \/ SelectRooms(j)
         \/ LeaveRooms(j) \/ Announce(j) \/ Answer(j)
  PROVE  Inv'
<1> DEFINE same == UNCHANGED <<desk, flag, gone, penal, raced, cut>>
           moves(s) == /\ Only(j) /\ DOMAIN job'[j] = DOMAIN job[j]
                       /\ job'[j].flag = job[j].flag /\ job'[j].pc = s
<1>0. Shape /\ Course(j)  BY DEF Inv
<1>1. CASE CountFlags(j)
  <2>1. same /\ Is(j, "count") /\ moves("publish")
        BY <1>0, <1>1 DEF CountFlags, feedVars, caseVars, Shape, Only
  <2> QED  BY <2>1, PcMove DEF Is, Past
<1>2. CASE PublishCount(j)
  <2>1. same /\ Is(j, "publish") /\ moves(After(Task(j), "publish"))
        BY <1>0, <1>2, GoMoves DEF PublishCount, caseVars, Is
  <2>2. \/ job'[j].pc = "permit" /\ Review(j) /\ ~Dismisses(j)
        \/ job'[j].pc \in {"answer", "done"}
        BY <2>1 DEF After, Last, Review, Dismisses
  <2> QED  BY <2>1, <2>2, PcMove DEF Is, Past
<1>3. CASE Permit(j)
  <2>1. same /\ Is(j, "permit")  BY <1>3 DEF Permit, feedVars, caseVars
  <2>2. \E s \in {"done", "answer", "insertBan", "insertMute"} : moves(s)
    <3>1. CASE Stop(j)  BY <1>0, <3>1, StopMoves
    <3>2. CASE Go(j)  BY <1>0, <2>1, <3>2, GoMoves DEF After, Is
    <3>3. CASE job' = [job EXCEPT ![j].pc = Last(Task(j))]  BY <1>0, <3>3 DEF Last, Shape, Only
    <3> QED  BY <1>3, <3>1, <3>2, <3>3 DEF Permit
  <2>3. Judging(j) => ~Dismisses(j)  BY <1>0, <2>1 DEF Course, Is
  <2> QED  BY <2>1, <2>2, <2>3, PcMove DEF Is, Past
<1>4. CASE RevokeTokens(j)
  <2>1. same /\ Is(j, "revoke") /\ moves("rooms")
        BY <1>0, <1>4, GoMoves DEF RevokeTokens, feedVars, caseVars, After, Is
  <2> QED  BY <2>1, PcMove DEF Is, Past
<1>5. CASE SelectRooms(j)
  <2>1. same /\ Is(j, "rooms") /\ moves("leave")
        BY <1>0, <1>5 DEF SelectRooms, feedVars, caseVars, Shape, Only
  <2> QED  BY <2>1, PcMove DEF Is, Past
<1>6. CASE LeaveRooms(j)
  <2>1. same /\ Is(j, "leave") /\ moves("announce")
        BY <1>0, <1>6, GoMoves DEF LeaveRooms, feedVars, caseVars, After, Is
  <2> QED  BY <2>1, PcMove DEF Is, Past
<1>7. CASE Announce(j)
  <2>1. same /\ Is(j, "announce") /\ moves(Last(Task(j)))
        BY <1>0, <1>7, GoMoves DEF Announce, feedVars, caseVars, After, Is
  <2>2. job'[j].pc \in {"answer", "done"}  BY <2>1 DEF Last
  <2> QED  BY <2>1, <2>2, PcMove DEF Is, Past
<1>8. CASE Answer(j)
  <2>1. same /\ Is(j, "answer") /\ moves("done")
        BY <1>0, <1>8, GoMoves DEF Answer, feedVars, caseVars, After, Is
  <2> QED  BY <2>1, PcMove DEF Is, Past
<1> QED  BY <1>1, <1>2, <1>3, <1>4, <1>5, <1>6, <1>7, <1>8

LEMMA InvWork == ASSUME Inv, NEW j \in Jobs, Work(j) PROVE Inv'
BY InvInsertFlag, InvReadFlag, InvDelete, InvResolve, InvBan, InvMute, InvLift, InvMove DEF Work

\* The bell, the tab, the queue and the members of the rooms.
LEMMA Elsewhere ==
  ASSUME \/ BellNext /\ UNCHANGED queueVars
         \/ ReadCount \/ Receive \/ OpenQueue \/ CloseQueue
         \/ \E k \in 1..MaxFetches : LoadReads(k) \/ LoadShows(k)
         \/ \E u \in Users : Enter(u) \/ \E r \in Rooms : PassGate(u, r) \/ JoinRoom(u, r)
  PROVE  UNCHANGED caseState
<1> USE DEF caseState, feedVars, queueVars, caseVars
<1>1. CASE BellNext /\ UNCHANGED queueVars
  <2>1. desk' = desk
    BY <1>1 DEF BellNext, Insert, Connect, JoinQueueRoom, ReadNotes, SendBootstrap, Break, PatchApplies,
       PatchFails, OpenPanel, Emit, EmitLost
  <2> QED  BY <1>1, <2>1
<1>2. CASE ReadCount  BY <1>2 DEF ReadCount
<1>3. CASE Receive \/ OpenQueue \/ CloseQueue  BY <1>3 DEF Receive, OpenQueue, CloseQueue
<1>4. CASE \E k \in 1..MaxFetches : LoadReads(k) \/ LoadShows(k)  BY <1>4 DEF LoadReads, LoadShows
<1>5. CASE \E u \in Users : Enter(u) \/ \E r \in Rooms : PassGate(u, r) \/ JoinRoom(u, r)
      BY <1>5 DEF Enter, PassGate, JoinRoom
<1> QED  BY <1>1, <1>2, <1>3, <1>4, <1>5

\* Every statement of every request, and everything around them, keeps it.
THEOREM InvNext == Inv /\ [QueueNext]_deskVars => Inv'
<1> SUFFICES ASSUME Inv, [QueueNext]_deskVars PROVE Inv'  OBVIOUS
<1>1. CASE UNCHANGED deskVars
      BY <1>1, InvStutter DEF deskVars, feedVars, queueVars, caseVars, caseState
<1>2. CASE \E j \in Jobs : Arrive(j) \/ Fail(j) \/ Work(j)  BY <1>2, InvArrive, InvFail, InvWork
<1>3. CASE \/ BellNext /\ UNCHANGED queueVars
           \/ ReadCount \/ Receive \/ OpenQueue \/ CloseQueue
           \/ \E k \in 1..MaxFetches : LoadReads(k) \/ LoadShows(k)
           \/ \E u \in Users : Enter(u) \/ \E r \in Rooms : PassGate(u, r) \/ JoinRoom(u, r)
      BY <1>3, Elsewhere, InvStutter
<1> QED  BY <1>1, <1>2, <1>3 DEF QueueNext

\* The invariant says more than the property.
LEMMA InvAgrees == Inv => VerdictsAgree
BY DEF Inv, Shape, Rows, Statuses, Clean, Record, VerdictsAgree

(* Whatever requests overlap, fail or repeat: over a flag that two verdicts did  *)
(* not judge at once the stored outcome is that of one verdict.                   *)
THEOREM OneVerdict == ModerationSpec => []VerdictsAgree
<1>1. ModerationSpec => []Inv  BY InvInit, InvNext, PTL DEF ModerationSpec
<1> QED  BY <1>1, InvAgrees, PTL

---------------------------------------------------------------------------
(* BannedOut compares what is stored when a ban is over.  While one is under   *)
(* way, a banned user's rooms are known to a ban that is about to leave them,   *)
(* or a ban of that user has yet to look.                                       *)
Doomed(u, r) == \E j \in Jobs : Is(j, "leave") /\ Subject(j) = u /\ r \in job[j].rooms
OutInv ==
  cut = {} => \A u \in Users \ late : Banned(u) /\ ~Impending(u) => \A r \in RoomsOf(u) : Doomed(u, r)

\* No flag changes its author.
AuthorsStay == \A f \in DOMAIN flag : f \in DOMAIN flag' /\ flag'[f].user = flag[f].user

LEMMA AuthorsKept == ASSUME Inv, NEW j \in Jobs, Work(j) PROVE AuthorsStay
<1> USE DEF AuthorsStay
<1>1. flag \in Seq(Rows)  BY DEF Inv, Shape
<1>2. CASE InsertFlag(j)
  <2>1. flag' = Append(flag, [user |-> Task(j).user, st |-> "pending"])  BY <1>2 DEF InsertFlag
  <2>2. [user |-> Task(j).user, st |-> "pending"] \in Rows  BY DEF Rows, Task, Statuses
  <2> QED  BY <1>1, <2>1, <2>2
<1>3. CASE Resolve(j)
  <2> DEFINE f0 == job[j].flag
  <2>1. \/ flag' = flag
        \/ \E v \in Statuses : flag' = [flag EXCEPT ![f0].st = v]
        BY <1>3 DEF Resolve, Statuses
  <2>4. \A f \in DOMAIN flag : flag[f] \in Rows  BY <1>1
  <2>2. \A f \in DOMAIN flag : DOMAIN flag[f] = {"user", "st"}  BY <2>4 DEF Rows
  <2> HIDE DEF f0
  <2>3. ASSUME NEW v \in Statuses, flag' = [flag EXCEPT ![f0].st = v], NEW f \in DOMAIN flag
        PROVE  f \in DOMAIN flag' /\ flag'[f].user = flag[f].user
    <3>1. flag'[f] = IF f = f0 THEN [flag[f] EXCEPT !.st = v] ELSE flag[f]  BY <2>3
    <3>2. [flag[f] EXCEPT !.st = v].user = flag[f].user  BY <2>2
    <3> QED  BY <2>3, <3>1, <3>2
  <2> QED  BY <2>1, <2>3
<1>4. CASE ~InsertFlag(j) /\ ~Resolve(j)
  <2>1. flag' = flag
    BY <1>4 DEF Work, ReadFlag, DeleteMessage, CountFlags, PublishCount, Permit, InsertBan, InsertMute,
       RevokeTokens, SelectRooms, LeaveRooms, Announce, Lift, Answer, caseVars
  <2> QED  BY <2>1
<1> QED  BY <1>2, <1>3, <1>4

\* Whom a ban under way is about does not change.
LEMMA SubjectStays ==
  ASSUME Inv, AuthorsStay, NEW i \in Jobs, desk' = desk, job'[i].flag = job[i].flag,
         job[i].pc \in {"insertBan", "revoke", "rooms", "leave"}
  PROVE  Subject(i)' = Subject(i)
<1>1. Review(i) => job[i].flag \in DOMAIN flag  BY DEF Inv, Course, Judging
<1> QED  BY <1>1 DEF AuthorsStay, Subject, Task, Review

\* A step of one request: a ban reads the rooms once it is in force, and leaves what it read.
LEMMA OutMoves ==
  ASSUME Inv, OutInv, AuthorsStay, NEW j \in Jobs, Only(j),
         UNCHANGED <<desk, late, cut>>,
         job[j].pc = "todo" \/ job'[j].flag = job[j].flag,
         member' \subseteq member,
         \A u \in Users : Banned(u)' => Banned(u) \/ (job'[j].pc = "revoke" /\ Subject(j)' = u),
         job[j].pc \in {"insertBan", "revoke"} => job'[j].pc \in {"revoke", "rooms"},
         Is(j, "rooms") => job'[j].pc = "leave" /\ job'[j].rooms = RoomsOf(Subject(j)),
         Is(j, "leave") => member' = member \ {<<Subject(j), r>> : r \in job[j].rooms}
  PROVE  OutInv'
<1> SUFFICES ASSUME cut = {}, NEW u \in Users \ late, Banned(u)', ~Impending(u)', NEW r \in RoomsOf(u)'
             PROVE  Doomed(u, r)'
    BY DEF OutInv
<1>1. r \in RoomsOf(u) /\ <<u, r>> \in member'  BY DEF RoomsOf
<1>2. ASSUME NEW i \in Jobs, i # j, job[i].pc \in {"insertBan", "revoke", "rooms", "leave"}
      PROVE  job'[i] = job[i] /\ Subject(i)' = Subject(i)
      BY <1>2, SubjectStays DEF Only
<1>3. job[j].pc \in {"insertBan", "revoke", "rooms", "leave"} => Subject(j)' = Subject(j)
      BY SubjectStays
<1>4. ~ (job[j].pc \in {"insertBan", "revoke"} /\ Subject(j) = u)  BY <1>3 DEF Impending
<1>5. CASE Is(j, "rooms") /\ Subject(j) = u
      BY <1>1, <1>3, <1>5 DEF Doomed, Is
<1>6. CASE ~ (Is(j, "rooms") /\ Subject(j) = u)
  <2>1. ~Impending(u)  BY <1>2, <1>4, <1>6 DEF Impending, Is
  <2>2. Banned(u)  BY DEF Impending
  <2>3. PICK i \in Jobs : Is(i, "leave") /\ Subject(i) = u /\ r \in job[i].rooms
        BY <1>1, <2>1, <2>2 DEF OutInv, Doomed
  <2>4. i # j  BY <1>1, <2>3
  <2> QED  BY <1>2, <2>3, <2>4 DEF Doomed, Is
<1> QED  BY <1>5, <1>6

LEMMA OutArrive == ASSUME Inv, OutInv, NEW j \in Jobs, Arrive(j) PROVE OutInv'
<1>1. /\ UNCHANGED <<desk, flag, penal, member, late, cut>> /\ Is(j, "todo")
      BY DEF Arrive, feedVars, caseVars, userVars
<1>2. Only(j)  BY DEF Arrive, Only, Inv, Shape
<1>3. AuthorsStay  BY <1>1 DEF AuthorsStay
<1> QED  BY <1>1, <1>2, <1>3, OutMoves DEF Is, Banned

LEMMA OutWork == ASSUME Inv, OutInv, NEW j \in Jobs, Work(j) PROVE OutInv'
<1>0. AuthorsStay /\ Shape  BY AuthorsKept DEF Inv
<1>1. CASE InsertFlag(j) \/ ReadFlag(j) \/ DeleteMessage(j) \/ Resolve(j) \/ CountFlags(j) \/ PublishCount(j)
           \/ Permit(j) \/ InsertMute(j) \/ Announce(j) \/ Answer(j)
  <2>1. /\ UNCHANGED <<desk, late, cut, member>>
        /\ job[j].pc \notin {"insertBan", "revoke", "rooms", "leave"}
        BY <1>1 DEF InsertFlag, ReadFlag, DeleteMessage, Resolve, CountFlags, PublishCount, Permit, InsertMute,
           Announce, Answer, feedVars, caseVars, userVars, Is
  <2>2. Only(j) /\ job'[j].flag = job[j].flag
    <3>1. CASE Go(j)  BY <1>0, <3>1, GoMoves
    <3>2. CASE Stop(j)  BY <1>0, <3>2, StopMoves
    <3>3. CASE CountFlags(j)  BY <1>0, <3>3 DEF CountFlags, Shape, Only
    <3>4. CASE job' = [job EXCEPT ![j].pc = Last(Task(j))]  BY <1>0, <3>4 DEF Shape, Only
    <3> QED  BY <1>1, <3>1, <3>2, <3>3, <3>4 DEF InsertFlag, ReadFlag, DeleteMessage, Resolve, PublishCount,
             Permit, InsertMute, Announce, Answer
  <2>3. \A u \in Users : Banned(u)' => Banned(u)
    <3>1. CASE InsertMute(j)  BY <3>1 DEF InsertMute, Banned, Sentence
    <3>2. CASE ~InsertMute(j)
      <4>1. penal' = penal
            BY <1>1, <3>2 DEF InsertFlag, ReadFlag, DeleteMessage, Resolve, CountFlags, PublishCount, Permit,
               Announce, Answer, caseVars
      <4> QED  BY <4>1 DEF Banned
    <3> QED  BY <3>1, <3>2
  <2> QED  BY <1>0, <2>1, <2>2, <2>3, OutMoves DEF Is
<1>2. CASE InsertBan(j)
  <2>1. /\ UNCHANGED <<desk, late, cut, member>> /\ Is(j, "insertBan") /\ Go(j)
        /\ penal' = penal \cup {Sentence(j, "ban")}
        BY <1>2 DEF InsertBan, feedVars, userVars
  <2>2. Only(j) /\ job'[j].flag = job[j].flag /\ job'[j].pc = "revoke"
        BY <1>0, <2>1, GoMoves DEF After, Is
  <2>3. Subject(j)' = Subject(j)  BY <1>0, <2>1, <2>2, SubjectStays DEF Is
  <2>4. \A u \in Users : Banned(u)' => Banned(u) \/ Subject(j)' = u
        BY <2>1, <2>3 DEF Banned, Sentence
  <2> QED  BY <1>0, <2>1, <2>2, <2>4, OutMoves DEF Is
<1>3. CASE RevokeTokens(j)
  <2>1. UNCHANGED <<desk, late, cut, member, penal>> /\ Is(j, "revoke") /\ Go(j)
        BY <1>3 DEF RevokeTokens, feedVars, caseVars
  <2>2. Only(j) /\ job'[j].flag = job[j].flag /\ job'[j].pc = "rooms"
        BY <1>0, <2>1, GoMoves DEF After, Is
  <2> QED  BY <1>0, <2>1, <2>2, OutMoves DEF Is, Banned
<1>4. CASE SelectRooms(j)
  <2>1. UNCHANGED <<desk, late, cut, member, penal>> /\ Is(j, "rooms")
        BY <1>4 DEF SelectRooms, feedVars, caseVars, userVars
  <2>2. Only(j) /\ job'[j].flag = job[j].flag /\ job'[j].pc = "leave" /\ job'[j].rooms = RoomsOf(Subject(j))
        BY <1>0, <1>4 DEF SelectRooms, Shape, Only
  <2> QED  BY <1>0, <2>1, <2>2, OutMoves DEF Is, Banned
<1>5. CASE LeaveRooms(j)
  <2>1. /\ UNCHANGED <<desk, late, cut, penal>> /\ Is(j, "leave") /\ Go(j)
        /\ member' = member \ {<<Subject(j), r>> : r \in job[j].rooms}
        BY <1>5 DEF LeaveRooms, feedVars, caseVars
  <2>2. Only(j) /\ job'[j].flag = job[j].flag
        BY <1>0, <2>1, GoMoves
  <2> QED  BY <1>0, <2>1, <2>2, OutMoves DEF Is, Banned
<1>6. CASE Lift(j)
  <2>1. UNCHANGED <<desk, late, cut, member>> /\ penal' \subseteq penal /\ Is(j, "lift") /\ Go(j)
        BY <1>6 DEF Lift, feedVars, userVars
  <2>2. Only(j) /\ job'[j].flag = job[j].flag
        BY <1>0, <2>1, GoMoves
  <2> QED  BY <1>0, <2>1, <2>2, OutMoves DEF Is, Banned
<1> QED  BY <1>1, <1>2, <1>3, <1>4, <1>5, <1>6 DEF Work

\* The users' side: only a join adds to a user's rooms, and one behind a ban's back is noted.
LEMMA OutUsers ==
  ASSUME Inv, OutInv, UNCHANGED caseState,
         UNCHANGED <<member, late>> \/ \E u \in Users, r \in Rooms : JoinRoom(u, r)
  PROVE  OutInv'
<1>1. /\ \A u : (Banned(u)' <=> Banned(u)) /\ (Impending(u)' <=> Impending(u))
      /\ \A u, r : Doomed(u, r)' <=> Doomed(u, r)
      BY DEF caseState, Banned, Impending, Doomed, Subject, Task, Is
<1>2. CASE member' = member /\ late' = late
      BY <1>1, <1>2 DEF OutInv, caseState, RoomsOf
<1>3. CASE \E u \in Users, r \in Rooms : JoinRoom(u, r)
  <2>1. PICK u \in Users, r \in Rooms : JoinRoom(u, r)  BY <1>3
  <2>2. /\ member' = member \cup {<<u, r>>}
        /\ late' = IF Banned(u) /\ ~Impending(u) THEN late \cup {u} ELSE late
        BY <2>1 DEF JoinRoom
  <2> SUFFICES ASSUME cut = {}, NEW v \in Users \ late', Banned(v)', ~Impending(v)', NEW q \in RoomsOf(v)'
               PROVE  Doomed(v, q)'
      BY DEF OutInv, caseState
  <2>3. v \notin late /\ v # u  BY <1>1, <2>2
  <2>4. q \in RoomsOf(v)  BY <2>2, <2>3 DEF RoomsOf
  <2> QED  BY <1>1, <2>3, <2>4 DEF OutInv
<1> QED  BY <1>2, <1>3

\* At the start nobody is in a room.
LEMMA OutInit == QueueInit => OutInv
BY DEF QueueInit, OutInv, RoomsOf

LEMMA OutNext == ASSUME Inv, OutInv, [QueueNext]_deskVars PROVE OutInv'
<1>1. CASE UNCHANGED deskVars
  <2>1. UNCHANGED caseState /\ member' = member /\ late' = late
        BY <1>1 DEF deskVars, feedVars, queueVars, caseVars, userVars, caseState
  <2> QED  BY <2>1, OutUsers
<1>2. CASE \E j \in Jobs : Arrive(j) \/ Work(j)  BY <1>2, OutArrive, OutWork
<1>3. CASE \E j \in Jobs : Fail(j)
      BY <1>3 DEF Fail, OutInv
<1>4. CASE \E u \in Users, r \in Rooms : JoinRoom(u, r)
  <2>1. UNCHANGED caseState  BY <1>4, Elsewhere
  <2> QED  BY <1>4, <2>1, OutUsers
<1>5. CASE \/ BellNext /\ UNCHANGED queueVars
           \/ ReadCount \/ Receive \/ OpenQueue \/ CloseQueue
           \/ \E k \in 1..MaxFetches : LoadReads(k) \/ LoadShows(k)
           \/ \E u \in Users : Enter(u) \/ \E r \in Rooms : PassGate(u, r)
  <2>1. UNCHANGED caseState  BY <1>5, Elsewhere
  <2>2. member' = member /\ late' = late
        BY <1>5 DEF queueVars, userVars, ReadCount, Receive, OpenQueue, CloseQueue, LoadReads, LoadShows,
           Enter, PassGate
  <2> QED  BY <2>1, <2>2, OutUsers
<1> QED  BY <1>1, <1>2, <1>3, <1>4, <1>5 DEF QueueNext

(* However bans, lifts, sign-ins and joins overlap: a banned user is in no      *)
(* encrypted topic once the bans are through, unless a join ran into one.        *)
THEOREM BanEmptiesRooms == ModerationSpec => []BannedOut
<1>1. Inv /\ OutInv /\ [QueueNext]_deskVars => OutInv'  BY OutNext
<1>2. OutInv => BannedOut
  <2> SUFFICES ASSUME OutInv, NEW u \in Users \ late, Banned(u), cut = {},
                      \A j \in Jobs : Running(j) => Subject(j) # u
               PROVE  RoomsOf(u) = {}
      BY DEF BannedOut
  <2>1. ~Impending(u)  BY DEF Impending, Running
  <2>2. \A r : ~Doomed(u, r)  BY DEF Doomed, Running, Is
  <2> QED  BY <2>1, <2>2 DEF OutInv
<1> QED  BY InvInit, InvNext, OutInit, <1>1, <1>2, PTL DEF ModerationSpec

Fields == {"op", "pc", "dev", "sid", "jti", "sel", "seen"}
Forms ==
  /\ DOMAIN row = Sids /\ \A s \in Sids : DOMAIN row[s] = {"state", "jti"}
  /\ DOMAIN session = Jtis
  /\ DOMAIN call = Calls /\ \A p \in Calls : DOMAIN call[p] = Fields

\* Only a refresh comes to mint.
MintsRefresh == \A p \in Calls : call[p].pc = "mint" => call[p].op = "refresh"

CloseInv == Forms /\ MintsRefresh

Shut(s) == Closed(s) /\ ~ Refreshing(s)

\* What a step does to a session that is shut: nothing, but that it may be
\* deleted, and that its tokens may expire or be blocked.
LeavesShut ==
  \A s \in Sids : Shut(s) =>
    /\ Closed(s)'
    /\ \A p \in Calls : call'[p].op = "refresh" => call'[p].sid # s
    /\ \A j \in Jtis : session'[j] = s => session[j] = s /\ (j \in blocked => j \in blocked')

LEMMA CloseInit ==
  ASSUME Init
  PROVE  CloseInv
BY DEF Init, CloseInv, Forms, MintsRefresh, Idle, Fields

\* A request becomes c.
LEMMA CallBecomes ==
  ASSUME CloseInv, UNCHANGED <<row, session>>, blocked \subseteq blocked', NEW p \in Calls,
         NEW c, call' = [call EXCEPT ![p] = c], DOMAIN c = Fields,
         c.pc = "mint" => c.op = "refresh",
         c.op = "refresh" => (call[p].op = "refresh" /\ c.sid = call[p].sid) \/ ~ Closed(c.sid)
  PROVE  CloseInv' /\ LeavesShut
<1>1. call'[p] = c /\ DOMAIN call' = Calls /\ \A q \in Calls : q # p => call'[q] = call[q]
  BY DEF CloseInv, Forms
<1>2. CloseInv'
  BY <1>1 DEF CloseInv, Forms, MintsRefresh
<1>3. ASSUME NEW s \in Sids, Shut(s)
      PROVE  /\ Closed(s)'
             /\ \A q \in Calls : call'[q].op = "refresh" => call'[q].sid # s
             /\ \A j \in Jtis : session'[j] = s => session[j] = s /\ (j \in blocked => j \in blocked')
  BY <1>1, <1>3 DEF Shut, Closed, Refreshing
<1>4. QED
  BY <1>2, <1>3 DEF LeavesShut

\* The requests' steps that leave rows and tokens alone.
LEMMA CallSteps ==
  ASSUME CloseInv, NEW p \in Calls,
         \/ \E d \in Devices : RefreshRead(p, d) \/ HttpRead(p, d) \/ LogoutStart(p, d)
         \/ BanInsert(p) \/ RevokeStart(p) \/ LiftUpdate(p) \/ Abort(p)
         \/ BanCacheGet(p) \/ BanRead(p) \/ BanCacheSet(p) \/ Respond(p) \/ Serve(p)
         \/ LogoutBlock(p) \/ LogoutPublish(p) \/ LogoutClear(p) \/ RevokeSelect(p) \/ RevokeBlock(p)
         \/ BanCacheWrite(p) \/ BanPublish(p) \/ LiftUncache(p)
  PROVE  CloseInv' /\ LeavesShut
<1>0. DOMAIN call = Calls /\ DOMAIN call[p] = Fields
  BY DEF CloseInv, Forms
<1>1. UNCHANGED <<row, session>> /\ blocked \subseteq blocked'
  BY DEF RefreshRead, HttpRead, LogoutStart, BanInsert, RevokeStart, LiftUpdate, Abort, BanCacheGet, BanRead,
         BanCacheSet, Respond, Serve, LogoutBlock, LogoutPublish, LogoutClear, RevokeSelect, RevokeBlock,
         BanCacheWrite, BanPublish, LiftUncache, stored
<1>2. ASSUME NEW pc, Goto(p, pc), pc = "mint" => call[p].op = "refresh"
      PROVE  CloseInv' /\ LeavesShut
  <2> DEFINE c == [call[p] EXCEPT !.pc = pc]
  <2>1. call' = [call EXCEPT ![p] = c] /\ DOMAIN c = Fields /\ c.pc = pc /\ c.op = call[p].op /\ c.sid = call[p].sid
    BY <1>0, <1>2 DEF Goto, Fields
  <2> HIDE DEF c
  <2>2. QED
    BY <1>1, <1>2, <2>1, CallBecomes
<1>3. ASSUME Done(p)
      PROVE  CloseInv' /\ LeavesShut
  <2>1. call' = [call EXCEPT ![p] = Idle]
    BY <1>3 DEF Done
  <2>2. DOMAIN Idle = Fields /\ Idle.pc = "idle" /\ Idle.op = "none"
    BY DEF Idle, Fields
  <2>3. QED
    BY <1>1, <2>1, <2>2, CallBecomes
<1>4. ASSUME NEW op, NEW pc, NEW d, NEW s, NEW j, Begin(p, op, pc, d, s, j), pc # "mint", op = "refresh" => ~ Closed(s)
      PROVE  CloseInv' /\ LeavesShut
  <2> DEFINE c == [op |-> op, pc |-> pc, dev |-> d, sid |-> s, jti |-> j, sel |-> {}, seen |-> FALSE]
  <2>1. call' = [call EXCEPT ![p] = c] /\ DOMAIN c = Fields /\ c.pc = pc /\ c.op = op /\ c.sid = s
    BY <1>4 DEF Begin, Fields
  <2> HIDE DEF c
  <2>2. QED
    BY <1>1, <1>4, <2>1, CallBecomes
<1>5. CASE \E d \in Devices : RefreshRead(p, d) \/ HttpRead(p, d) \/ LogoutStart(p, d)
  BY <1>4, <1>5 DEF RefreshRead, HttpRead, LogoutStart, Open, Closed
<1>6. CASE BanInsert(p) \/ LiftUpdate(p)
  BY <1>4, <1>6 DEF BanInsert, LiftUpdate
<1>7. CASE BanCacheGet(p) \/ BanCacheSet(p)
  BY <1>2, <1>3, <1>7 DEF BanCacheGet, BanCacheSet, Verdict
<1>8. CASE Abort(p) \/ Respond(p) \/ Serve(p) \/ LogoutClear(p) \/ BanPublish(p) \/ LiftUncache(p)
  BY <1>3, <1>8 DEF Abort, Respond, Serve, LogoutClear, BanPublish, LiftUncache
<1>9. CASE LogoutBlock(p) \/ LogoutPublish(p) \/ BanCacheWrite(p)
  BY <1>2, <1>9 DEF LogoutBlock, LogoutPublish, BanCacheWrite
<1>10. CASE RevokeStart(p)
  <2> DEFINE c == [Idle EXCEPT !.op = "revoke", !.pc = "block", !.sel = OpenJtis]
  <2>1. call' = [call EXCEPT ![p] = c] /\ DOMAIN c = Fields /\ c.pc = "block" /\ c.op = "revoke"
    BY <1>10 DEF RevokeStart, Idle, Fields
  <2> HIDE DEF c
  <2>2. QED
    BY <1>1, <2>1, CallBecomes
<1>11. ASSUME NEW c, call' = [call EXCEPT ![p] = c], DOMAIN c = Fields, c.pc # "mint", c.op = call[p].op, c.sid = call[p].sid
       PROVE  CloseInv' /\ LeavesShut
  BY <1>1, <1>11, CallBecomes
<1>12. CASE BanRead(p)
  <2> DEFINE c == [call[p] EXCEPT !.pc = "cacheSet", !.seen = banned]
  <2>1. call' = [call EXCEPT ![p] = c] /\ DOMAIN c = Fields /\ c.pc # "mint" /\ c.op = call[p].op /\ c.sid = call[p].sid
    BY <1>0, <1>12 DEF BanRead, Fields
  <2> HIDE DEF c
  <2>2. QED
    BY <1>11, <2>1
<1>13. CASE RevokeSelect(p)
  <2> DEFINE c == [call[p] EXCEPT !.pc = "block", !.sel = OpenJtis]
  <2>1. call' = [call EXCEPT ![p] = c] /\ DOMAIN c = Fields /\ c.pc # "mint" /\ c.op = call[p].op /\ c.sid = call[p].sid
    BY <1>0, <1>13 DEF RevokeSelect, Fields
  <2> HIDE DEF c
  <2>2. QED
    BY <1>11, <2>1
<1>14. CASE RevokeBlock(p)
  <2> DEFINE c == [call[p] EXCEPT !.pc = "delete", !.sel = {}]
  <2>1. call' = [call EXCEPT ![p] = c] /\ DOMAIN c = Fields /\ c.pc # "mint" /\ c.op = call[p].op /\ c.sid = call[p].sid
    BY <1>0, <1>14 DEF RevokeBlock, Fields
  <2> HIDE DEF c
  <2>2. QED
    BY <1>11, <2>1
<1>15. QED
  BY <1>5, <1>6, <1>7, <1>8, <1>9, <1>10, <1>12, <1>13, <1>14

\* The requests' steps that write rows or tokens.
LEMMA LoginShut ==
  ASSUME CloseInv, NEW p \in Calls, NEW d \in Devices, Login(p, d)
  PROVE  CloseInv' /\ LeavesShut
<1>1. PICK t \in Sids, k \in Jtis \ Live :
        /\ row[t].state = "none" /\ Begin(p, "login", "respond", d, t, k)
        /\ row' = [row EXCEPT ![t] = [state |-> "open", jti |-> k]]
        /\ session' = [session EXCEPT ![k] = t]
        /\ UNCHANGED blocked
  BY DEF Login
<1> DEFINE c == [op |-> "login", pc |-> "respond", dev |-> d, sid |-> t, jti |-> k, sel |-> {}, seen |-> FALSE]
<1>2. call' = [call EXCEPT ![p] = c] /\ DOMAIN c = Fields /\ c.pc = "respond" /\ c.op = "login"
  BY <1>1 DEF Begin, Fields
<1> HIDE DEF c
<1>3. call'[p] = c /\ DOMAIN call' = Calls /\ \A q \in Calls : q # p => call'[q] = call[q]
  BY <1>2 DEF CloseInv, Forms
<1>4. CloseInv'
  BY <1>1, <1>2, <1>3 DEF CloseInv, Forms, MintsRefresh
<1>5. ASSUME NEW s \in Sids, Shut(s)
      PROVE  /\ Closed(s)'
             /\ \A q \in Calls : call'[q].op = "refresh" => call'[q].sid # s
             /\ \A j \in Jtis : session'[j] = s => session[j] = s /\ (j \in blocked => j \in blocked')
  <2>1. s # t /\ row'[s] = row[s]
    BY <1>1, <1>5 DEF Shut, Closed, CloseInv, Forms
  <2>2. \A j \in Jtis : session'[j] = s => session[j] = s
    BY <1>1, <2>1 DEF CloseInv, Forms
  <2>3. QED
    BY <1>1, <1>2, <1>3, <1>5, <2>1, <2>2 DEF Shut, Closed, Refreshing
<1>6. QED
  BY <1>4, <1>5 DEF LeavesShut

LEMMA MintShut ==
  ASSUME CloseInv, NEW p \in Calls, RefreshMint(p)
  PROVE  CloseInv' /\ LeavesShut
<1>1. PICK k \in Jtis \ Live :
        /\ call[p].pc = "mint"
        /\ session' = [session EXCEPT ![k] = call[p].sid]
        /\ row' = IF Exists(call[p].sid) THEN [row EXCEPT ![call[p].sid].jti = k] ELSE row
        /\ call' = [call EXCEPT ![p].pc = "respond", ![p].jti = k]
        /\ UNCHANGED blocked
  BY DEF RefreshMint
<1>2. call[p].op = "refresh"
  BY <1>1 DEF CloseInv, MintsRefresh
<1>3. /\ DOMAIN call' = Calls /\ DOMAIN call'[p] = Fields /\ call'[p].pc = "respond" /\ call'[p].op = "refresh"
      /\ call'[p].sid = call[p].sid /\ \A q \in Calls : q # p => call'[q] = call[q]
  BY <1>1, <1>2 DEF CloseInv, Forms, Fields
<1>4. /\ DOMAIN row' = Sids
      /\ \A s \in Sids : DOMAIN row'[s] = {"state", "jti"} /\ row'[s].state = row[s].state
  BY <1>1 DEF CloseInv, Forms
<1>5. CloseInv'
  BY <1>1, <1>3, <1>4 DEF CloseInv, Forms, MintsRefresh
<1>6. ASSUME NEW s \in Sids, Shut(s)
      PROVE  /\ Closed(s)'
             /\ \A q \in Calls : call'[q].op = "refresh" => call'[q].sid # s
             /\ \A j \in Jtis : session'[j] = s => session[j] = s /\ (j \in blocked => j \in blocked')
  <2>1. \A q \in Calls : call[q].op = "refresh" => call[q].sid # s
    BY <1>6 DEF Shut, Refreshing
  <2>2. \A j \in Jtis : session'[j] = s => session[j] = s
    BY <1>1, <1>2, <2>1 DEF CloseInv, Forms
  <2>3. QED
    BY <1>1, <1>3, <1>4, <1>6, <2>1, <2>2 DEF Shut, Closed
<1>7. QED
  BY <1>5, <1>6 DEF LeavesShut

LEMMA RowsShut ==
  ASSUME CloseInv, NEW p \in Calls, LogoutClose(p) \/ RevokeDelete(p)
  PROVE  CloseInv' /\ LeavesShut
<1>1. UNCHANGED <<session, blocked>>
  BY DEF LogoutClose, RevokeDelete
<1>2. /\ DOMAIN row' = Sids /\ \A s \in Sids : DOMAIN row'[s] = {"state", "jti"}
      /\ \A s \in Sids : Closed(s) => Closed(s)'
  <2>1. CASE LogoutClose(p)
    BY <2>1 DEF LogoutClose, CloseInv, Forms, Closed
  <2>2. CASE RevokeDelete(p)
    BY <2>2 DEF RevokeDelete, CloseInv, Forms, Closed, Exists
  <2>3. QED
    BY <2>1, <2>2
<1>3. PICK pc : pc # "mint" /\ (Goto(p, pc) \/ Done(p))
  BY DEF LogoutClose, RevokeDelete
<1>4. /\ DOMAIN call' = Calls /\ \A q \in Calls : DOMAIN call'[q] = Fields
      /\ \A q \in Calls : call'[q].pc = "mint" => call[q].pc = "mint" /\ call'[q].op = call[q].op
      /\ \A q \in Calls : call'[q].op = "refresh" => call[q].op = "refresh" /\ call'[q].sid = call[q].sid
  <2>1. CASE Goto(p, pc)
    BY <1>3, <2>1 DEF Goto, CloseInv, Forms, Fields
  <2>2. CASE Done(p)
    BY <2>2 DEF Done, Idle, CloseInv, Forms, Fields
  <2>3. QED
    BY <1>3, <2>1, <2>2
<1>5. CloseInv'
  BY <1>1, <1>2, <1>4 DEF CloseInv, Forms, MintsRefresh
<1>6. LeavesShut
  BY <1>1, <1>2, <1>4 DEF LeavesShut, Shut, Refreshing
<1>7. QED
  BY <1>5, <1>6

\* A token expires.
LEMMA ExpireShut ==
  ASSUME CloseInv, NEW k \in Jtis, Expire(k)
  PROVE  CloseInv' /\ LeavesShut
<1> DEFINE Drop(j) == IF j = k THEN NoJti ELSE j
<1>1. /\ session' = [session EXCEPT ![k] = NoSid]
      /\ blocked' = blocked \ {k}
      /\ row' = [s \in Sids |-> [row[s] EXCEPT !.jti = Drop(@)]]
      /\ call' = [p \in Calls |-> [call[p] EXCEPT !.jti = Drop(@), !.sel = @ \ {k}]]
  BY DEF Expire
<1> HIDE DEF Drop
<1>2. /\ DOMAIN row' = Sids /\ DOMAIN call' = Calls /\ DOMAIN session' = Jtis
      /\ \A s \in Sids : DOMAIN row'[s] = DOMAIN row[s]
      /\ \A p \in Calls : DOMAIN call'[p] = DOMAIN call[p]
  BY <1>1 DEF CloseInv, Forms
<1>3. \A s \in Sids : row'[s].state = row[s].state
  BY <1>1 DEF CloseInv, Forms
<1>4. \A p \in Calls : call'[p].op = call[p].op /\ call'[p].pc = call[p].pc /\ call'[p].sid = call[p].sid
  BY <1>1 DEF CloseInv, Forms, Fields
<1>5. CloseInv'
  BY <1>2, <1>4 DEF CloseInv, Forms, MintsRefresh
<1>6. \A j \in Jtis, s \in Sids : session'[j] = s => session[j] = s /\ (j \in blocked => j \in blocked')
  BY <1>1, SessionAuthAssumption DEF CloseInv, Forms
<1>7. LeavesShut
  BY <1>3, <1>4, <1>6 DEF LeavesShut, Shut, Refreshing, Closed
<1>8. QED
  BY <1>5, <1>7

LEMMA CloseStep ==
  ASSUME CloseInv, [Next]_vars
  PROVE  CloseInv' /\ LeavesShut
<1>1. ASSUME NEW p \in Calls, Request(p) \/ Proceed(p) \/ Abort(p)
      PROVE  CloseInv' /\ LeavesShut
  BY <1>1, CallSteps, LoginShut, MintShut, RowsShut DEF Request, Proceed
<1>2. ASSUME UNCHANGED <<row, session, blocked, call>>
      PROVE  CloseInv' /\ LeavesShut
  BY <1>2 DEF CloseInv, Forms, MintsRefresh, LeavesShut, Shut, Closed, Refreshing
<1>3. ASSUME NEW d \in Devices, Handshake(d) \/ JoinUserRoom(d) \/ Disconnect(d) \/ Sweep(d)
      PROVE  CloseInv' /\ LeavesShut
  BY <1>2, <1>3 DEF Handshake, JoinUserRoom, Disconnect, Sweep, stored
<1>4. CASE ExpireBanCache \/ BanLapses \/ UNCHANGED vars
  BY <1>2, <1>4 DEF ExpireBanCache, BanLapses, stored, vars
<1>5. QED
  BY <1>1, <1>3, <1>4, ExpireShut DEF Next

\* A closed session stays closed, and once the refreshes that had read it
\* before are over, no other starts and no token of it comes into use
\* (auth.ts:162-165, refreshAccessCookie).
THEOREM ClosedMintsNothing == Spec => NoMintAfterClose
<1>1. Init => CloseInv
  BY CloseInit
<1>2. CloseInv /\ [Next]_vars => CloseInv'
  BY CloseStep
<1>3. ASSUME CloseInv, [Next]_vars
      PROVE  \A s \in Sids : Closed(s) /\ ~ Refreshing(s) =>
               Closed(s)' /\ ~ Refreshing(s)' /\ UsableOf(s)' \subseteq UsableOf(s)
  <2> SUFFICES ASSUME NEW s \in Sids, Closed(s), ~ Refreshing(s)
               PROVE  Closed(s)' /\ ~ Refreshing(s)' /\ UsableOf(s)' \subseteq UsableOf(s)
    OBVIOUS
  <2>1. /\ Closed(s)'
        /\ \A p \in Calls : call'[p].op = "refresh" => call'[p].sid # s
        /\ \A j \in Jtis : session'[j] = s => session[j] = s /\ (j \in blocked => j \in blocked')
    BY <1>3, CloseStep DEF LeavesShut, Shut
  <2>2. ~ Refreshing(s)'
    BY <2>1 DEF Refreshing
  <2>3. UsableOf(s)' \subseteq UsableOf(s)
    BY <2>1, SessionAuthAssumption DEF UsableOf, Usable, Live
  <2>4. QED
    BY <2>1, <2>2, <2>3
<1>4. QED
  BY <1>1, <1>2, <1>3, PTL DEF Spec, NoMintAfterClose

-----------------------------------------------------------------------------
(* The header of the tab. *)

Events == [ev : {"new"}, id : Nat] \cup [ev : {"count"}, count : Nat]
          \cup [ev : {"boot"}, notes : Answers, count : Nat]
Boot(k) == wire[k].ev = "boot"
New(k) == wire[k].ev = "new"

FeedShape ==
  /\ note \in Seq(BOOLEAN) /\ due \subseteq DOMAIN note /\ patches \in Nat
  /\ wire \in Seq(Events)
  /\ snap \in [notes : Answers \cup {None}, count : Nat \cup {None}]
  /\ tab \in TabStates \cup {None}
  /\ link \in {"off", "up", "sent"}
  /\ link # "up" => snap = Unasked
  /\ link = "off" => wire = <<>>
  /\ \A k \in DOMAIN wire : Boot(k) => link = "sent" /\ \A m \in DOMAIN wire : Boot(m) => m = k
  /\ link = "sent" => tab # None \/ \E k \in DOMAIN wire : Boot(k)

QueueShape ==
  /\ \A j \in Jobs : Is(j, "publish") => job[j].count \in Nat
  /\ DOMAIN pane = {"open", "list", "loads"}
  /\ pane.loads \in Seq([list : SUBSET Nat] \cup {None})
  /\ \A k \in DOMAIN pane.loads : pane.loads[k] # None => pane.loads[k].list \subseteq DOMAIN flag

\* What is shown or sent of the first d notifications.
Latest(d) == {n \in 1..d : d - n < Window}
Listing(a, d) ==
  /\ Len(a.items) = IF d < Window THEN d ELSE Window
  /\ \A k \in DOMAIN a.items : a.items[k].id = d - k + 1
Mirrors(a, d) ==
  /\ Listing(a, d)
  /\ \A k \in DOMAIN a.items : a.items[k].read = note[d - k + 1]
  /\ Unread(Latest(d)) <= a.unread /\ a.unread <= Unread(1..d)
Cleared(a, d) ==
  /\ Listing(a, d)
  /\ \A k \in DOMAIN a.items : a.items[k].read
  /\ a.unread = 0

Still == due = {} /\ patches = 0
BellFresh ==
  /\ snap.notes # None => Still /\ Mirrors(snap.notes, Len(note))
  /\ \A k \in DOMAIN wire : Boot(k) =>
       Still /\ Mirrors(wire[k].notes, Len(note)) /\ \A m \in DOMAIN wire : m > k => ~ New(m)

\* The notifications in order: shown, on the wire, to be sent.
Line(d, e) ==
  /\ d <= e /\ due = (e + 1)..Len(note)
  /\ \A n \in (d + 1)..e : \E k \in DOMAIN wire : New(k) /\ wire[k].id = n
  /\ \A k \in DOMAIN wire : New(k) => wire[k].id \in (d + 1)..e
  /\ \A k, m \in DOMAIN wire : k < m /\ New(k) /\ New(m) => wire[k].id < wire[m].id
  /\ \A n \in (d + 1)..Len(note) : ~ note[n]
BellLine ==
  link = "sent" /\ (\A k \in DOMAIN wire : ~ Boot(k)) =>
    \E d, e \in 0..Len(note) :
      /\ Line(d, e)
      /\ IF patches = 0 THEN Mirrors(tab, d) ELSE d = Len(note) /\ Cleared(tab, d)
BellInv == ~ bellOff => BellFresh /\ BellLine

Fits(x) == x = Cardinality(Pending) \/ (x = QueueCap /\ Cardinality(Pending) > QueueCap)
\* The number the tab will show when nothing more is sent.
FitsAhead ==
  IF \A k \in DOMAIN wire : New(k) THEN Fits(tab.badge)
  ELSE \A k \in DOMAIN wire : ~ New(k) /\ (\A m \in DOMAIN wire : m > k => New(m)) => Fits(wire[k].count)
Promised == tuned /\ \E j \in Jobs : job[j].pc \in {"count", "publish"}
BadgeHeld ==
  /\ snap.count # None => snap.count = Cardinality(Pending)
  /\ \A j \in Jobs : Is(j, "publish") => job[j].count = Cardinality(Pending)
  /\ \A k \in DOMAIN pane.loads : pane.loads[k] # None => pane.loads[k].list = Listed
BadgeInv == ~ badgeOff => BadgeHeld /\ (link = "sent" => FitsAhead \/ Promised)

HeadInv == FeedShape /\ QueueShape /\ BellInv /\ BadgeInv

\* Of a finite set of numbers, those with fewer than c above them: all, or c.
LEMMA TopOf ==
  ASSUME NEW P \in SUBSET Nat, IsFiniteSet(P), NEW c \in Nat
  PROVE  LET T == {f \in P : Cardinality({g \in P : g > f}) < c}
         IN IF Cardinality(P) > c THEN Cardinality(T) = c ELSE T = P
<1> DEFINE Above(f) == {g \in P : g > f}
           T == {f \in P : Cardinality(Above(f)) < c}
           n == Cardinality(P)
<1>1. n \in Nat
  BY FS_CardinalityType
<1>2. ASSUME NEW f \in P
      PROVE  Cardinality(Above(f)) \in 0..(n - 1)
  <2>1. IsFiniteSet(Above(f)) /\ Cardinality(Above(f)) <= n /\ (Cardinality(Above(f)) = n => Above(f) = P)
    BY FS_Subset
  <2>2. f \notin Above(f)
    OBVIOUS
  <2>3. Cardinality(Above(f)) \in Nat
    BY <2>1, FS_CardinalityType
  <2>4. Cardinality(Above(f)) # n
    BY <1>2, <2>1, <2>2
  <2> HIDE DEF Above, n
  <2>5. QED
    BY <1>1, <2>1, <2>3, <2>4
<1>3. ASSUME NEW f \in P, NEW g \in P, f < g
      PROVE  Cardinality(Above(g)) < Cardinality(Above(f))
  <2>1. IsFiniteSet(Above(f)) /\ IsFiniteSet(Above(g))
    BY FS_Subset
  <2>20. f \in Nat /\ g \in Nat /\ \A h \in P : h \in Nat
    OBVIOUS
  <2>2. Above(g) \subseteq Above(f) /\ g \in Above(f) /\ g \notin Above(g)
    <3>1. \A h \in P : h > g => h > f
      BY <1>3, <2>20
    <3>2. g > f /\ ~ (g > g)
      BY <1>3, <2>20
    <3>3. QED
      BY <3>1, <3>2
  <2>3. Cardinality(Above(g)) <= Cardinality(Above(f)) /\ Cardinality(Above(g)) # Cardinality(Above(f))
    BY <2>1, <2>2, FS_Subset
  <2>4. Cardinality(Above(g)) \in Nat /\ Cardinality(Above(f)) \in Nat
    BY <2>1, FS_CardinalityType
  <2>5. QED
    BY <2>3, <2>4
<1>4. PICK rank : rank = [f \in P |-> Cardinality(Above(f))]
  OBVIOUS
<1>5. T = {f \in P : rank[f] < c}
  BY <1>4
<1> HIDE DEF Above, T, n
<1>6. rank \in [P -> 0..(n - 1)]
  BY <1>2, <1>4
<1>7. \A f, g \in P : rank[f] = rank[g] => f = g
  BY <1>2, <1>3, <1>4
<1>8. rank \in Injection(P, 0..(n - 1))
  BY <1>6, <1>7 DEF Injection, IsInjective
<1>9. IsFiniteSet(0..(n - 1)) /\ Cardinality(0..(n - 1)) = n
  <2>1. n - 1 \in Int /\ 0 \in Int
    BY <1>1
  <2>2. IsFiniteSet(0..(n - 1)) /\ Cardinality(0..(n - 1)) = IF 0 > n - 1 THEN 0 ELSE (n - 1) - 0 + 1
    BY <2>1, FS_Interval
  <2>3. QED
    BY <1>1, <2>2
<1>10. rank \in Surjection(P, 0..(n - 1))
  BY <1>8, <1>9, FS_Injection DEF n
<1>11. CASE n > c
  <2>1. PICK C : C = 0..(c - 1)
    OBVIOUS
  <2>2. PICK r : r = [f \in T |-> rank[f]]
    OBVIOUS
  <2>30. \A f \in T : rank[f] \in C
    BY <1>1, <1>5, <1>6, <2>1
  <2>3. r \in [T -> C] /\ \A f, g \in T : r[f] = r[g] => f = g
    BY <1>5, <1>7, <2>2, <2>30
  <2>4. \A k \in C : \E f \in T : r[f] = k
    <3>1. SUFFICES ASSUME NEW k \in C PROVE \E f \in T : r[f] = k
      OBVIOUS
    <3>2. k \in 0..(n - 1) /\ k < c
      BY <1>1, <1>11, <2>1
    <3>3. PICK f \in P : rank[f] = k
      BY <1>10, <3>2 DEF Surjection
    <3>4. QED
      BY <1>5, <2>2, <3>2, <3>3
  <2>6. r \in Injection(T, C) /\ r \in Surjection(T, C)
    BY <2>3, <2>4 DEF Injection, IsInjective, Surjection
  <2>5. r \in Bijection(T, C)
    BY <2>6 DEF Bijection
  <2>7. IsFiniteSet(C) /\ Cardinality(C) = c
    <3>1. c - 1 \in Int /\ 0 \in Int
      OBVIOUS
    <3>2. IsFiniteSet(C) /\ Cardinality(C) = IF 0 > c - 1 THEN 0 ELSE (c - 1) - 0 + 1
      BY <2>1, <3>1, FS_Interval
    <3>3. QED
      BY <3>2
  <2>8. Cardinality(T) = Cardinality(C)
    BY <2>6, <2>7, FS_Injection
  <2>9. QED
    BY <1>11, <2>7, <2>8 DEF T, n, Above
<1>12. CASE ~ (n > c)
  <2>1. \A f \in P : rank[f] < c
    BY <1>1, <1>6, <1>12
  <2>2. T = P
    BY <1>5, <2>1
  <2>3. QED
    BY <1>12, <2>2 DEF T, n, Above
<1>13. QED
  BY <1>11, <1>12

LEMMA PendingFinite == ASSUME Inv PROVE IsFiniteSet(Pending) /\ Pending \in SUBSET Nat /\ Cardinality(Pending) \in Nat
<1>1. Len(flag) \in Nat /\ DOMAIN flag = 1..Len(flag)
  BY DEF Inv, Shape
<1>2. IsFiniteSet(1..Len(flag))
  BY <1>1, FS_Interval
<1>3. QED
  BY <1>1, <1>2, FS_Subset, FS_CardinalityType DEF Pending

\* What the queue lists is a number the badge may show.
LEMMA ListFits == ASSUME Inv PROVE Fits(Cardinality(Listed)) /\ Cardinality(Listed) \in Nat /\ Listed \subseteq Pending
<1>1. QueueCap \in Nat
  BY ModerationAssumption
<1>2. IF Cardinality(Pending) > QueueCap THEN Cardinality(Listed) = QueueCap ELSE Listed = Pending
  BY <1>1, PendingFinite, TopOf DEF Listed
<1>3. QED
  BY <1>1, <1>2, PendingFinite DEF Fits, Listed

-----------------------------------------------------------------------------
\* The wire, one event longer or shorter.
LEMMA WireLonger ==
  ASSUME wire \in Seq(Events), NEW e \in Events, wire' = Append(wire, e)
  PROVE  /\ wire' \in Seq(Events) /\ Len(wire) \in Nat /\ DOMAIN wire = 1..Len(wire) /\ DOMAIN wire' = 1..(Len(wire) + 1)
         /\ wire'[Len(wire) + 1] = e /\ \A k \in DOMAIN wire : wire'[k] = wire[k]
BY AppendProperties

LEMMA WireShorter ==
  ASSUME wire \in Seq(Events), wire # <<>>, wire' = Tail(wire)
  PROVE  /\ wire' \in Seq(Events) /\ Len(wire) \in Nat /\ DOMAIN wire = 1..Len(wire) /\ DOMAIN wire' = 1..(Len(wire) - 1)
         /\ Head(wire) = wire[1] /\ 1 \in DOMAIN wire
         /\ \A k \in DOMAIN wire' : wire'[k] = wire[k + 1] /\ k + 1 \in DOMAIN wire
<1>1. Len(wire) \in Nat /\ DOMAIN wire = 1..Len(wire) /\ Len(wire) # 0
  BY EmptySeq, LenProperties
<1>2. Tail(wire) \in Seq(Events) /\ Len(Tail(wire)) = Len(wire) - 1 /\ \A i \in 1..Len(Tail(wire)) : Tail(wire)[i] = wire[i + 1]
  BY HeadTailProperties
<1>3. DOMAIN wire' = 1..(Len(wire) - 1)
  BY <1>2, LenProperties
<1>4. Head(wire) = wire[1]
  BY DEF Head
<1>5. QED
  BY <1>1, <1>2, <1>3, <1>4

LEMMA Kinds ==
  ASSUME NEW e \in Events
  PROVE  /\ e.ev \in {"new", "count", "boot"}
         /\ e.ev = "new" => e.id \in Nat
         /\ e.ev = "count" => e.count \in Nat
         /\ e.ev = "boot" => e.count \in Nat /\ e.notes \in Answers
BY DEF Events

\* The number under way when the wire grows ..
LEMMA AheadNew ==
  ASSUME wire \in Seq(Events), NEW e \in Events, wire' = Append(wire, e), e.ev = "new", FitsAhead,
         UNCHANGED flag, tab'.badge = tab.badge
  PROVE  FitsAhead'
<1>1. Pending' = Pending
  BY DEF Pending
<1>2. /\ Len(wire) \in Nat /\ DOMAIN wire = 1..Len(wire) /\ DOMAIN wire' = 1..(Len(wire) + 1)
      /\ wire'[Len(wire) + 1] = e /\ \A k \in DOMAIN wire : wire'[k] = wire[k]
  BY WireLonger
<1>3. CASE \A k \in DOMAIN wire : New(k)
  <2>1. \A k \in DOMAIN wire' : wire'[k].ev = "new"
    BY <1>2, <1>3 DEF New
  <2>2. Fits(tab.badge)
    BY <1>3 DEF FitsAhead
  <2>3. QED
    BY <1>1, <2>1, <2>2 DEF FitsAhead, Fits, New
<1>4. CASE ~ \A k \in DOMAIN wire : New(k)
  <2>1. \A k \in DOMAIN wire : ~ New(k) /\ (\A m \in DOMAIN wire : m > k => New(m)) => Fits(wire[k].count)
    BY <1>4 DEF FitsAhead
  <2>2. ASSUME NEW k \in DOMAIN wire', ~ New(k)', \A m \in DOMAIN wire' : m > k => New(m)'
        PROVE  Fits(wire[k].count)'
    <3>1. k \in DOMAIN wire /\ wire'[k] = wire[k] /\ ~ New(k)
      BY <1>2, <2>2 DEF New
    <3>2. \A m \in DOMAIN wire : m > k => New(m)
      BY <1>2, <2>2 DEF New
    <3>3. QED
      BY <1>1, <2>1, <3>1, <3>2 DEF Fits
  <2>3. \E k \in DOMAIN wire' : ~ New(k)'
    BY <1>2, <1>4 DEF New
  <2>4. QED
    BY <2>2, <2>3 DEF FitsAhead
<1>5. QED
  BY <1>3, <1>4

LEMMA AheadCount ==
  ASSUME wire \in Seq(Events), NEW e \in Events, wire' = Append(wire, e), e.ev # "new", e.count = Cardinality(Pending),
         UNCHANGED flag
  PROVE  FitsAhead'
<1>1. Pending' = Pending
  BY DEF Pending
<1>2. /\ Len(wire) \in Nat /\ DOMAIN wire = 1..Len(wire) /\ DOMAIN wire' = 1..(Len(wire) + 1)
      /\ wire'[Len(wire) + 1] = e
  BY WireLonger
<1> PICK n : n = Len(wire) + 1
  OBVIOUS
<1>3. n \in DOMAIN wire' /\ ~ New(n)'
  BY <1>2 DEF New
<1>4. ASSUME NEW k \in DOMAIN wire', ~ New(k)', \A m \in DOMAIN wire' : m > k => New(m)'
      PROVE  Fits(wire[k].count)'
  <2>1. k = n
    BY <1>2, <1>3, <1>4
  <2>2. QED
    BY <1>1, <1>2, <2>1 DEF Fits
<1>5. QED
  BY <1>3, <1>4 DEF FitsAhead

\* .. and when the tab takes an event.
LEMMA AheadTaken ==
  ASSUME wire \in Seq(Events), wire # <<>>, wire' = Tail(wire), FitsAhead, UNCHANGED flag,
         IF New(1) THEN tab'.badge = tab.badge
         ELSE tab'.badge = wire[1].count \/ \E k \in DOMAIN wire : k # 1 /\ Boot(k)
  PROVE  FitsAhead'
<1>1. Pending' = Pending
  BY DEF Pending
<1>2. /\ Len(wire) \in Nat /\ DOMAIN wire = 1..Len(wire) /\ DOMAIN wire' = 1..(Len(wire) - 1) /\ 1 \in DOMAIN wire
      /\ \A k \in DOMAIN wire' : wire'[k] = wire[k + 1] /\ k + 1 \in DOMAIN wire
  BY WireShorter
<1>3. \A k \in DOMAIN wire : k # 1 => k - 1 \in DOMAIN wire' /\ wire'[k - 1] = wire[k]
  BY <1>2
<1>4. CASE \A k \in DOMAIN wire' : New(k)'
  <2>1. \A k \in DOMAIN wire : k # 1 => New(k)
    BY <1>3, <1>4 DEF New
  <2>2. CASE New(1)
    BY <1>1, <1>4, <2>1, <2>2 DEF FitsAhead, Fits
  <2>3. CASE ~ New(1)
    <3>1. tab'.badge = wire[1].count
      BY <2>1, <2>3 DEF Boot, New
    <3>2. Fits(wire[1].count)
      BY <1>2, <2>1, <2>3 DEF FitsAhead
    <3>3. QED
      BY <1>1, <1>4, <3>1, <3>2 DEF FitsAhead, Fits
  <2>4. QED
    BY <2>2, <2>3
<1>5. CASE ~ \A k \in DOMAIN wire' : New(k)'
  <2>1. ASSUME NEW k \in DOMAIN wire', ~ New(k)', \A m \in DOMAIN wire' : m > k => New(m)'
        PROVE  Fits(wire[k].count)'
    <3>1. k + 1 \in DOMAIN wire /\ wire'[k] = wire[k + 1] /\ ~ New(k + 1)
      BY <1>2, <2>1 DEF New
    <3>2. \A m \in DOMAIN wire : m > k + 1 => New(m)
      <4>1. SUFFICES ASSUME NEW m \in DOMAIN wire, m > k + 1 PROVE New(m)
        OBVIOUS
      <4>2. m - 1 \in DOMAIN wire' /\ wire'[m - 1] = wire[m] /\ m - 1 > k
        BY <1>2, <1>3, <2>1, <4>1
      <4>3. PICK l : l = m - 1
        OBVIOUS
      <4>4. New(l)'
        BY <2>1, <4>2, <4>3
      <4>5. QED
        BY <4>2, <4>3, <4>4 DEF New
    <3>3. Fits(wire[k + 1].count)
      BY <3>1, <3>2 DEF FitsAhead
    <3>4. QED
      BY <1>1, <3>1, <3>3 DEF Fits
  <2>2. QED
    BY <1>5, <2>1 DEF FitsAhead
<1>6. QED
  BY <1>4, <1>5

\* What the tab keeps of a longer list.
LEMMA FrontIs ==
  ASSUME NEW S, NEW s \in Seq(S), NEW f, f = Front(s)
  PROVE  /\ f \in Seq(S) /\ Len(f) \in Nat /\ DOMAIN f = 1..Len(f)
         /\ Len(f) = IF Len(s) > Window THEN Window ELSE Len(s)
         /\ \A k \in DOMAIN f : k \in 1..Len(s) /\ f[k] = s[k]
<1>1. Len(s) \in Nat /\ DOMAIN s = 1..Len(s) /\ Window \in Nat
  BY FeedAssumption, LenProperties
<1>2. CASE Len(s) > Window
  <2>1. f = SubSeq(s, 1, Window)
    BY <1>2 DEF Front
  <2>2. f = [k \in 1..Window |-> s[k]]
    BY <1>1, <1>2, <2>1, SubSeqProperties
  <2>3. \A k \in 1..Window : k \in 1..Len(s) /\ s[k] \in S
    BY <1>1, <1>2
  <2>4. f \in Seq(S) /\ Len(f) = Window
    BY <1>1, <2>2, <2>3, IsASeq
  <2>5. QED
    BY <1>1, <1>2, <2>2, <2>3, <2>4
<1>3. CASE ~ (Len(s) > Window)
  <2>1. f = s
    BY <1>3 DEF Front
  <2>2. QED
    BY <1>1, <1>3, <2>1
<1>4. QED
  BY <1>2, <1>3

LEMMA NoneApart == None \notin Nat /\ None \notin Answers /\ None \notin TabStates /\ Window \in Nat
BY FeedAssumption

\* b tells of one notification more than a.
Prepended(b, a, i) ==
  /\ b.unread = a.unread + 1
  /\ DOMAIN b.items = 1..Len(b.items)
  /\ Len(b.items) = IF Len(a.items) < Window THEN Len(a.items) + 1 ELSE Window
  /\ \A k \in DOMAIN b.items : IF k = 1 THEN b.items[k].id = i /\ b.items[k].read = FALSE
                               ELSE k - 1 \in DOMAIN a.items /\ b.items[k] = a.items[k - 1]

\* The tab after each kind of event.
LEMMA ToldNew ==
  ASSUME tab \in TabStates, NEW e \in Events, e.ev = "new", NEW t, t = Told(e)
  PROVE  t \in TabStates /\ t.badge = tab.badge /\ Prepended(t, tab, e.id)
<1> DEFINE Item == [id : Nat, read : BOOLEAN]
<1>1. PICK x : x = [id |-> e.id, read |-> FALSE]
  OBVIOUS
<1>2. x \in Item /\ x.id = e.id /\ x.read = FALSE
  BY <1>1, Kinds
<1>3. tab.items \in Seq(Item) /\ tab.unread \in Nat /\ tab.badge \in Nat
  BY DEF TabStates, Items
<1>4. PICK s : s = <<x>> \o tab.items
  OBVIOUS
<1> HIDE DEF Item
<1>5. <<x>> \in Seq(Item) /\ Len(<<x>>) = 1 /\ <<x>>[1] = x
  BY <1>2
<1>6. Len(tab.items) \in Nat /\ DOMAIN tab.items = 1..Len(tab.items)
  BY <1>3, LenProperties
<1>7. /\ s \in Seq(Item) /\ Len(s) = 1 + Len(tab.items)
      /\ \A k \in 1..Len(s) : s[k] = IF k = 1 THEN x ELSE tab.items[k - 1]
  <2>1. s \in Seq(Item) /\ Len(s) = Len(<<x>>) + Len(tab.items)
        /\ \A k \in 1..(Len(<<x>>) + Len(tab.items)) : s[k] = IF k <= Len(<<x>>) THEN <<x>>[k] ELSE tab.items[k - Len(<<x>>)]
    BY <1>3, <1>4, <1>5, ConcatProperties
  <2>2. QED
    BY <1>5, <1>6, <2>1
<1>8. PICK f : f = Front(s)
  OBVIOUS
<1>9. /\ f \in Seq(Item) /\ Len(f) \in Nat /\ DOMAIN f = 1..Len(f)
      /\ Len(f) = IF Len(s) > Window THEN Window ELSE Len(s)
      /\ \A k \in DOMAIN f : k \in 1..Len(s) /\ f[k] = s[k]
  BY <1>7, <1>8, FrontIs
<1>10. t = [tab EXCEPT !.items = f, !.unread = @ + 1]
  BY <1>1, <1>4, <1>8, NoneApart DEF Told
<1>11. t.items = f /\ t.unread = tab.unread + 1 /\ t.badge = tab.badge
  BY <1>10 DEF TabStates
<1>12. t \in TabStates
  <2>1. f \in Items
    BY <1>9 DEF Items, Item
  <2>2. tab.unread + 1 \in Nat
    BY <1>3
  <2>3. QED
    BY <1>10, <2>1, <2>2 DEF TabStates
<1>13. Len(t.items) = IF Len(tab.items) < Window THEN Len(tab.items) + 1 ELSE Window
  BY <1>6, <1>7, <1>9, <1>11, NoneApart
<1>14. ASSUME NEW k \in DOMAIN f
       PROVE  IF k = 1 THEN f[k].id = e.id /\ f[k].read = FALSE ELSE k - 1 \in DOMAIN tab.items /\ f[k] = tab.items[k - 1]
  BY <1>2, <1>6, <1>7, <1>9, <1>14
<1>15. QED
  BY <1>9, <1>11, <1>12, <1>13, <1>14 DEF Prepended

LEMMA ToldCount ==
  ASSUME tab \in TabStates, NEW e \in Events, e.ev = "count", NEW t, t = Told(e)
  PROVE  t \in TabStates /\ t.items = tab.items /\ t.unread = tab.unread /\ t.badge = e.count
<1>1. t = [tab EXCEPT !.badge = e.count]
  BY NoneApart DEF Told
<1>2. e.count \in Nat
  BY Kinds
<1>3. QED
  BY <1>1, <1>2 DEF TabStates

LEMMA BootTold ==
  ASSUME NEW e \in Events, e.ev = "boot", NEW t, t = Booted(e)
  PROVE  t \in TabStates /\ t.items = e.notes.items /\ t.unread = e.notes.unread /\ t.badge = e.count
BY Kinds DEF Booted, TabStates, Answers

\* The tab after any event.
LEMMA TabTakes ==
  ASSUME FeedShape, Receive
  PROVE  /\ wire[1] \in Events /\ wire \in Seq(Events) /\ wire # <<>> /\ wire' = Tail(wire) /\ 1 \in DOMAIN wire
         /\ Boot(1) => tab' = Booted(wire[1])
         /\ ~ Boot(1) => tab' = Told(wire[1])
         /\ ~ Boot(1) /\ tab = None => tab' = None
         /\ tab' \in TabStates \cup {None}
<1>1. wire \in Seq(Events) /\ wire # <<>> /\ wire' = Tail(wire) /\ tab' = IF HasBoot THEN Booted(Head(wire)) ELSE Told(Head(wire))
  BY DEF Receive, FeedShape
<1>2. Head(wire) = wire[1] /\ 1 \in DOMAIN wire
  BY <1>1, WireShorter
<1>3. wire[1] \in Events
  BY <1>1, <1>2, HeadTailProperties
<1>4. (Boot(1) => tab' = Booted(wire[1])) /\ (~ Boot(1) => tab' = Told(wire[1]))
  BY <1>1, <1>2 DEF HasBoot, Boot
<1>5. ~ Boot(1) /\ tab = None => tab' = None
  BY <1>4 DEF Told
<1>6. tab \in TabStates \cup {None}
  BY DEF FeedShape
<1>7. wire[1].ev \in {"new", "count", "boot"}
  BY <1>3, Kinds
<1>8. tab' \in TabStates \cup {None}
  <2>1. CASE Boot(1)
    BY <1>3, <1>4, <2>1, BootTold DEF Boot
  <2>2. CASE ~ Boot(1) /\ tab = None
    BY <1>5, <2>2
  <2>3. CASE ~ Boot(1) /\ tab # None /\ wire[1].ev = "new"
    BY <1>3, <1>4, <1>6, <2>3, ToldNew
  <2>4. CASE ~ Boot(1) /\ tab # None /\ wire[1].ev = "count"
    BY <1>3, <1>4, <1>6, <2>4, ToldCount
  <2>5. QED
    BY <1>7, <2>1, <2>2, <2>3, <2>4 DEF Boot
<1>9. QED
  BY <1>1, <1>2, <1>3, <1>4, <1>5, <1>8

\* The newest of d notifications are the last Window of them.
LEMMA LatestIs ==
  ASSUME NEW d \in Nat
  PROVE  /\ Latest(d) \subseteq 1..d /\ IsFiniteSet(1..d) /\ IsFiniteSet(Latest(d))
         /\ Cardinality(Latest(d)) = IF d < Window THEN d ELSE Window
<1>1. Window \in Nat
  BY NoneApart
<1>2. PICK a : a = IF d < Window THEN 1 ELSE d - Window + 1
  OBVIOUS
<1>3. a \in Int /\ d \in Int /\ 1 \in Int /\ Latest(d) = a..d
  BY <1>1, <1>2 DEF Latest
<1>4. IsFiniteSet(a..d) /\ Cardinality(a..d) = IF a > d THEN 0 ELSE d - a + 1
  BY <1>3, FS_Interval
<1>5. IsFiniteSet(1..d)
  BY <1>3, FS_Interval
<1>6. Latest(d) \subseteq 1..d
  BY DEF Latest
<1>7. IsFiniteSet(Latest(d)) /\ Cardinality(Latest(d)) = IF a > d THEN 0 ELSE d - a + 1
  BY <1>3, <1>4
<1>8. (IF a > d THEN 0 ELSE d - a + 1) = IF d < Window THEN d ELSE Window
  BY <1>1, <1>2
<1>9. QED
  BY <1>5, <1>6, <1>7, <1>8

LEMMA UnreadNat == ASSUME NEW ns, IsFiniteSet(ns) PROVE Unread(ns) \in Nat /\ IsFiniteSet({n \in ns : ~ note[n]})
<1>1. {n \in ns : ~ note[n]} \subseteq ns
  OBVIOUS
<1>2. QED
  BY <1>1, FS_Subset, FS_CardinalityType DEF Unread

LEMMA UnreadMore ==
  ASSUME NEW ms, NEW ns, ms \subseteq ns, IsFiniteSet(ns)
  PROVE  Unread(ms) <= Unread(ns) /\ Unread(ms) \in Nat /\ Unread(ns) \in Nat
<1>1. {n \in ms : ~ note[n]} \subseteq {n \in ns : ~ note[n]}
  OBVIOUS
<1>2. QED
  BY <1>1, UnreadNat, FS_Subset DEF Unread

\* One notification more, unread.
LEMMA UnreadOne ==
  ASSUME NEW d \in Nat, ~ note[d + 1]
  PROVE  /\ Unread(1..(d + 1)) = Unread(1..d) + 1
         /\ Unread(Latest(d + 1)) <= Unread(Latest(d)) + 1
         /\ Unread(1..d) \in Nat /\ Unread(Latest(d)) \in Nat
<1>1. d + 1 \in Nat
  OBVIOUS
<1>2. IsFiniteSet(1..d) /\ IsFiniteSet(Latest(d)) /\ Latest(d) \subseteq 1..d
  BY LatestIs
<1>3. {n \in 1..(d + 1) : ~ note[n]} = {n \in 1..d : ~ note[n]} \cup {d + 1}
  OBVIOUS
<1>4. d + 1 \notin {n \in 1..d : ~ note[n]}
  OBVIOUS
<1>5. Unread(1..(d + 1)) = Unread(1..d) + 1
  BY <1>2, <1>3, <1>4, UnreadNat, FS_AddElement DEF Unread
<1>6. PICK ms : ms = {n \in Latest(d) : ~ note[n]}
  OBVIOUS
<1>7. IsFiniteSet(ms) /\ Cardinality(ms) = Unread(Latest(d)) /\ Unread(Latest(d)) \in Nat
  BY <1>2, <1>6, UnreadNat DEF Unread
<1>8. d + 1 \notin ms
  BY <1>2, <1>6
<1>9. IsFiniteSet(ms \cup {d + 1}) /\ Cardinality(ms \cup {d + 1}) = Cardinality(ms) + 1
  BY <1>7, <1>8, FS_AddElement
<1>10. {n \in Latest(d + 1) : ~ note[n]} \subseteq ms \cup {d + 1}
  BY <1>6, NoneApart DEF Latest
<1>11. Unread(Latest(d + 1)) <= Cardinality(ms \cup {d + 1})
  BY <1>9, <1>10, FS_Subset DEF Unread
<1>12. QED
  BY <1>2, <1>5, <1>7, <1>9, <1>11, UnreadNat

\* The bootstrap reads the table as it is.
LEMMA ReadsTable ==
  ASSUME FeedShape, ReadNotes
  PROVE  snap'.notes \in Answers /\ snap'.count = snap.count /\ DOMAIN snap' = {"notes", "count"}
         /\ Mirrors(snap'.notes, Len(note))
<1> DEFINE Item == [id : Nat, read : BOOLEAN]
<1>1. PICK len : len = Len(note)
  OBVIOUS
<1>2. len \in Nat /\ DOMAIN note = 1..len /\ note \in Seq(BOOLEAN)
  BY <1>1, LenProperties DEF FeedShape
<1>3. Newest = Latest(len)
  BY <1>1, <1>2 DEF Newest, Latest, Ids
<1>4. PICK c : c = Cardinality(Latest(len))
  OBVIOUS
<1>5. c = (IF len < Window THEN len ELSE Window) /\ c \in Nat /\ Window \in Nat
  BY <1>2, <1>4, LatestIs, NoneApart
<1>6. PICK items : items = [k \in 1..c |-> [id |-> len - k + 1, read |-> note[len - k + 1]]]
  OBVIOUS
<1>7. \A k \in 1..c : len - k + 1 \in 1..len
  BY <1>2, <1>5
<1>8. \A k \in 1..c : len - k + 1 \in Nat /\ note[len - k + 1] \in BOOLEAN
  BY <1>2, <1>7
<1>9. items \in [1..c -> Item]
  BY <1>6, <1>8
<1> HIDE DEF Item
<1>10. items \in Seq(Item) /\ Len(items) = c /\ DOMAIN items = 1..c
  BY <1>5, <1>9, IsASeq
<1>11. PICK u : u = Cardinality({n \in Latest(len) : ~ note[n]})
  OBVIOUS
<1>12. u = Unread(Latest(len)) /\ u \in Nat /\ u <= Unread(1..len)
  BY <1>2, <1>11, LatestIs, UnreadMore DEF Unread
<1>13. PICK a : a = [items |-> items, unread |-> u]
  OBVIOUS
<1>14. snap' = [snap EXCEPT !.notes = a]
  BY <1>1, <1>3, <1>4, <1>6, <1>11, <1>13 DEF ReadNotes
<1>15. snap'.notes = a /\ snap'.count = snap.count /\ DOMAIN snap' = {"notes", "count"}
  BY <1>14 DEF FeedShape
<1>16. a \in Answers
  BY <1>10, <1>12, <1>13 DEF Answers, Items, Item
<1>17. Listing(a, len)
  BY <1>5, <1>6, <1>10, <1>13 DEF Listing
<1>18. \A k \in DOMAIN a.items : a.items[k].read = note[len - k + 1]
  BY <1>6, <1>10, <1>13
<1>19. Mirrors(a, len)
  BY <1>12, <1>13, <1>17, <1>18 DEF Mirrors
<1>20. QED
  BY <1>1, <1>15, <1>16, <1>19

FeedFrame == <<note, due, patches, wire, snap, tab, link>>

LEMMA NoteSeq == ASSUME FeedShape PROVE Len(note) \in Nat /\ DOMAIN note = 1..Len(note) /\ note \in Seq(BOOLEAN)
BY LenProperties DEF FeedShape

LEMMA FeedKept == FeedShape /\ UNCHANGED FeedFrame => FeedShape'
BY DEF FeedShape, FeedFrame, Boot, Unasked

LEMMA FeedInsert == ASSUME FeedShape, Insert PROVE FeedShape'
<1>1. note' = Append(note, FALSE) /\ due' = due \cup {Len(note) + 1} /\ UNCHANGED <<patches, wire, snap, tab, link>>
  BY DEF Insert, linkVars
<1>2. note' \in Seq(BOOLEAN) /\ DOMAIN note' = 1..(Len(note) + 1)
  BY <1>1, NoteSeq, AppendProperties
<1>3. due' \subseteq DOMAIN note'
  BY <1>1, <1>2, NoteSeq DEF FeedShape
<1>4. QED
  BY <1>1, <1>2, <1>3 DEF FeedShape, Boot, Unasked

\* Something other than a bootstrap is sent.
LEMMA FeedSend ==
  ASSUME FeedShape, NEW e \in Events, e.ev # "boot", Send(e), UNCHANGED <<note, patches, link, snap, tab>>, due' \subseteq due
  PROVE  FeedShape'
<1>1. CASE link = "off"
  <2>1. wire' = wire
    BY <1>1 DEF Send
  <2>2. QED
    BY <2>1 DEF FeedShape, Boot, Unasked
<1>2. CASE link # "off"
  <2>1. wire' = Append(wire, e) /\ wire \in Seq(Events)
    BY <1>2 DEF Send, FeedShape
  <2>2. PICK n : n = Len(wire)
    OBVIOUS
  <2>3. /\ wire' \in Seq(Events) /\ n \in Nat /\ DOMAIN wire = 1..n /\ DOMAIN wire' = 1..(n + 1)
        /\ wire'[n + 1] = e /\ \A k \in DOMAIN wire : wire'[k] = wire[k]
    BY <2>1, <2>2, WireLonger
  <2>4. \A k \in DOMAIN wire' : Boot(k)' => k \in DOMAIN wire /\ Boot(k)
    BY <2>3 DEF Boot
  <2>5. \A k \in DOMAIN wire : Boot(k) => k \in DOMAIN wire' /\ Boot(k)'
    BY <2>3 DEF Boot
  <2>6. \A k \in DOMAIN wire' : Boot(k)' => link' = "sent" /\ \A m \in DOMAIN wire' : Boot(m)' => m = k
    BY <2>4 DEF FeedShape
  <2>7. link' = "sent" => tab' # None \/ \E k \in DOMAIN wire' : Boot(k)'
    BY <2>5 DEF FeedShape
  <2>8. QED
    BY <1>2, <2>3, <2>6, <2>7 DEF FeedShape, Unasked
<1>3. QED
  BY <1>1, <1>2

LEMMA FeedEmit == ASSUME FeedShape, NEW n \in due, Emit(n) PROVE FeedShape'
<1>1. PICK e : e = [ev |-> "new", id |-> n]
  OBVIOUS
<1>2. n \in Nat
  BY NoteSeq DEF FeedShape
<1>3. e \in Events /\ e.ev # "boot"
  BY <1>1, <1>2 DEF Events
<1>4. Send(e) /\ UNCHANGED <<note, patches, link, snap, tab>> /\ due' \subseteq due
  BY <1>1 DEF Emit
<1>5. QED
  BY <1>3, <1>4, FeedSend

LEMMA FeedLost == ASSUME FeedShape, NEW n \in due, EmitLost(n) PROVE FeedShape'
BY DEF EmitLost, FeedShape, Boot, Unasked, linkVars

LEMMA FeedConnect == ASSUME FeedShape, Connect PROVE FeedShape'
BY DEF Connect, bellVars, FeedShape, Boot, Unasked

LEMMA FeedRead == ASSUME FeedShape, ReadNotes PROVE FeedShape'
<1>1. snap'.notes \in Answers /\ snap'.count = snap.count /\ DOMAIN snap' = {"notes", "count"}
  BY ReadsTable
<1>2. snap' = [snap EXCEPT !.notes = snap'.notes]
  BY DEF ReadNotes, FeedShape
<1>3. snap' \in [notes : Answers \cup {None}, count : Nat \cup {None}]
  BY <1>1, <1>2 DEF FeedShape
<1>4. UNCHANGED <<note, due, patches, wire, tab, link>> /\ link = "up"
  BY DEF ReadNotes
<1>5. QED
  BY <1>3, <1>4 DEF FeedShape, Boot

LEMMA FeedCount == ASSUME FeedShape, Inv, ReadCount PROVE FeedShape'
<1>1. snap' \in [notes : Answers \cup {None}, count : Nat \cup {None}]
  BY PendingFinite DEF ReadCount, FeedShape
<1>2. UNCHANGED <<note, due, patches, wire, tab, link>> /\ link = "up"
  BY DEF ReadCount, bellVars
<1>3. QED
  BY <1>1, <1>2 DEF FeedShape, Boot

\* The bootstrap goes out: it is the only one on the wire.
LEMMA BootSent ==
  ASSUME FeedShape, SendBootstrap, NEW n, n = Len(wire)
  PROVE  /\ wire' \in Seq(Events) /\ n \in Nat /\ DOMAIN wire = 1..n /\ DOMAIN wire' = 1..(n + 1)
         /\ \A k \in DOMAIN wire : wire'[k] = wire[k] /\ ~ Boot(k)
         /\ wire'[n + 1].ev = "boot" /\ wire'[n + 1].notes = snap.notes /\ wire'[n + 1].count = snap.count
<1>1. PICK e : e = [ev |-> "boot", notes |-> snap.notes, count |-> snap.count]
  OBVIOUS
<1>2. snap.notes \in Answers /\ snap.count \in Nat
  BY DEF SendBootstrap, FeedShape
<1>3. e \in Events
  BY <1>1, <1>2 DEF Events
<1>4. wire' = Append(wire, e) /\ wire \in Seq(Events)
  BY <1>1 DEF SendBootstrap, FeedShape
<1>5. \A k \in DOMAIN wire : ~ Boot(k)
  BY DEF SendBootstrap, FeedShape
<1>6. QED
  BY <1>1, <1>3, <1>4, <1>5, WireLonger

LEMMA FeedBoot == ASSUME FeedShape, SendBootstrap PROVE FeedShape'
<1>1. PICK n : n = Len(wire)
  OBVIOUS
<1>2. /\ wire' \in Seq(Events) /\ n \in Nat /\ DOMAIN wire = 1..n /\ DOMAIN wire' = 1..(n + 1)
      /\ \A k \in DOMAIN wire : wire'[k] = wire[k] /\ ~ Boot(k)
      /\ wire'[n + 1].ev = "boot"
  BY <1>1, BootSent
<1>3. link' = "sent" /\ snap' = Unasked /\ UNCHANGED <<note, due, patches, tab>>
  BY DEF SendBootstrap, bellVars
<1>4. \A k \in DOMAIN wire' : Boot(k)' => k = n + 1
  BY <1>2 DEF Boot
<1>5. n + 1 \in DOMAIN wire'
  BY <1>2
<1>6. \E k \in DOMAIN wire' : Boot(k)'
  BY <1>2, <1>5 DEF Boot
<1>7. snap' \in [notes : Answers \cup {None}, count : Nat \cup {None}]
  BY <1>3 DEF Unasked
<1>8. QED
  BY <1>2, <1>3, <1>4, <1>6, <1>7 DEF FeedShape, Unasked

LEMMA FeedBreak == ASSUME FeedShape, Break PROVE FeedShape'
<1>1. wire' = <<>> /\ link' = "off" /\ snap' = Unasked /\ UNCHANGED <<note, due, patches, tab>>
  BY DEF Break, bellVars
<1>2. wire' \in Seq(Events) /\ DOMAIN wire' = {}
  BY <1>1, EmptySeq
<1>3. snap' \in [notes : Answers \cup {None}, count : Nat \cup {None}]
  BY <1>1 DEF Unasked
<1>4. QED
  BY <1>1, <1>2, <1>3 DEF FeedShape, Unasked

LEMMA FeedPatch == ASSUME FeedShape, PatchApplies PROVE FeedShape'
<1>1. note' = [n \in DOMAIN note |-> TRUE] /\ patches' = patches - 1 /\ patches > 0 /\ UNCHANGED <<due, wire, snap, tab, link>>
  BY DEF PatchApplies, linkVars, Ids
<1>2. note' \in [1..Len(note) -> BOOLEAN]
  BY <1>1, NoteSeq
<1>3. note' \in Seq(BOOLEAN) /\ DOMAIN note' = DOMAIN note
  BY <1>1, <1>2, NoteSeq, IsASeq
<1>4. patches' \in Nat
  BY <1>1 DEF FeedShape
<1>5. QED
  BY <1>1, <1>3, <1>4 DEF FeedShape, Boot, Unasked

LEMMA FeedPatchFails == ASSUME FeedShape, PatchFails PROVE FeedShape'
<1>1. patches' = patches - 1 /\ patches > 0 /\ UNCHANGED <<note, due, wire, snap, tab, link>>
  BY DEF PatchFails, linkVars
<1>2. patches' \in Nat
  BY <1>1 DEF FeedShape
<1>3. QED
  BY <1>1, <1>2 DEF FeedShape, Boot, Unasked

\* The panel shows every notification read.
LEMMA PanelShown ==
  ASSUME FeedShape, OpenPanel
  PROVE  /\ tab \in TabStates /\ tab' \in TabStates /\ tab'.unread = 0 /\ tab'.badge = tab.badge
         /\ DOMAIN tab'.items = DOMAIN tab.items /\ Len(tab'.items) = Len(tab.items)
         /\ \A k \in DOMAIN tab.items : tab'.items[k].id = tab.items[k].id /\ tab'.items[k].read = TRUE
<1> DEFINE Item == [id : Nat, read : BOOLEAN]
<1>1. tab \in TabStates
  BY DEF OpenPanel, FeedShape
<1>2. tab.items \in Seq(Item) /\ tab.unread \in Nat /\ tab.badge \in Nat
  BY <1>1 DEF TabStates, Items
<1>3. PICK n : n = Len(tab.items)
  OBVIOUS
<1>4. n \in Nat /\ DOMAIN tab.items = 1..n /\ \A k \in 1..n : tab.items[k] \in Item
  BY <1>2, <1>3, LenProperties, ElementOfSeq
<1>5. PICK items : items = [k \in DOMAIN tab.items |-> [tab.items[k] EXCEPT !.read = TRUE]]
  OBVIOUS
<1>6. \A k \in 1..n : items[k] \in Item /\ items[k].id = tab.items[k].id /\ items[k].read = TRUE
  BY <1>4, <1>5
<1>7. items \in [1..n -> Item]
  BY <1>4, <1>5, <1>6
<1>8. items \in Items /\ DOMAIN items = 1..n /\ Len(items) = n
  <2> HIDE DEF Item
  <2>1. items \in Seq(Item) /\ DOMAIN items = 1..n /\ Len(items) = n
    BY <1>4, <1>7, IsASeq
  <2>2. QED
    BY <2>1 DEF Items, Item
<1>9. tab' = [tab EXCEPT !.items = items, !.unread = 0]
  BY <1>5 DEF OpenPanel
<1>10. tab'.items = items /\ tab'.unread = 0 /\ tab'.badge = tab.badge
  BY <1>1, <1>9 DEF TabStates
<1>11. tab' \in TabStates
  BY <1>1, <1>8, <1>9 DEF TabStates
<1>12. QED
  BY <1>1, <1>3, <1>4, <1>6, <1>8, <1>10, <1>11

LEMMA FeedPanel == ASSUME FeedShape, OpenPanel PROVE FeedShape'
<1>1. tab' \in TabStates
  BY PanelShown
<1>2. patches' = patches + 1 /\ UNCHANGED <<note, due, wire, snap, link>>
  BY DEF OpenPanel, linkVars
<1>3. patches' \in Nat
  BY <1>2 DEF FeedShape
<1>4. QED
  BY <1>1, <1>2, <1>3, NoneApart DEF FeedShape, Boot, Unasked

LEMMA FeedReceive == ASSUME FeedShape, Receive PROVE FeedShape'
<1>1. /\ wire[1] \in Events /\ wire \in Seq(Events) /\ wire # <<>> /\ wire' = Tail(wire) /\ 1 \in DOMAIN wire
      /\ Boot(1) => tab' = Booted(wire[1])
      /\ ~ Boot(1) => tab' = Told(wire[1])
      /\ tab' \in TabStates \cup {None}
  BY TabTakes
<1>2. UNCHANGED <<note, due, patches, snap, link>>
  BY DEF Receive, bellVars
<1>3. PICK n : n = Len(wire)
  OBVIOUS
<1>4. /\ wire' \in Seq(Events) /\ n \in Nat /\ DOMAIN wire = 1..n /\ DOMAIN wire' = 1..(n - 1)
      /\ \A k \in DOMAIN wire' : wire'[k] = wire[k + 1] /\ k + 1 \in DOMAIN wire
  BY <1>1, <1>3, WireShorter
<1>5. ASSUME NEW k \in DOMAIN wire', Boot(k)'
      PROVE  link' = "sent" /\ \A m \in DOMAIN wire' : Boot(m)' => m = k
  <2>1. Boot(k + 1) /\ k + 1 \in DOMAIN wire
    BY <1>4, <1>5 DEF Boot
  <2>2. link = "sent"
    BY <2>1 DEF FeedShape
  <2>3. ASSUME NEW m \in DOMAIN wire', Boot(m)' PROVE m = k
    <3>1. Boot(m + 1) /\ m + 1 \in DOMAIN wire
      BY <1>4, <2>3 DEF Boot
    <3>2. m + 1 = k + 1
      BY <2>1, <3>1 DEF FeedShape
    <3>3. QED
      BY <1>4, <3>2
  <2>4. QED
    BY <1>2, <2>2, <2>3
<1>6. ASSUME link' = "sent" PROVE tab' # None \/ \E k \in DOMAIN wire' : Boot(k)'
  <2>1. CASE Boot(1)
    BY <1>1, <2>1, BootTold, NoneApart DEF Boot
  <2>2. CASE ~ Boot(1) /\ \E k \in DOMAIN wire : Boot(k)
    <3>1. PICK k \in DOMAIN wire : Boot(k)
      BY <2>2
    <3>2. PICK l : l = k - 1
      OBVIOUS
    <3>3. l \in DOMAIN wire' /\ wire'[l] = wire[k]
      BY <1>4, <2>2, <3>1, <3>2
    <3>4. QED
      BY <3>1, <3>3 DEF Boot
  <2>3. CASE ~ Boot(1) /\ ~ \E k \in DOMAIN wire : Boot(k)
    <3>1. tab \in TabStates
      BY <1>2, <1>6, <2>3 DEF FeedShape
    <3>2. tab' \in TabStates
      <4>1. CASE wire[1].ev = "new"
        BY <1>1, <2>3, <3>1, <4>1, ToldNew
      <4>2. CASE wire[1].ev = "count"
        BY <1>1, <2>3, <3>1, <4>2, ToldCount
      <4>3. QED
        BY <1>1, <2>3, <4>1, <4>2, Kinds DEF Boot
    <3>3. QED
      BY <3>2, NoneApart
  <2>4. QED
    BY <2>1, <2>2, <2>3
<1>7. QED
  BY <1>1, <1>2, <1>4, <1>5, <1>6 DEF FeedShape, Unasked

LEMMA ListedNat == ASSUME Inv, QueueShape, NEW l \in SUBSET (DOMAIN flag) PROVE Cardinality(l) \in Nat
<1>1. Len(flag) \in Nat /\ DOMAIN flag = 1..Len(flag)
  BY DEF Inv, Shape
<1>2. IsFiniteSet(1..Len(flag))
  BY <1>1, FS_Interval
<1>3. QED
  BY <1>1, <1>2, FS_Subset, FS_CardinalityType

LEMMA FeedShows == ASSUME Inv, FeedShape, QueueShape, NEW k, LoadShows(k) PROVE FeedShape'
<1>1. PICK list : list = pane.loads[k].list
  OBVIOUS
<1>2. Cardinality(list) \in Nat
  BY <1>1, ListedNat DEF LoadShows, QueueShape
<1>3. tab' = IF tab = None THEN None ELSE [tab EXCEPT !.badge = Cardinality(list)]
  BY <1>1 DEF LoadShows
<1>4. tab # None => tab' \in TabStates
  BY <1>2, <1>3 DEF FeedShape, TabStates
<1>5. tab = None <=> tab' = None
  BY <1>3, <1>4, NoneApart
<1>6. UNCHANGED <<note, due, patches, wire, snap, link>>
  BY DEF LoadShows, bellVars, linkVars
<1>7. QED
  BY <1>4, <1>5, <1>6 DEF FeedShape, Boot, Unasked

Loads == [list : SUBSET Nat] \cup {None}
PaneShape(p) == DOMAIN p = {"open", "list", "loads"} /\ p.loads \in Seq(Loads)

\* Whatever q has loaded, p has too.
Carries(p, q) == \A k \in DOMAIN q.loads : q.loads[k] # None => \E m \in DOMAIN p.loads : p.loads[m] = q.loads[k]

LEMMA LoadingIs ==
  ASSUME NEW p, PaneShape(p), NEW q, q = Loading(p)
  PROVE  PaneShape(q) /\ Carries(p, q)
<1>1. CASE Len(p.loads) < MaxFetches
  <2>1. q = [p EXCEPT !.loads = Append(@, None)]
    BY <1>1 DEF Loading
  <2>2. DOMAIN q = DOMAIN p /\ q.loads = Append(p.loads, None)
    BY <2>1 DEF PaneShape
  <2>3. None \in Loads /\ p.loads \in Seq(Loads)
    BY DEF Loads, PaneShape
  <2>4. q.loads \in Seq(Loads) /\ Len(p.loads) \in Nat /\ DOMAIN q.loads = 1..(Len(p.loads) + 1) /\ DOMAIN p.loads = 1..Len(p.loads)
        /\ \A k \in 1..(Len(p.loads) + 1) : q.loads[k] = IF k = Len(p.loads) + 1 THEN None ELSE p.loads[k]
    BY <2>2, <2>3, AppendProperties, LenProperties
  <2>5. QED
    BY <2>2, <2>4 DEF PaneShape, Carries
<1>2. CASE ~ (Len(p.loads) < MaxFetches)
  BY <1>2 DEF Loading, Carries
<1>3. QED
  BY <1>1, <1>2

LEMMA CarriesOn == ASSUME NEW p, NEW q, NEW r, Carries(p, q), Carries(q, r) PROVE Carries(p, r)
BY DEF Carries

\* One load less.
LEMMA LoadDropped ==
  ASSUME NEW p, PaneShape(p), NEW k \in DOMAIN p.loads, NEW q, DOMAIN q = DOMAIN p,
         q.loads = SubSeq(p.loads, 1, k - 1) \o SubSeq(p.loads, k + 1, Len(p.loads))
  PROVE  PaneShape(q) /\ Carries(p, q)
<1>1. PICK s : s = p.loads
  OBVIOUS
<1>2. s \in Seq(Loads) /\ Len(s) \in Nat /\ DOMAIN s = 1..Len(s) /\ k \in 1..Len(s)
  BY <1>1, LenProperties DEF PaneShape
<1>3. PICK a : a = SubSeq(s, 1, k - 1)
  OBVIOUS
<1>4. PICK b : b = SubSeq(s, k + 1, Len(s))
  OBVIOUS
<1>0. PICK n : n = Len(s)
  OBVIOUS
<1>20. n \in Int /\ k \in Int /\ 1 <= k /\ k <= n /\ 1 \in Int /\ k - 1 \in Int /\ k + 1 \in Int
  BY <1>2, <1>0
<1>21. \A i \in 1..n : s[i] \in Loads
  BY <1>0, <1>2, ElementOfSeq
<1>5. a \in Seq(Loads) /\ Len(a) = k - 1 /\ \A i \in 1..(k - 1) : a[i] = s[i] /\ i \in DOMAIN s
  <2>1. \A i \in 1..(k - 1) : s[i] \in Loads /\ i \in DOMAIN s
    BY <1>0, <1>20, <1>21, <1>2
  <2>2. a \in Seq(Loads) /\ Len(a) = (IF 1 <= k - 1 THEN k - 1 - 1 + 1 ELSE 0)
        /\ \A i \in 1..(k - 1 - 1 + 1) : a[i] = s[1 + i - 1]
    BY <1>3, <1>20, <2>1, SubSeqProperties
  <2>3. Len(a) = k - 1 /\ \A i \in 1..(k - 1) : i \in 1..(k - 1 - 1 + 1) /\ 1 + i - 1 = i
    BY <1>20, <2>2
  <2>4. QED
    BY <2>1, <2>2, <2>3
<1>6. b \in Seq(Loads) /\ Len(b) = n - k /\ \A i \in 1..(n - k) : b[i] = s[k + i] /\ k + i \in DOMAIN s
  <2>1. \A i \in (k + 1)..n : s[i] \in Loads /\ i \in DOMAIN s
    BY <1>0, <1>20, <1>21, <1>2
  <2>0. b = SubSeq(s, k + 1, n)
    BY <1>0, <1>4
  <2>2. b \in Seq(Loads) /\ Len(b) = (IF k + 1 <= n THEN n - (k + 1) + 1 ELSE 0)
        /\ \A i \in 1..(n - (k + 1) + 1) : b[i] = s[k + 1 + i - 1]
    BY <1>20, <2>0, <2>1, SubSeqProperties
  <2>3. Len(b) = n - k
    BY <1>20, <2>2
  <2>5. \A i \in 1..(n - k) : i \in 1..(n - (k + 1) + 1) /\ k + 1 + i - 1 = k + i /\ k + i \in (k + 1)..n
    <3>1. SUFFICES ASSUME NEW i \in 1..(n - k)
                   PROVE  i \in 1..(n - (k + 1) + 1) /\ k + 1 + i - 1 = k + i /\ k + i \in (k + 1)..n
      OBVIOUS
    <3>2. i \in Int /\ 1 <= i /\ i <= n - k
      BY <1>20
    <3>3. k + i \in Int /\ k + 1 <= k + i /\ k + i <= n
      BY <1>20, <3>2
    <3>4. k + 1 + i - 1 = k + i
      BY <1>20, <3>2
    <3>5. i <= n - (k + 1) + 1
      BY <1>20, <3>2
    <3>6. QED
      BY <1>20, <3>2, <3>3, <3>4, <3>5
  <2>4. QED
    BY <2>1, <2>2, <2>3, <2>5
<1>7. q.loads = a \o b
  BY <1>1, <1>3, <1>4
<1>8. q.loads \in Seq(Loads) /\ DOMAIN q.loads = 1..(n - 1)
      /\ \A i \in 1..(n - 1) : q.loads[i] = IF i <= k - 1 THEN a[i] ELSE b[i - (k - 1)]
  <2>1. /\ q.loads \in Seq(Loads) /\ Len(q.loads) = Len(a) + Len(b)
        /\ \A i \in 1..(Len(a) + Len(b)) : q.loads[i] = IF i <= Len(a) THEN a[i] ELSE b[i - Len(a)]
    <3>1. a \o b \in Seq(Loads) /\ Len(a \o b) = Len(a) + Len(b)
          /\ \A i \in 1..(Len(a) + Len(b)) : (a \o b)[i] = IF i <= Len(a) THEN a[i] ELSE b[i - Len(a)]
      BY <1>5, <1>6, ConcatProperties
    <3>2. QED
      BY <1>7, <3>1
  <2>2. Len(a) + Len(b) = n - 1
    BY <1>5, <1>6, <1>20
  <2>3. DOMAIN q.loads = 1..(n - 1)
    BY <2>1, <2>2, LenProperties
  <2>4. QED
    BY <1>5, <2>1, <2>2, <2>3
<1>9. ASSUME NEW i \in DOMAIN q.loads PROVE \E m \in DOMAIN s : s[m] = q.loads[i]
  <2>1. i \in 1..(n - 1)
    BY <1>8, <1>9
  <2>2. CASE i <= k - 1
    <3>1. i \in 1..(k - 1)
      BY <1>20, <2>1, <2>2
    <3>2. QED
      BY <1>5, <1>8, <2>1, <2>2, <3>1
  <2>3. CASE ~ (i <= k - 1)
    <3>1. i - (k - 1) \in 1..(n - k)
      BY <1>20, <2>1, <2>3
    <3>2. q.loads[i] = b[i - (k - 1)]
      BY <1>8, <2>1, <2>3
    <3>3. QED
      BY <1>6, <3>1, <3>2
  <2>4. QED
    BY <2>2, <2>3
<1>10. QED
  BY <1>1, <1>8, <1>9 DEF PaneShape, Carries

\* What a step does to the queue in the tab.
PaneStep ==
  /\ PaneShape(pane')
  /\ \A k \in DOMAIN pane'.loads : pane'.loads[k] # None =>
       \/ \E m \in DOMAIN pane.loads : pane.loads[m] = pane'.loads[k]
       \/ UNCHANGED flag /\ pane'.loads[k].list = Listed

LEMMA PaneCarried == ASSUME NEW q, q = pane', PaneShape(q), Carries(pane, q) PROVE PaneStep
BY DEF PaneStep, Carries

LEMMA PaneKept == QueueShape /\ UNCHANGED pane => PaneStep
BY DEF PaneStep, QueueShape, PaneShape, Loads

LEMMA PaneMaybeLoads == ASSUME QueueShape, NEW c \in BOOLEAN, pane' = IF c THEN Loading(pane) ELSE pane PROVE PaneStep
<1>1. PaneShape(pane)
  BY DEF QueueShape, PaneShape, Loads
<1>2. CASE c
  BY <1>1, <1>2, LoadingIs, PaneCarried
<1>3. CASE ~ c
  BY <1>3, PaneKept
<1>4. QED
  BY <1>2, <1>3

LEMMA PaneOpens == ASSUME QueueShape, OpenQueue PROVE PaneStep
<1>1. PICK p : p = [pane EXCEPT !.open = TRUE]
  OBVIOUS
<1>2. PaneShape(p) /\ p.loads = pane.loads
  BY <1>1 DEF QueueShape, PaneShape, Loads
<1>3. PICK q : q = Loading(p)
  OBVIOUS
<1>4. PaneShape(q) /\ Carries(p, q)
  BY <1>2, <1>3, LoadingIs
<1>5. Carries(pane, q)
  BY <1>2, <1>4 DEF Carries
<1>6. QED
  BY <1>1, <1>3, <1>4, <1>5, PaneCarried DEF OpenQueue

LEMMA PaneCloses == ASSUME QueueShape, CloseQueue PROVE PaneStep
<1>1. pane' = [pane EXCEPT !.open = FALSE, !.list = {}]
  BY DEF CloseQueue
<1>2. DOMAIN pane' = DOMAIN pane /\ pane'.loads = pane.loads
  BY <1>1 DEF QueueShape
<1>3. QED
  BY <1>2 DEF PaneStep, QueueShape, PaneShape, Loads

LEMMA PaneReads == ASSUME Inv, QueueShape, NEW k, LoadReads(k) PROVE PaneStep /\ UNCHANGED flag
<1>1. PICK x : x = [list |-> Listed]
  OBVIOUS
<1>2. Listed \in SUBSET Nat
  BY PendingFinite DEF Listed
<1>3. x \in Loads /\ x.list = Listed
  BY <1>1, <1>2 DEF Loads
<1>4. pane' = [pane EXCEPT !.loads[k] = x] /\ k \in DOMAIN pane.loads /\ UNCHANGED flag
  BY <1>1 DEF LoadReads, caseVars
<1>5. DOMAIN pane' = DOMAIN pane /\ pane'.loads = [pane.loads EXCEPT ![k] = x]
  BY <1>4 DEF QueueShape
<1>6. pane.loads \in Seq(Loads)
  BY DEF QueueShape, Loads
<1>7. pane'.loads \in Seq(Loads)
  BY <1>3, <1>4, <1>5, <1>6
<1>8. \A i \in DOMAIN pane'.loads : i \in DOMAIN pane.loads /\ pane'.loads[i] = IF i = k THEN x ELSE pane.loads[i]
  BY <1>4, <1>5
<1>9. QED
  BY <1>3, <1>4, <1>5, <1>7, <1>8 DEF PaneStep, PaneShape, QueueShape

LEMMA PaneShows == ASSUME QueueShape, NEW k, LoadShows(k) PROVE PaneStep
<1>1. PICK list : list = pane.loads[k].list
  OBVIOUS
<1>2. PICK rest : rest = SubSeq(pane.loads, 1, k - 1) \o SubSeq(pane.loads, k + 1, Len(pane.loads))
  OBVIOUS
<1>3. PICK left : left = [pane EXCEPT !.list = IF pane.open THEN list ELSE @, !.loads = rest]
  OBVIOUS
<1>4. pane' = (IF pane.open /\ tab # None THEN Loading(left) ELSE left) /\ k \in DOMAIN pane.loads
  BY <1>1, <1>2, <1>3 DEF LoadShows
<1>5. DOMAIN left = DOMAIN pane /\ left.loads = rest
  BY <1>3 DEF QueueShape
<1>6. PaneShape(pane)
  BY DEF QueueShape, PaneShape, Loads
<1>7. PaneShape(left) /\ Carries(pane, left)
  BY <1>2, <1>4, <1>5, <1>6, LoadDropped
<1>8. PICK q : q = Loading(left)
  OBVIOUS
<1>9. PaneShape(q) /\ Carries(pane, q)
  BY <1>7, <1>8, LoadingIs, CarriesOn
<1>10. QED
  BY <1>4, <1>7, <1>8, <1>9, PaneCarried

Tells(j) == job[j].pc \in {"count", "publish"}

\* What a step of a request's own does to its program counter.
JobStep(j) ==
  /\ Only(j) /\ UNCHANGED desk
  /\ job'[j].pc = "publish" => Is(j, "count") /\ job'[j].count = Cardinality(Pending)
                               /\ UNCHANGED <<flag, badgeOff>>
  /\ \/ Tells(j) => Tells(j)'
     \/ badgeOff'
     \/ PublishCount(j)

JobFrame == <<wire, tab, link, snap, tuned, note, due, patches, bellOff>>

Mute == {"insertFlag", "readFlag", "delete", "resolve", "permit", "insertBan", "insertMute", "revoke", "rooms", "leave",
         "announce", "lift", "answer"}

LEMMA Advance ==
  ASSUME Inv, NEW j \in Jobs, Go(j), UNCHANGED desk, job[j].pc \in Mute
  PROVE  JobStep(j)
<1>1. Only(j) /\ job'[j].pc = After(Task(j), job[j].pc)
  BY GoMoves DEF Inv
<1>2. job'[j].pc # "publish"
  BY <1>1 DEF After, Last, Mute
<1>3. QED
  BY <1>1, <1>2 DEF JobStep, Tells, Mute

LEMMA Halt ==
  ASSUME Inv, NEW j \in Jobs, Stop(j), UNCHANGED desk, job[j].pc \in Mute
  PROVE  JobStep(j)
<1>1. Only(j) /\ job'[j].pc = "done"
  BY StopMoves DEF Inv
<1>2. QED
  BY <1>1 DEF JobStep, Tells, Mute

\* Steps of a request that neither change a flag nor send anything.
Quiet(j) ==
  \/ Arrive(j) \/ ReadFlag(j) \/ DeleteMessage(j) \/ CountFlags(j)
  \/ Permit(j) \/ InsertBan(j) \/ InsertMute(j) \/ RevokeTokens(j)
  \/ SelectRooms(j) \/ LeaveRooms(j) \/ Announce(j) \/ Lift(j) \/ Answer(j)

LEMMA QuietFrame ==
  ASSUME QueueShape, NEW j \in Jobs, Quiet(j)
  PROVE  UNCHANGED <<JobFrame, desk, flag, badgeOff>> /\ PaneStep
<1>1. CASE Answer(j)
  <2>1. UNCHANGED <<JobFrame, desk, flag, badgeOff>>
    BY <1>1 DEF Answer, feedVars, bellVars, linkVars, caseVars, JobFrame
  <2>2. PICK c \in BOOLEAN : c <=> pane.open
    OBVIOUS
  <2>3. pane' = IF c THEN Loading(pane) ELSE pane
    BY <1>1, <2>2 DEF Answer
  <2>4. QED
    BY <2>1, <2>3, PaneMaybeLoads
<1>2. CASE Arrive(j) \/ ReadFlag(j) \/ DeleteMessage(j) \/ CountFlags(j)
  <2>1. UNCHANGED <<JobFrame, desk, flag, badgeOff, pane>>
    BY <1>2 DEF Arrive, ReadFlag, DeleteMessage, CountFlags, feedVars, bellVars, linkVars, caseVars, JobFrame
  <2>2. QED
    BY <2>1, PaneKept
<1>3. CASE Permit(j) \/ InsertBan(j) \/ InsertMute(j) \/ RevokeTokens(j) \/ SelectRooms(j)
  <2>1. UNCHANGED <<JobFrame, desk, flag, badgeOff, pane>>
    BY <1>3 DEF Permit, InsertBan, InsertMute, RevokeTokens, SelectRooms, feedVars, bellVars, linkVars, caseVars, JobFrame
  <2>2. QED
    BY <2>1, PaneKept
<1>4. CASE LeaveRooms(j) \/ Announce(j) \/ Lift(j)
  <2>1. UNCHANGED <<JobFrame, desk, flag, badgeOff, pane>>
    BY <1>4 DEF LeaveRooms, Announce, Lift, feedVars, bellVars, linkVars, caseVars, JobFrame
  <2>2. QED
    BY <2>1, PaneKept
<1>5. QED
  BY <1>1, <1>2, <1>3, <1>4 DEF Quiet

LEMMA QuietMoves == ASSUME Inv, QueueShape, NEW j \in Jobs, Quiet(j) PROVE JobStep(j)
<1>0. UNCHANGED <<desk, flag, badgeOff>>
  BY QuietFrame
<1>1. CASE Arrive(j)
  <2>1. Only(j)
    BY <1>1 DEF Arrive, Only, Inv, Shape
  <2>2. job'[j].pc = First(Task(j)) /\ Task(j).op \in {"report", "ban", "mute", "lift", "review"} /\ Is(j, "todo")
    BY <1>1 DEF Arrive, Inv, Shape
  <2>3. job'[j].pc # "publish"
    BY <2>2 DEF First
  <2>4. QED
    BY <1>0, <2>1, <2>2, <2>3 DEF JobStep, Tells, Is
<1>2. CASE CountFlags(j)
  <2>1. Only(j) /\ job'[j].pc = "publish" /\ job'[j].count = Cardinality(Pending) /\ Is(j, "count")
    BY <1>2 DEF CountFlags, Only, Inv, Shape
  <2>2. QED
    BY <1>0, <2>1 DEF JobStep, Tells
<1>3. CASE SelectRooms(j)
  <2>1. Only(j) /\ job'[j].pc = "leave" /\ Is(j, "rooms")
    BY <1>3 DEF SelectRooms, Only, Inv, Shape
  <2>2. QED
    BY <1>0, <2>1 DEF JobStep, Tells, Is
<1>4. CASE ReadFlag(j)
  <2>1. Go(j) \/ Stop(j)
    BY <1>4 DEF ReadFlag
  <2>2. job[j].pc \in Mute
    BY <1>4 DEF ReadFlag, Is, Mute
  <2>3. QED
    BY <1>0, <2>1, <2>2, Advance, Halt
<1>5. CASE Permit(j)
  <2>1. job[j].pc \in Mute
    BY <1>5 DEF Permit, Is, Mute
  <2>2. CASE Go(j) \/ Stop(j)
    BY <1>0, <2>1, <2>2, Advance, Halt
  <2>3. CASE job' = [job EXCEPT ![j].pc = Last(Task(j))]
    <3>1. Only(j) /\ job'[j].pc = Last(Task(j))
      BY <2>3 DEF Only, Inv, Shape
    <3>2. QED
      BY <1>0, <2>1, <3>1 DEF JobStep, Tells, Last, Mute
  <2>4. QED
    BY <1>5, <2>2, <2>3 DEF Permit
<1>6. CASE DeleteMessage(j) \/ InsertBan(j) \/ InsertMute(j) \/ RevokeTokens(j)
  <2>1. Go(j) /\ job[j].pc \in Mute
    BY <1>6 DEF DeleteMessage, InsertBan, InsertMute, RevokeTokens, Is, Mute
  <2>2. QED
    BY <1>0, <2>1, Advance
<1>7. CASE LeaveRooms(j) \/ Announce(j) \/ Lift(j) \/ Answer(j)
  <2>1. Go(j) /\ job[j].pc \in Mute
    BY <1>7 DEF LeaveRooms, Announce, Lift, Answer, Is, Mute
  <2>2. QED
    BY <1>0, <2>1, Advance
<1>8. QED
  BY <1>1, <1>2, <1>3, <1>4, <1>5, <1>6, <1>7 DEF Quiet

-----------------------------------------------------------------------------
\* The flags a step adds: those of the list stay flags.
LEMMA QueueKept ==
  ASSUME Inv, QueueShape, PaneStep, DOMAIN flag \subseteq DOMAIN flag',
         \A j \in Jobs : job'[j].pc = "publish" => job'[j].count \in Nat
  PROVE  QueueShape'
<1>1. PaneShape(pane')
  BY DEF PaneStep
<1>2. ASSUME NEW k \in DOMAIN pane'.loads, pane'.loads[k] # None
      PROVE  pane'.loads[k].list \subseteq DOMAIN flag
  <2>1. CASE \E m \in DOMAIN pane.loads : pane.loads[m] = pane'.loads[k]
    BY <1>2, <2>1 DEF QueueShape
  <2>2. CASE pane'.loads[k].list = Listed
    BY <2>2 DEF Listed, Pending
  <2>3. QED
    BY <1>2, <2>1, <2>2 DEF PaneStep
<1>3. QED
  BY <1>1, <1>2 DEF QueueShape, PaneShape, Loads, Is

\* Steps without a request, and steps of one.
LEMMA QueueStill ==
  ASSUME Inv, QueueShape, PaneStep, UNCHANGED <<flag, job>>
  PROVE  QueueShape'
BY QueueKept DEF QueueShape, Is

LEMMA QueueWork ==
  ASSUME Inv, QueueShape, PaneStep, NEW j \in Jobs, JobStep(j), DOMAIN flag \subseteq DOMAIN flag'
  PROVE  QueueShape'
<1>1. \A i \in Jobs : job'[i].pc = "publish" => job'[i].count \in Nat
  BY PendingFinite DEF JobStep, Only, QueueShape, Is
<1>2. QED
  BY <1>1, QueueKept

\* The numbers held are current after a step that changes no flag.
LEMMA HeldOn ==
  ASSUME BadgeHeld, UNCHANGED flag, PaneStep,
         snap'.count # None => snap'.count = snap.count \/ snap'.count = Cardinality(Pending),
         \A j \in Jobs : job'[j].pc = "publish" => job'[j].count = Cardinality(Pending)
  PROVE  BadgeHeld'
<1>1. Pending' = Pending /\ Listed' = Listed
  BY DEF Pending, Listed
<1>2. snap'.count # None => snap'.count = Cardinality(Pending)
  BY DEF BadgeHeld
<1>3. ASSUME NEW k \in DOMAIN pane'.loads, pane'.loads[k] # None
      PROVE  pane'.loads[k].list = Listed
  BY <1>3 DEF PaneStep, BadgeHeld
<1>4. QED
  BY <1>1, <1>2, <1>3 DEF BadgeHeld, Is

LEMMA AheadKept == ASSUME FitsAhead, UNCHANGED <<flag, wire>>, tab'.badge = tab.badge PROVE FitsAhead'
BY DEF FitsAhead, Fits, Pending, New

\* What a request's own step keeps, when no number is sent.
LEMMA PromisedOn ==
  ASSUME NEW j \in Jobs, JobStep(j), ~ badgeOff', ~ PublishCount(j), UNCHANGED tuned, Promised
  PROVE  Promised'
<1>1. PICK i \in Jobs : Tells(i)
  BY DEF Promised, Tells
<1>2. tuned'
  BY DEF Promised
<1>3. CASE i = j
  BY <1>1, <1>2, <1>3 DEF JobStep, Promised, Tells
<1>4. CASE i # j
  BY <1>1, <1>2, <1>4 DEF JobStep, Promised, Tells, Only
<1>5. QED
  BY <1>3, <1>4

LEMMA PublishOn ==
  ASSUME BadgeHeld, NEW j \in Jobs, JobStep(j)
  PROVE  \A i \in Jobs : job'[i].pc = "publish" => job'[i].count = Cardinality(Pending)
BY DEF BadgeHeld, JobStep, Only, Is

LEMMA PublishStill ==
  ASSUME BadgeHeld, UNCHANGED job
  PROVE  \A i \in Jobs : job'[i].pc = "publish" => job'[i].count = Cardinality(Pending)
BY DEF BadgeHeld, Is

\* A request's step that leaves flags, wire and tab alone.
LEMMA BadgeWork ==
  ASSUME BadgeInv, NEW j \in Jobs, JobStep(j), ~ PublishCount(j), PaneStep,
         UNCHANGED <<flag, wire, tab, link, snap, tuned>>, ~ badgeOff' => ~ badgeOff
  PROVE  BadgeInv'
<1> SUFFICES ASSUME ~ badgeOff' PROVE BadgeHeld' /\ (link' = "sent" => FitsAhead' \/ Promised')
  BY DEF BadgeInv
<1>1. BadgeHeld /\ (link = "sent" => FitsAhead \/ Promised)
  BY DEF BadgeInv
<1>2. BadgeHeld'
  BY <1>1, PublishOn, HeldOn
<1>3. FitsAhead => FitsAhead'
  BY AheadKept
<1>4. Promised => Promised'
  BY PromisedOn
<1>5. QED
  BY <1>1, <1>2, <1>3, <1>4

\* A step of none that leaves wire and tab alone.
LEMMA BadgeRest ==
  ASSUME BadgeInv, UNCHANGED <<flag, wire, job>>, tab'.badge = tab.badge, link' = "sent" => link = "sent", PaneStep,
         snap'.count = snap.count, UNCHANGED tuned \/ tuned', ~ badgeOff' => ~ badgeOff
  PROVE  BadgeInv'
<1> SUFFICES ASSUME ~ badgeOff' PROVE BadgeHeld' /\ (link' = "sent" => FitsAhead' \/ Promised')
  BY DEF BadgeInv
<1>1. BadgeHeld /\ (link = "sent" => FitsAhead \/ Promised)
  BY DEF BadgeInv
<1>2. BadgeHeld'
  BY <1>1, PublishStill, HeldOn
<1>3. FitsAhead => FitsAhead'
  BY AheadKept
<1>4. Promised => Promised'
  BY DEF Promised
<1>5. QED
  BY <1>1, <1>2, <1>3, <1>4

\* A flag changes: nobody holds a number, and the request counts next.
LEMMA BadgeRecount ==
  ASSUME Inv, NEW j \in Jobs, Recount, job'[j].pc = "count", Only(j), UNCHANGED <<snap, pane, link, tuned>>
  PROVE  BadgeInv'
<1> SUFFICES ASSUME ~ badgeOff' PROVE BadgeHeld' /\ (link' = "sent" => FitsAhead' \/ Promised')
  BY DEF BadgeInv
<1>1. ~ CountHeld /\ (link = "off" \/ tuned)
  BY DEF Recount
<1>2. BadgeHeld'
  BY <1>1 DEF CountHeld, BadgeHeld, Only, Is
<1>3. link' = "sent" => Promised'
  BY <1>1 DEF Promised
<1>4. QED
  BY <1>2, <1>3

LEMMA BadgeInsertFlag == ASSUME Inv, NEW j \in Jobs, InsertFlag(j) PROVE BadgeInv' /\ JobStep(j) /\ DOMAIN flag \subseteq DOMAIN flag'
<1>1. Only(j) /\ job'[j].pc = "count"
  BY GoMoves DEF InsertFlag, Inv, Is, After
<1>2. Recount /\ UNCHANGED <<snap, pane, link, tuned>>
  BY DEF InsertFlag, linkVars
<1>3. BadgeInv'
  BY <1>1, <1>2, BadgeRecount
<1>4. JobStep(j)
  BY Advance DEF InsertFlag, Is, Mute
<1>5. DOMAIN flag \subseteq DOMAIN flag'
  <2>1. flag' = Append(flag, [user |-> Task(j).user, st |-> "pending"])
    BY DEF InsertFlag
  <2>2. flag \in Seq(Rows)
    BY DEF Inv, Shape
  <2>3. DOMAIN flag' = 1..(Len(flag) + 1) /\ DOMAIN flag = 1..Len(flag) /\ Len(flag) \in Nat
    BY <2>1, <2>2
  <2>4. QED
    BY <2>3
<1>6. QED
  BY <1>3, <1>4, <1>5

LEMMA BadgeResolve ==
  ASSUME Inv, QueueShape, BadgeInv, NEW j \in Jobs, Resolve(j)
  PROVE  BadgeInv' /\ JobStep(j) /\ DOMAIN flag \subseteq DOMAIN flag'
<1>1. Only(j) /\ job'[j].pc = "count" /\ ~ PublishCount(j)
  BY GoMoves DEF Resolve, Inv, Is, After, PublishCount
<1>2. UNCHANGED <<snap, pane, link, tuned, wire, tab>>
  BY DEF Resolve, linkVars
<1>3. PICK f : f = job[j].flag
  OBVIOUS
<1>4. JobStep(j)
  BY Advance DEF Resolve, Is, Mute
<1>5. CASE flag[f].st = "pending"
  <2>1. Recount
    BY <1>3, <1>5 DEF Resolve
  <2>2. DOMAIN flag' = DOMAIN flag
    BY <1>3, <1>5 DEF Resolve
  <2>3. QED
    BY <1>1, <1>2, <1>4, <2>1, <2>2, BadgeRecount
<1>6. CASE flag[f].st # "pending"
  <2>1. UNCHANGED <<flag, badgeOff>>
    BY <1>3, <1>6 DEF Resolve
  <2>2. PaneStep
    BY <1>2, PaneKept
  <2>3. QED
    BY <1>1, <1>2, <1>4, <2>1, <2>2, BadgeWork
<1>7. QED
  BY <1>5, <1>6

LEMMA BadgePublish ==
  ASSUME Inv, FeedShape, QueueShape, BadgeInv, NEW j \in Jobs, PublishCount(j)
  PROVE  BadgeInv' /\ JobStep(j)
<1>1. Only(j) /\ job'[j].pc # "publish" /\ Is(j, "publish")
  BY GoMoves DEF PublishCount, Inv, Is, After, Last
<1>2. UNCHANGED <<desk, snap, pane, link, tuned, tab, flag, badgeOff>>
  BY DEF PublishCount, caseVars
<1>3. JobStep(j)
  BY <1>1, <1>2 DEF JobStep
<1>4. PaneStep
  BY <1>2, PaneKept
<1>5. SUFFICES ASSUME ~ badgeOff' PROVE BadgeHeld' /\ (link' = "sent" => FitsAhead')
  BY <1>3 DEF BadgeInv
<1>6. BadgeHeld /\ (link = "sent" => FitsAhead \/ Promised)
  BY <1>2, <1>5 DEF BadgeInv
<1>7. BadgeHeld'
  BY <1>2, <1>3, <1>4, <1>6, PublishOn, HeldOn
<1>8. ASSUME link = "sent", tuned PROVE FitsAhead'
  <2>1. PICK e : e = [ev |-> "count", count |-> job[j].count]
    OBVIOUS
  <2>2. job[j].count = Cardinality(Pending)
    BY <1>1, <1>6 DEF BadgeHeld
  <2>3. e \in Events /\ e.ev # "new" /\ e.count = Cardinality(Pending)
    BY <2>1, <2>2, PendingFinite DEF Events
  <2>4. wire' = Append(wire, e)
    BY <1>8, <2>1 DEF PublishCount, Send
  <2>5. QED
    BY <1>2, <2>3, <2>4, AheadCount DEF FeedShape
<1>9. ASSUME link = "sent", ~ tuned PROVE FitsAhead'
  <2>1. wire' = wire
    BY <1>9 DEF PublishCount
  <2>2. FitsAhead
    BY <1>6, <1>9 DEF Promised
  <2>3. QED
    BY <1>2, <2>1, <2>2, AheadKept
<1>10. QED
  BY <1>2, <1>7, <1>8, <1>9

LEMMA BadgeFail ==
  ASSUME Inv, QueueShape, BadgeInv, NEW j \in Jobs, Fail(j)
  PROVE  BadgeInv' /\ JobStep(j)
<1>1. Only(j) /\ job'[j].pc = "done"
  BY StopMoves DEF Fail, Inv
<1>2. UNCHANGED <<desk, snap, pane, link, tuned, tab, wire, flag>>
  BY DEF Fail, linkVars, caseVars
<1>3. ~ badgeOff' => ~ badgeOff /\ ~ Tells(j)
  BY DEF Fail, Tells, Is
<1>4. JobStep(j)
  BY <1>1, <1>2, <1>3 DEF JobStep
<1>5. ~ PublishCount(j) \/ badgeOff'
  BY <1>3 DEF PublishCount, Tells, Is
<1>6. PaneStep
  BY <1>2, PaneKept
<1>7. CASE badgeOff'
  BY <1>4, <1>7 DEF BadgeInv
<1>8. CASE ~ badgeOff'
  BY <1>2, <1>3, <1>4, <1>5, <1>6, <1>8, BadgeWork
<1>9. QED
  BY <1>7, <1>8

LEMMA BadgeQuiet ==
  ASSUME Inv, QueueShape, BadgeInv, NEW j \in Jobs, Quiet(j), ~ PublishCount(j)
  PROVE  BadgeInv'
<1>1. UNCHANGED <<JobFrame, desk, flag, badgeOff>> /\ PaneStep /\ JobStep(j)
  BY QuietFrame, QuietMoves
<1>2. QED
  BY <1>1, BadgeWork DEF JobFrame

LEMMA QuietTells == ASSUME NEW j \in Jobs, Quiet(j) PROVE ~ PublishCount(j)
<1>1. Quiet(j) => job[j].pc # "publish"
  BY DEF Quiet, Is, Arrive, ReadFlag, DeleteMessage, CountFlags, Permit, InsertBan, InsertMute, RevokeTokens,
         SelectRooms, LeaveRooms, Announce, Lift, Answer
<1>2. QED
  BY <1>1 DEF PublishCount, Is

LEMMA BadgeReadCount == ASSUME ReadCount PROVE BadgeInv'
<1> SUFFICES ASSUME ~ badgeOff' PROVE BadgeHeld' /\ link' # "sent"
  BY DEF BadgeInv
<1>1. ~ CountHeld /\ link = "up" /\ UNCHANGED <<link, flag, job, pane>> /\ snap' = [snap EXCEPT !.count = Cardinality(Pending)]
  BY DEF ReadCount, queueVars, caseVars
<1>2. Pending' = Pending
  BY <1>1 DEF Pending
<1>3. snap'.count # None => snap'.count = Cardinality(Pending)
  BY <1>1 DEF CountHeld
<1>4. QED
  BY <1>1, <1>2, <1>3 DEF CountHeld, BadgeHeld, Is

LEMMA BadgeBoot == ASSUME Inv, FeedShape, QueueShape, BadgeInv, SendBootstrap, UNCHANGED queueVars PROVE BadgeInv'
<1>1. UNCHANGED <<flag, job, pane, tuned, badgeOff>> /\ snap' = Unasked /\ snap.count # None
  BY DEF SendBootstrap, queueVars, caseVars
<1> SUFFICES ASSUME ~ badgeOff' PROVE BadgeHeld' /\ FitsAhead'
  BY DEF BadgeInv
<1>2. BadgeHeld
  BY <1>1 DEF BadgeInv
<1>3. PaneStep
  BY <1>1, PaneKept
<1>4. BadgeHeld'
  BY <1>1, <1>2, <1>3, PublishStill, HeldOn DEF Unasked
<1>5. PICK e : e = [ev |-> "boot", notes |-> snap.notes, count |-> snap.count]
  OBVIOUS
<1>6. snap.notes \in Answers /\ snap.count = Cardinality(Pending)
  BY <1>1, <1>2 DEF SendBootstrap, FeedShape, BadgeHeld
<1>7. e \in Events /\ e.ev # "new" /\ e.count = Cardinality(Pending)
  BY <1>5, <1>6, PendingFinite DEF Events
<1>8. wire' = Append(wire, e) /\ wire \in Seq(Events)
  BY <1>5 DEF SendBootstrap, FeedShape
<1>9. FitsAhead'
  BY <1>1, <1>7, <1>8, AheadCount
<1>10. QED
  BY <1>4, <1>9

LEMMA BadgeBreak == ASSUME QueueShape, BadgeInv, Break, UNCHANGED queueVars PROVE BadgeInv'
<1>1. UNCHANGED <<flag, job, pane, badgeOff>> /\ snap' = Unasked /\ link' = "off"
  BY DEF Break, queueVars, caseVars
<1> SUFFICES ASSUME ~ badgeOff' PROVE BadgeHeld'
  BY <1>1 DEF BadgeInv
<1>2. BadgeHeld
  BY <1>1 DEF BadgeInv
<1>3. QED
  BY <1>1, <1>2, PaneKept, PublishStill, HeldOn DEF Unasked

LEMMA BadgeEmit ==
  ASSUME FeedShape, QueueShape, BadgeInv, NEW n \in due, Emit(n), UNCHANGED queueVars
  PROVE  BadgeInv'
<1>1. UNCHANGED <<flag, job, pane, badgeOff, tab, snap, tuned, link>>
  BY DEF Emit, queueVars, caseVars
<1>2. CASE link = "off"
  <2>1. wire' = wire
    BY <1>2 DEF Emit, Send
  <2>2. QED
    BY <1>1, <2>1, PaneKept, BadgeRest
<1>3. CASE link # "off"
  <2> SUFFICES ASSUME ~ badgeOff' PROVE BadgeHeld' /\ (link' = "sent" => FitsAhead' \/ Promised')
    BY DEF BadgeInv
  <2>1. BadgeHeld /\ (link = "sent" => FitsAhead \/ Promised)
    BY <1>1 DEF BadgeInv
  <2>2. BadgeHeld'
    BY <1>1, <2>1, PaneKept, PublishStill, HeldOn
  <2>3. Promised => Promised'
    BY <1>1 DEF Promised
  <2>4. PICK e : e = [ev |-> "new", id |-> n]
    OBVIOUS
  <2>5. n \in Nat
    BY NoteSeq DEF FeedShape
  <2>6. e \in Events /\ e.ev = "new" /\ wire' = Append(wire, e) /\ wire \in Seq(Events)
    BY <1>3, <2>4, <2>5 DEF Events, Emit, Send, FeedShape
  <2>7. FitsAhead => FitsAhead'
    BY <1>1, <2>6, AheadNew
  <2>8. QED
    BY <1>1, <2>1, <2>2, <2>3, <2>7
<1>4. QED
  BY <1>2, <1>3

\* The other steps of the bell.
LEMMA BadgeBell ==
  ASSUME FeedShape, QueueShape, BadgeInv, UNCHANGED queueVars,
         Insert \/ Connect \/ JoinQueueRoom \/ ReadNotes \/ PatchApplies \/ PatchFails \/ OpenPanel
         \/ \E n \in due : EmitLost(n)
  PROVE  BadgeInv'
<1>1. UNCHANGED <<flag, job, pane>> /\ PaneStep
  BY PaneKept DEF queueVars, caseVars
<1>2. CASE Insert \/ PatchApplies \/ PatchFails \/ \E n \in due : EmitLost(n)
  <2>1. UNCHANGED <<wire, tab, link, snap, tuned, badgeOff>>
    BY <1>2 DEF Insert, PatchApplies, PatchFails, EmitLost, linkVars
  <2>2. QED
    BY <1>1, <2>1, BadgeRest
<1>3. CASE Connect \/ JoinQueueRoom
  <2>1. UNCHANGED <<wire, tab, snap, badgeOff>> /\ (UNCHANGED tuned \/ tuned') /\ (link' = "sent" => link = "sent")
    BY <1>3 DEF Connect, JoinQueueRoom, bellVars
  <2>2. QED
    BY <1>1, <2>1, BadgeRest
<1>4. CASE ReadNotes
  <2>1. snap'.count = snap.count
    BY <1>4, ReadsTable
  <2>2. UNCHANGED <<wire, tab, link, tuned, badgeOff>>
    BY <1>4 DEF ReadNotes
  <2>3. QED
    BY <1>1, <2>1, <2>2, BadgeRest
<1>5. CASE OpenPanel
  <2>1. tab'.badge = tab.badge
    BY <1>5, PanelShown
  <2>2. UNCHANGED <<wire, link, snap, tuned, badgeOff>>
    BY <1>5 DEF OpenPanel, linkVars
  <2>3. QED
    BY <1>1, <2>1, <2>2, BadgeRest
<1>6. QED
  BY <1>2, <1>3, <1>4, <1>5

LEMMA BadgeQueue ==
  ASSUME Inv, QueueShape, BadgeInv, OpenQueue \/ CloseQueue \/ \E k \in 1..MaxFetches : LoadReads(k)
  PROVE  BadgeInv'
<1>1. PaneStep
  BY PaneOpens, PaneCloses, PaneReads
<1>2. UNCHANGED <<flag, job, wire, tab, link, snap, tuned, badgeOff>>
  BY DEF OpenQueue, CloseQueue, LoadReads, feedVars, bellVars, linkVars, caseVars
<1>3. QED
  BY <1>1, <1>2, BadgeRest

LEMMA ReceivePane == ASSUME QueueShape, Receive PROVE PaneStep
<1>1. PICK c \in BOOLEAN : c <=> (pane.open /\ tab # None)
  OBVIOUS
<1>2. pane' = IF c THEN Loading(pane) ELSE pane
  BY <1>1 DEF Receive, Rerendered
<1>3. QED
  BY <1>2, PaneMaybeLoads

LEMMA BadgeReceive == ASSUME FeedShape, QueueShape, BadgeInv, Receive PROVE BadgeInv'
<1>1. UNCHANGED <<flag, job, snap, tuned, link, badgeOff>>
  BY DEF Receive, caseVars
<1> SUFFICES ASSUME ~ badgeOff' PROVE BadgeHeld' /\ (link' = "sent" => FitsAhead' \/ Promised')
  BY DEF BadgeInv
<1>2. BadgeHeld /\ (link = "sent" => FitsAhead \/ Promised)
  BY <1>1 DEF BadgeInv
<1>3. BadgeHeld'
  BY <1>1, <1>2, ReceivePane, PublishStill, HeldOn
<1>4. Promised => Promised'
  BY <1>1 DEF Promised
<1>5. /\ wire[1] \in Events /\ wire \in Seq(Events) /\ wire # <<>> /\ wire' = Tail(wire) /\ 1 \in DOMAIN wire
      /\ Boot(1) => tab' = Booted(wire[1])
      /\ ~ Boot(1) => tab' = Told(wire[1])
      /\ ~ Boot(1) /\ tab = None => tab' = None
  BY TabTakes
<1>6. ASSUME link = "sent", FitsAhead PROVE FitsAhead'
  <2>1. tab # None => tab \in TabStates
    BY DEF FeedShape
  <2>2. New(1) => tab'.badge = tab.badge
    <3>1. SUFFICES ASSUME New(1) PROVE tab'.badge = tab.badge
      OBVIOUS
    <3>2. ~ Boot(1) /\ wire[1].ev = "new"
      BY <3>1 DEF Boot, New
    <3>3. CASE tab = None
      BY <1>5, <3>2, <3>3
    <3>4. CASE tab # None
      BY <1>5, <2>1, <3>2, <3>4, ToldNew
    <3>5. QED
      BY <3>3, <3>4
  <2>3. ~ New(1) => tab'.badge = wire[1].count \/ \E k \in DOMAIN wire : k # 1 /\ Boot(k)
    <3>1. SUFFICES ASSUME ~ New(1) PROVE tab'.badge = wire[1].count \/ \E k \in DOMAIN wire : k # 1 /\ Boot(k)
      OBVIOUS
    <3>2. CASE Boot(1)
      BY <1>5, <3>2, BootTold DEF Boot
    <3>3. CASE ~ Boot(1) /\ tab # None
      <4>1. wire[1].ev = "count"
        BY <1>5, <3>1, <3>3, Kinds DEF Boot, New
      <4>2. QED
        BY <1>5, <2>1, <3>3, <4>1, ToldCount
    <3>4. CASE ~ Boot(1) /\ tab = None
      BY <1>6, <3>4 DEF FeedShape
    <3>5. QED
      BY <3>2, <3>3, <3>4
  <2>4. QED
    BY <1>1, <1>5, <1>6, <2>2, <2>3, AheadTaken
<1>7. QED
  BY <1>1, <1>2, <1>3, <1>4, <1>6

LEMMA BadgeShows ==
  ASSUME Inv, FeedShape, QueueShape, BadgeInv, NEW k, LoadShows(k)
  PROVE  BadgeInv'
<1>1. UNCHANGED <<flag, job, snap, tuned, link, wire, badgeOff>>
  BY DEF LoadShows, bellVars, linkVars, caseVars
<1> SUFFICES ASSUME ~ badgeOff' PROVE BadgeHeld' /\ (link' = "sent" => FitsAhead' \/ Promised')
  BY DEF BadgeInv
<1>2. BadgeHeld /\ (link = "sent" => FitsAhead \/ Promised)
  BY <1>1 DEF BadgeInv
<1>3. BadgeHeld'
  BY <1>1, <1>2, PaneShows, PublishStill, HeldOn
<1>4. Promised => Promised'
  BY <1>1 DEF Promised
<1>5. PICK list : list = pane.loads[k].list
  OBVIOUS
<1>6. list = Listed
  BY <1>2, <1>5 DEF LoadShows, BadgeHeld
<1>7. tab' = IF tab = None THEN None ELSE [tab EXCEPT !.badge = Cardinality(list)]
  BY <1>5 DEF LoadShows
<1>8. tab # None => tab'.badge = Cardinality(Listed)
  BY <1>6, <1>7 DEF FeedShape, TabStates
<1>9. ASSUME link = "sent", FitsAhead PROVE FitsAhead'
  <2>1. CASE tab = None
    BY <1>1, <1>7, <1>9, <2>1, AheadKept
  <2>2. CASE tab # None /\ \A m \in DOMAIN wire : New(m)
    <3>1. Fits(tab'.badge)
      BY <1>8, <2>2, ListFits
    <3>2. QED
      BY <1>1, <2>2, <3>1 DEF FitsAhead, Fits, Pending, New
  <2>3. CASE ~ \A m \in DOMAIN wire : New(m)
    BY <1>1, <1>9, <2>3 DEF FitsAhead, Fits, Pending, New
  <2>4. QED
    BY <2>1, <2>2, <2>3
<1>10. QED
  BY <1>1, <1>2, <1>3, <1>4, <1>9

LEMMA ListedIn ==
  ASSUME NEW a, a.items \in Items, NEW d \in Nat, Listing(a, d)
  PROVE  /\ Len(a.items) \in Nat /\ DOMAIN a.items = 1..Len(a.items) /\ Len(a.items) <= d
         /\ \A k \in DOMAIN a.items : d - k + 1 \in 1..d
<1>1. Len(a.items) \in Nat /\ DOMAIN a.items = 1..Len(a.items)
  BY LenProperties DEF Items
<1>2. Len(a.items) <= d
  BY <1>1, NoneApart DEF Listing
<1>3. QED
  BY <1>1, <1>2

LEMMA MirrorsKept ==
  ASSUME NEW a, a.items \in Items, NEW d \in Nat, Mirrors(a, d), \A n \in 1..d : note'[n] = note[n]
  PROVE  Mirrors(a, d)'
<1>1. Listing(a, d)'
  BY DEF Mirrors, Listing
<1>2. \A k \in DOMAIN a.items : a.items[k].read = note'[d - k + 1]
  <2>1. \A k \in DOMAIN a.items : d - k + 1 \in 1..d
    BY ListedIn DEF Mirrors
  <2>2. QED
    BY <2>1 DEF Mirrors
<1>3. Latest(d) \subseteq 1..d
  BY LatestIs
<1>4. {n \in Latest(d) : ~ note'[n]} = {n \in Latest(d) : ~ note[n]} /\ {n \in 1..d : ~ note'[n]} = {n \in 1..d : ~ note[n]}
  BY <1>3
<1>5. Unread(Latest(d))' = Unread(Latest(d)) /\ Unread(1..d)' = Unread(1..d)
  BY <1>4 DEF Unread
<1>6. QED
  BY <1>1, <1>2, <1>5 DEF Mirrors

\* Two answers with the same list and number tell the same.
LEMMA SameTold ==
  ASSUME NEW a, NEW b, a.items = b.items, a.unread = b.unread, NEW d
  PROVE  (Mirrors(a, d) <=> Mirrors(b, d)) /\ (Cleared(a, d) <=> Cleared(b, d))
BY DEF Mirrors, Cleared, Listing

LEMMA Dues == ASSUME NEW d \in Nat, NEW e \in Nat, NEW l \in Nat, d <= e, e <= l, NEW n, n \in (e + 1)..l, \A m \in (e + 1)..l : ~ (m < n)
              PROVE n = e + 1
OBVIOUS

\* Steps in which the bell has no part.
BellKept ==
  /\ UNCHANGED <<note, due, patches, wire>> /\ (link' = "sent" => link = "sent")
  /\ snap'.notes = snap.notes /\ tab'.items = tab.items /\ tab'.unread = tab.unread
  /\ ~ bellOff' => ~ bellOff

LEMMA LineKept ==
  ASSUME NEW d, NEW e, Line(d, e), UNCHANGED <<note, due, wire>>
  PROVE  Line(d, e)'
BY DEF Line, New

LEMMA BellRest == ASSUME FeedShape, BellInv, BellKept PROVE BellInv'
<1> SUFFICES ASSUME ~ bellOff' PROVE BellFresh' /\ BellLine'
  BY DEF BellInv
<1>1. BellFresh /\ BellLine
  BY DEF BellInv, BellKept
<1>2. UNCHANGED <<note, due, patches, wire>> /\ (link' = "sent" => link = "sent") /\ snap'.notes = snap.notes
      /\ tab'.items = tab.items /\ tab'.unread = tab.unread
  BY DEF BellKept
<1>3. ASSUME NEW a, NEW d PROVE (Mirrors(a, d)' <=> Mirrors(a, d)) /\ (Cleared(a, d)' <=> Cleared(a, d))
  BY <1>2 DEF Mirrors, Cleared, Listing, Unread
<1>4. BellFresh'
  <2>1. PICK a : a = snap.notes
    OBVIOUS
  <2>2. snap'.notes # None => Still' /\ Mirrors(snap.notes, Len(note))'
    <3>1. SUFFICES ASSUME snap'.notes # None PROVE Still' /\ Mirrors(snap.notes, Len(note))'
      OBVIOUS
    <3>2. Still /\ Mirrors(snap.notes, Len(note))
      BY <1>1, <1>2, <3>1 DEF BellFresh
    <3>3. QED
      BY <1>2, <3>2 DEF Still, Mirrors, Listing, Unread
  <2>3. ASSUME NEW k \in DOMAIN wire', Boot(k)'
        PROVE  Still' /\ Mirrors(wire[k].notes, Len(note))' /\ \A m \in DOMAIN wire' : m > k => ~ New(m)'
    <3>1. Boot(k)
      BY <1>2, <2>3 DEF Boot
    <3>2. Still /\ Mirrors(wire[k].notes, Len(note)) /\ \A m \in DOMAIN wire : m > k => ~ New(m)
      BY <1>1, <1>2, <2>3, <3>1 DEF BellFresh
    <3>3. QED
      BY <1>2, <3>2 DEF Still, Mirrors, Listing, Unread, New
  <2>4. QED
    BY <2>2, <2>3 DEF BellFresh
<1>5. ASSUME link' = "sent", \A k \in DOMAIN wire' : ~ Boot(k)'
      PROVE  \E d, e \in 0..Len(note') :
               Line(d, e)' /\ IF patches' = 0 THEN Mirrors(tab, d)' ELSE d = Len(note') /\ Cleared(tab, d)'
  <2>1. link = "sent" /\ \A k \in DOMAIN wire : ~ Boot(k)
    BY <1>2, <1>5 DEF Boot
  <2>2. PICK d \in 0..Len(note), e \in 0..Len(note) :
          Line(d, e) /\ IF patches = 0 THEN Mirrors(tab, d) ELSE d = Len(note) /\ Cleared(tab, d)
    BY <1>1, <2>1 DEF BellLine
  <2>3. Line(d, e)'
    BY <1>2, <2>2, LineKept
  <2>4. (Mirrors(tab, d)' <=> Mirrors(tab, d)) /\ (Cleared(tab, d)' <=> Cleared(tab, d))
    BY <1>2 DEF Mirrors, Cleared, Listing, Unread
  <2>5. QED
    BY <1>2, <2>2, <2>3, <2>4
<1>6. QED
  BY <1>4, <1>5 DEF BellLine

LEMMA BellInsert == ASSUME FeedShape, BellInv, Insert PROVE BellInv'
<1> SUFFICES ASSUME ~ bellOff' PROVE BellFresh' /\ BellLine'
  BY DEF BellInv
<1>1. /\ note' = Append(note, FALSE) /\ due' = due \cup {Len(note) + 1}
      /\ UNCHANGED <<patches, wire, snap, tab, link>> /\ ~ bellOff /\ ~ Owed /\ ~ (patches > 0)
  BY DEF Insert, linkVars
<1>2. snap.notes = None /\ \A k \in DOMAIN wire : ~ Boot(k)
  BY <1>1 DEF Owed, OnWire, Boot
<1>3. patches = 0
  BY <1>1 DEF FeedShape
<1>4. PICK len \in Nat : len = Len(note)
  BY NoteSeq
<1>5. Len(note') = len + 1 /\ \A n \in 1..len : note'[n] = note[n]
  BY <1>1, <1>4, NoteSeq, AppendProperties
<1>6. ~ note'[len + 1]
  BY <1>1, <1>4, NoteSeq, AppendProperties
<1>7. BellFresh'
  BY <1>1, <1>2 DEF BellFresh, Boot
<1>8. ASSUME link' = "sent"
      PROVE  \E d, e \in 0..Len(note') :
               Line(d, e)' /\ IF patches' = 0 THEN Mirrors(tab, d)' ELSE d = Len(note') /\ Cleared(tab, d)'
  <2>1. PICK d \in 0..Len(note), e \in 0..Len(note) :
          Line(d, e) /\ IF patches = 0 THEN Mirrors(tab, d) ELSE d = Len(note) /\ Cleared(tab, d)
    BY <1>1, <1>2, <1>8 DEF BellInv, BellLine
  <2>2. d \in 0..len /\ e \in 0..len /\ d <= e /\ due = (e + 1)..len
    BY <1>4, <2>1 DEF Line
  <2>3. due' = (e + 1)..(len + 1)
    BY <1>1, <1>4, <2>2
  <2>4. \A n \in (d + 1)..(len + 1) : ~ note'[n]
    <3>1. \A n \in (d + 1)..len : ~ note[n]
      BY <1>4, <2>1 DEF Line
    <3>2. QED
      BY <1>4, <1>5, <1>6, <2>2, <3>1
  <2>5. Line(d, e)'
    BY <1>1, <1>5, <2>1, <2>2, <2>3, <2>4 DEF Line, New
  <2>6. PICK a : a = tab
    OBVIOUS
  <2>7. a.items \in Items
    BY <1>1, <1>2, <1>8, <2>6 DEF FeedShape, TabStates
  <2>8. Mirrors(a, d)'
    BY <1>3, <1>5, <2>1, <2>2, <2>6, <2>7, MirrorsKept
  <2>9. Mirrors(tab, d)'
    BY <1>1, <2>6, <2>8 DEF Mirrors, Listing
  <2>10. d \in 0..Len(note') /\ e \in 0..Len(note')
    BY <1>4, <1>5, <2>2
  <2>11. QED
    BY <1>1, <1>3, <2>5, <2>9, <2>10
<1>9. QED
  BY <1>7, <1>8 DEF BellLine

\* BellLine, without its witnesses.
Lined(d, e) == Line(d, e) /\ IF patches = 0 THEN Mirrors(tab, d) ELSE d = Len(note) /\ Cleared(tab, d)

LEMMA LineGot ==
  ASSUME FeedShape, BellInv, ~ bellOff, link = "sent", \A k \in DOMAIN wire : ~ Boot(k)
  PROVE  /\ tab \in TabStates /\ tab.items \in Items /\ tab.unread \in Nat /\ Len(note) \in Nat
         /\ \E d, e \in Nat : d <= e /\ e <= Len(note) /\ due = (e + 1)..Len(note) /\ Lined(d, e)
<1>1. tab \in TabStates /\ tab.items \in Items /\ tab.unread \in Nat /\ Len(note) \in Nat
  BY NoteSeq DEF FeedShape, TabStates
<1>2. PICK i \in 0..Len(note), k \in 0..Len(note) : Lined(i, k)
  BY DEF BellInv, BellLine, Lined
<1>3. i \in Nat /\ k \in Nat /\ k <= Len(note)
  BY <1>1
<1>4. i <= k /\ due = (k + 1)..Len(note)
  BY <1>2 DEF Lined, Line
<1>5. QED
  BY <1>1, <1>2, <1>3, <1>4

LEMMA LinePut ==
  ASSUME NEW d \in Nat, NEW e \in Nat, d <= e, e <= Len(note'), Len(note') \in Nat, Lined(d, e)'
  PROVE  BellLine'
BY DEF BellLine, Lined

LEMMA BellEmit == ASSUME FeedShape, BellInv, NEW n \in due, Emit(n) PROVE BellInv'
<1> SUFFICES ASSUME ~ bellOff' PROVE BellFresh' /\ BellLine'
  BY DEF BellInv
<1>1. /\ due' = due \ {n} /\ Send([ev |-> "new", id |-> n]) /\ UNCHANGED <<note, patches, snap, tab, link>>
      /\ ~ bellOff /\ \A m \in due : ~ (m < n)
  BY DEF Emit
<1>2. BellFresh /\ ~ Still
  BY <1>1 DEF BellInv, Still
<1>3. snap.notes = None /\ \A k \in DOMAIN wire : ~ Boot(k)
  BY <1>2 DEF BellFresh
<1>4. PICK x : x = [ev |-> "new", id |-> n]
  OBVIOUS
<1>5. PICK w : w = Len(wire)
  OBVIOUS
<1>6. CASE link = "off"
  <2>1. wire' = wire
    BY <1>1, <1>6 DEF Send
  <2>2. QED
    BY <1>1, <1>3, <1>6, <2>1 DEF BellFresh, BellLine, Boot
<1>7. CASE link # "off"
  <2>0. n \in Nat
    BY NoteSeq DEF FeedShape
  <2>1. x \in Events /\ wire' = Append(wire, x) /\ wire \in Seq(Events)
    BY <1>1, <1>4, <1>7, <2>0 DEF Events, Send, FeedShape
  <2>2. /\ w \in Nat /\ DOMAIN wire = 1..w /\ DOMAIN wire' = 1..(w + 1)
        /\ wire'[w + 1] = x /\ \A k \in DOMAIN wire : wire'[k] = wire[k]
    BY <1>5, <2>1, WireLonger
  <2>3. x.ev = "new" /\ x.id = n
    BY <1>4
  <2>4. \A k \in DOMAIN wire' : ~ Boot(k)'
    BY <1>3, <2>2, <2>3 DEF Boot
  <2>5. BellFresh'
    BY <1>1, <1>3, <2>4 DEF BellFresh
  <2>6. ASSUME link = "sent" PROVE BellLine'
    <3>1. PICK d \in Nat, e \in Nat : d <= e /\ e <= Len(note) /\ due = (e + 1)..Len(note) /\ Lined(d, e)
      BY <1>1, <1>3, <2>6, LineGot
    <3>2. Len(note) \in Nat
      BY NoteSeq
    <3>3. n = e + 1 /\ e + 1 <= Len(note)
      BY <1>1, <3>1, <3>2, Dues
    <3>4. due' = (e + 2)..Len(note)
      BY <1>1, <3>1, <3>2, <3>3
    <3>5. Line(d, e)
      BY <3>1 DEF Lined
    <3>6. \A i \in (d + 1)..(e + 1) : \E k \in DOMAIN wire' : New(k)' /\ wire'[k].id = i
      <4>1. SUFFICES ASSUME NEW i \in (d + 1)..(e + 1) PROVE \E k \in DOMAIN wire' : New(k)' /\ wire'[k].id = i
        OBVIOUS
      <4>2. CASE i = e + 1
        <5>1. w + 1 \in DOMAIN wire'
          BY <2>2
        <5>2. QED
          BY <2>2, <2>3, <3>3, <4>2, <5>1 DEF New
      <4>3. CASE i # e + 1
        <5>1. i \in (d + 1)..e
          BY <4>3
        <5>2. PICK k \in DOMAIN wire : New(k) /\ wire[k].id = i
          BY <3>5, <5>1 DEF Line
        <5>3. QED
          BY <2>2, <5>2 DEF New
      <4>4. QED
        BY <4>2, <4>3
    <3>7. \A k \in DOMAIN wire' : New(k)' => wire'[k].id \in (d + 1)..(e + 1) /\ (k # w + 1 => wire'[k].id \in (d + 1)..e)
      <4>1. \A k \in DOMAIN wire : New(k) => wire[k].id \in (d + 1)..e
        BY <3>5 DEF Line
      <4>2. SUFFICES ASSUME NEW k \in DOMAIN wire', New(k)'
                     PROVE  wire'[k].id \in (d + 1)..(e + 1) /\ (k # w + 1 => wire'[k].id \in (d + 1)..e)
        OBVIOUS
      <4>3. CASE k = w + 1
        BY <2>2, <2>3, <3>1, <3>3, <4>3
      <4>4. CASE k # w + 1
        <5>1. k \in DOMAIN wire /\ wire'[k] = wire[k]
          BY <2>2, <4>4
        <5>2. wire[k].id \in (d + 1)..e
          BY <4>1, <4>2, <5>1 DEF New
        <5>3. QED
          BY <4>4, <5>1, <5>2
      <4>5. QED
        BY <4>3, <4>4
    <3>8. \A k, m \in DOMAIN wire' : k < m /\ New(k)' /\ New(m)' => wire'[k].id < wire'[m].id
      <4>1. SUFFICES ASSUME NEW k \in DOMAIN wire', NEW m \in DOMAIN wire', k < m, New(k)', New(m)'
                     PROVE  wire'[k].id < wire'[m].id
        OBVIOUS
      <4>2. k \in DOMAIN wire /\ wire'[k] = wire[k] /\ k # w + 1
        BY <2>2, <4>1
      <4>3. CASE m = w + 1
        BY <2>2, <2>3, <3>1, <3>3, <3>7, <4>1, <4>2, <4>3
      <4>4. CASE m # w + 1
        <5>1. m \in DOMAIN wire /\ wire'[m] = wire[m]
          BY <2>2, <4>4
        <5>2. QED
          BY <3>5, <4>1, <4>2, <5>1 DEF Line, New
      <4>5. QED
        BY <4>3, <4>4
    <3>9. PICK f \in Nat : f = e + 1
      OBVIOUS
    <3>10. d <= f /\ f <= Len(note) /\ due' = (f + 1)..Len(note)
      BY <3>1, <3>3, <3>4, <3>9
    <3>11. Line(d, f)'
      BY <1>1, <3>5, <3>6, <3>7, <3>8, <3>9, <3>10 DEF Line
    <3>12. Lined(d, f)'
      BY <1>1, <3>1, <3>11 DEF Lined, Mirrors, Cleared, Listing, Unread
    <3>13. QED
      BY <1>1, <3>2, <3>10, <3>12, LinePut
  <2>7. QED
    BY <1>1, <2>5, <2>6 DEF BellLine
<1>8. QED
  BY <1>6, <1>7

LEMMA BellRead == ASSUME FeedShape, ReadNotes PROVE BellInv'
<1> SUFFICES ASSUME ~ bellOff' PROVE BellFresh' /\ BellLine'
  BY DEF BellInv
<1>1. UNCHANGED <<note, due, patches, wire, link>> /\ link = "up" /\ due = {} /\ ~ (patches > 0) /\ ~ OnWire("boot")
  BY DEF ReadNotes
<1>2. Still
  BY <1>1 DEF Still, FeedShape
<1>3. \A k \in DOMAIN wire' : ~ Boot(k)'
  BY <1>1 DEF OnWire, Boot
<1>4. Mirrors(snap'.notes, Len(note))
  BY ReadsTable
<1>5. Mirrors(snap.notes, Len(note))'
  BY <1>1, <1>4 DEF Mirrors, Listing, Unread
<1>6. QED
  BY <1>1, <1>2, <1>3, <1>5 DEF BellFresh, BellLine, Still

LEMMA BellBoot == ASSUME FeedShape, BellInv, SendBootstrap PROVE BellInv'
<1> SUFFICES ASSUME ~ bellOff' PROVE BellFresh' /\ BellLine'
  BY DEF BellInv
<1>1. UNCHANGED <<note, due, patches, bellOff>> /\ snap' = Unasked /\ snap.notes # None
  BY DEF SendBootstrap, bellVars
<1>2. PICK n : n = Len(wire)
  OBVIOUS
<1>3. /\ n \in Nat /\ DOMAIN wire = 1..n /\ DOMAIN wire' = 1..(n + 1)
      /\ \A k \in DOMAIN wire : wire'[k] = wire[k] /\ ~ Boot(k)
      /\ wire'[n + 1].ev = "boot" /\ wire'[n + 1].notes = snap.notes
  BY <1>2, BootSent
<1>4. Still /\ Mirrors(snap.notes, Len(note))
  BY <1>1 DEF BellInv, BellFresh
<1>5. ASSUME NEW k \in DOMAIN wire', Boot(k)' PROVE k = n + 1
  BY <1>3, <1>5 DEF Boot
<1>6. ASSUME NEW k \in DOMAIN wire', Boot(k)'
      PROVE  Still' /\ Mirrors(wire[k].notes, Len(note))' /\ \A m \in DOMAIN wire' : m > k => ~ New(m)'
  <2>1. k = n + 1
    BY <1>5, <1>6
  <2>2. wire'[k].notes = snap.notes
    BY <1>3, <2>1
  <2>3. Mirrors(wire[k].notes, Len(note))'
    BY <1>1, <1>4, <2>2 DEF Mirrors, Listing, Unread
  <2>4. \A m \in DOMAIN wire' : ~ (m > k)
    BY <1>3, <2>1
  <2>5. QED
    BY <1>1, <1>4, <2>3, <2>4 DEF Still
<1>7. n + 1 \in DOMAIN wire' /\ Boot(n + 1)'
  BY <1>3 DEF Boot
<1>8. QED
  BY <1>1, <1>6, <1>7 DEF BellFresh, BellLine, Unasked

LEMMA BellBreak == ASSUME Break PROVE BellInv'
<1>1. wire' = <<>> /\ link' = "off" /\ snap' = Unasked
  BY DEF Break
<1>2. QED
  BY <1>1 DEF BellInv, BellFresh, BellLine, Unasked

\* With the answers shown and none under way, and nothing due or on the wire.
LEMMA LineEnds ==
  ASSUME FeedShape, NEW d \in Nat, NEW e \in Nat, d <= e, e <= Len(note), Line(d, e), d = Len(note)
  PROVE  due = {} /\ e = d /\ \A k \in DOMAIN wire : ~ New(k)
<1>1. Len(note) \in Nat
  BY NoteSeq
<1>2. e = d /\ due = (e + 1)..d /\ \A k \in DOMAIN wire : New(k) => wire[k].id \in (d + 1)..e
  BY <1>1 DEF Line
<1>3. QED
  BY <1>2

LEMMA LineEmpty ==
  ASSUME NEW d \in Nat, d = Len(note'), due' = {}, \A k \in DOMAIN wire' : ~ New(k)'
  PROVE  Line(d, d)'
BY DEF Line

LEMMA BellPatch == ASSUME FeedShape, BellInv, PatchApplies PROVE BellInv'
<1> SUFFICES ASSUME ~ bellOff' PROVE BellFresh' /\ BellLine'
  BY DEF BellInv
<1>1. /\ patches > 0 /\ patches' = patches - 1 /\ note' = [n \in DOMAIN note |-> TRUE]
      /\ UNCHANGED <<due, wire, snap, tab, link>> /\ ~ bellOff /\ ~ Owed
  BY DEF PatchApplies, linkVars, Ids
<1>2. snap.notes = None /\ \A k \in DOMAIN wire : ~ Boot(k)
  BY <1>1 DEF Owed, OnWire, Boot
<1>3. BellFresh'
  BY <1>1, <1>2 DEF BellFresh, Boot
<1>4. ASSUME link = "sent" PROVE BellLine'
  <2>1. PICK d \in Nat, e \in Nat : d <= e /\ e <= Len(note) /\ due = (e + 1)..Len(note) /\ Lined(d, e)
    BY <1>1, <1>2, <1>4, LineGot
  <2>2. patches # 0 /\ Len(note) \in Nat
    BY <1>1, NoteSeq DEF FeedShape
  <2>3. d = Len(note) /\ Cleared(tab, d) /\ Line(d, e)
    BY <2>1, <2>2 DEF Lined
  <2>4. due = {} /\ e = d /\ \A k \in DOMAIN wire : ~ New(k)
    BY <2>1, <2>3, LineEnds
  <2>5. Len(note') = Len(note) /\ \A n \in 1..d : note'[n] = TRUE
    <3>1. DOMAIN note = 1..d /\ note' \in [1..d -> BOOLEAN]
      BY <1>1, <2>2, <2>3, NoteSeq
    <3>2. Len(note') = d
      BY <2>2, <2>3, <3>1, IsASeq
    <3>3. QED
      BY <1>1, <2>3, <3>1, <3>2
  <2>6. Line(d, d)'
    BY <1>1, <2>3, <2>4, <2>5, LineEmpty DEF New
  <2>7. PICK a : a = tab
    OBVIOUS
  <2>8. a.items \in Items /\ a.unread = 0 /\ Listing(a, d) /\ \A k \in DOMAIN a.items : a.items[k].read
    BY <1>1, <1>2, <1>4, <2>3, <2>7, LineGot DEF Cleared
  <2>9. Cleared(tab, d)'
    BY <1>1, <2>7, <2>8 DEF Cleared, Listing
  <2>10. Mirrors(tab, d)'
    <3>1. \A k \in DOMAIN a.items : d - k + 1 \in 1..d
      BY <2>8, ListedIn
    <3>20. PICK S : S = [id : Nat, read : BOOLEAN]
      OBVIOUS
    <3>2. a.items \in Seq(S) /\ DOMAIN a.items = 1..Len(a.items)
      BY <2>8, <3>20, LenProperties DEF Items
    <3>3. \A k \in DOMAIN a.items : a.items[k].read = TRUE
      <4>1. \A k \in DOMAIN a.items : a.items[k] \in [id : Nat, read : BOOLEAN]
        BY <3>2, <3>20, ElementOfSeq
      <4>2. \A k \in DOMAIN a.items : a.items[k].read \in BOOLEAN
        BY <4>1
      <4>3. QED
        BY <2>8, <4>2
    <3>4. \A k \in DOMAIN a.items : a.items[k].read = note'[d - k + 1]
      BY <2>5, <3>1, <3>3
    <3>5. Latest(d) \subseteq 1..d
      BY LatestIs
    <3>6. {n \in Latest(d) : ~ note'[n]} = {} /\ {n \in 1..d : ~ note'[n]} = {}
      BY <2>5, <3>5
    <3>7. Unread(Latest(d))' = 0 /\ Unread(1..d)' = 0
      BY <3>6, FS_EmptySet DEF Unread
    <3>8. Unread(Latest(d))' <= a.unread /\ a.unread <= Unread(1..d)'
      BY <2>8, <3>7
    <3>9. Mirrors(a, d)'
      BY <2>8, <3>4, <3>8 DEF Mirrors, Listing
    <3>10. QED
      BY <1>1, <2>7, <3>9 DEF Mirrors, Listing
  <2>11. Lined(d, d)'
    BY <2>3, <2>5, <2>6, <2>9, <2>10 DEF Lined
  <2>12. d <= d /\ d <= Len(note') /\ Len(note') \in Nat
    BY <2>2, <2>3, <2>5
  <2>13. QED
    BY <2>11, <2>12, LinePut
<1>5. QED
  BY <1>1, <1>3, <1>4 DEF BellLine

LEMMA BellPanel == ASSUME FeedShape, BellInv, OpenPanel PROVE BellInv'
<1> SUFFICES ASSUME ~ bellOff' PROVE BellFresh' /\ BellLine'
  BY DEF BellInv
<1>1. /\ patches' = patches + 1 /\ UNCHANGED <<note, due, wire, snap, link>> /\ ~ bellOff /\ ~ Owed
      /\ due = {} /\ ~ OnWire("new")
  BY DEF OpenPanel, linkVars
<1>2. snap.notes = None /\ \A k \in DOMAIN wire : ~ Boot(k) /\ ~ New(k)
  BY <1>1 DEF Owed, OnWire, Boot, New
<1>3. BellFresh'
  BY <1>1, <1>2 DEF BellFresh, Boot
<1>4. ASSUME link = "sent" PROVE BellLine'
  <2>1. PICK d \in Nat, e \in Nat : d <= e /\ e <= Len(note) /\ due = (e + 1)..Len(note) /\ Lined(d, e)
    BY <1>1, <1>2, <1>4, LineGot
  <2>2. Len(note) \in Nat /\ Line(d, e) /\ Listing(tab, d)
    BY <2>1, NoteSeq DEF Lined, Mirrors, Cleared
  <2>3. e = Len(note)
    BY <1>1, <2>1, <2>2
  <2>4. d = e
    <3>1. \A n \in (d + 1)..e : FALSE
      BY <1>2, <2>2 DEF Line
    <3>2. QED
      BY <2>1, <3>1
  <2>5. Line(d, d)'
    BY <1>1, <1>2, <2>3, <2>4, LineEmpty DEF New
  <2>6. PICK t : t = tab
    OBVIOUS
  <2>7. PICK u : u = tab'
    OBVIOUS
  <2>8. /\ u.unread = 0 /\ DOMAIN u.items = DOMAIN t.items /\ Len(u.items) = Len(t.items)
        /\ \A k \in DOMAIN t.items : u.items[k].id = t.items[k].id /\ u.items[k].read = TRUE
    BY <2>6, <2>7, PanelShown
  <2>9. Cleared(u, d)
    BY <2>2, <2>6, <2>8 DEF Cleared, Listing
  <2>10. Cleared(tab, d)'
    BY <2>7, <2>9 DEF Cleared, Listing
  <2>11. patches' # 0
    BY <1>1 DEF FeedShape
  <2>12. Lined(d, d)'
    BY <1>1, <2>3, <2>4, <2>5, <2>10, <2>11 DEF Lined
  <2>13. d <= d /\ d <= Len(note') /\ Len(note') \in Nat
    BY <1>1, <2>2, <2>3, <2>4
  <2>14. QED
    BY <2>12, <2>13, LinePut
<1>5. QED
  BY <1>1, <1>3, <1>4 DEF BellLine

LEMMA BellPublish ==
  ASSUME FeedShape, QueueShape, BellInv, NEW j \in Jobs, PublishCount(j)
  PROVE  BellInv'
<1>1. UNCHANGED <<note, due, patches, bellOff, link, snap, tab>>
  BY DEF PublishCount, bellVars
<1>2. PICK x : x = [ev |-> "count", count |-> job[j].count]
  OBVIOUS
<1>3. wire' = wire \/ (wire' = Append(wire, x) /\ link # "off")
  BY <1>2 DEF PublishCount, Send
<1>4. CASE wire' = wire
  BY <1>1, <1>4, BellRest DEF BellKept
<1>5. CASE wire' = Append(wire, x)
  <2> SUFFICES ASSUME ~ bellOff' PROVE BellFresh' /\ BellLine'
    BY DEF BellInv
  <2>1. x \in Events /\ x.ev = "count" /\ wire \in Seq(Events)
    BY <1>2 DEF Events, PublishCount, QueueShape, FeedShape
  <2>2. PICK w : w = Len(wire)
    OBVIOUS
  <2>3. /\ w \in Nat /\ DOMAIN wire = 1..w /\ DOMAIN wire' = 1..(w + 1)
        /\ wire'[w + 1] = x /\ \A k \in DOMAIN wire : wire'[k] = wire[k]
    BY <1>5, <2>1, <2>2, WireLonger
  <2>4. \A k \in DOMAIN wire' : Boot(k)' \/ New(k)' => k \in DOMAIN wire /\ wire'[k] = wire[k]
    BY <2>1, <2>3 DEF Boot, New
  <2>5. \A k \in DOMAIN wire : k \in DOMAIN wire' /\ (Boot(k)' <=> Boot(k)) /\ (New(k)' <=> New(k))
    BY <2>3 DEF Boot, New
  <2>6. BellFresh /\ ~ bellOff
    BY <1>1 DEF BellInv
  <2>7. BellFresh'
    <3>1. snap'.notes # None => Still' /\ Mirrors(snap.notes, Len(note))'
      <4>1. SUFFICES ASSUME snap.notes # None PROVE Still' /\ Mirrors(snap.notes, Len(note))'
        BY <1>1
      <4>2. Still /\ Mirrors(snap.notes, Len(note))
        BY <2>6, <4>1 DEF BellFresh
      <4>3. QED
        BY <1>1, <4>2 DEF Still, Mirrors, Listing, Unread
    <3>2. ASSUME NEW k \in DOMAIN wire', Boot(k)'
          PROVE  Still' /\ Mirrors(wire[k].notes, Len(note))' /\ \A m \in DOMAIN wire' : m > k => ~ New(m)'
      <4>1. k \in DOMAIN wire /\ wire'[k] = wire[k] /\ Boot(k)
        BY <2>4, <2>5, <3>2
      <4>2. Still /\ Mirrors(wire[k].notes, Len(note)) /\ \A m \in DOMAIN wire : m > k => ~ New(m)
        BY <2>6, <4>1 DEF BellFresh
      <4>3. Still' /\ Mirrors(wire[k].notes, Len(note))'
        BY <1>1, <4>1, <4>2 DEF Still, Mirrors, Listing, Unread
      <4>4. \A m \in DOMAIN wire' : m > k => ~ New(m)'
        BY <2>4, <2>5, <4>2
      <4>5. QED
        BY <4>3, <4>4
    <3>3. QED
      BY <3>1, <3>2 DEF BellFresh
  <2>8. ASSUME link = "sent", \A k \in DOMAIN wire' : ~ Boot(k)' PROVE BellLine'
    <3>1. \A k \in DOMAIN wire : ~ Boot(k)
      BY <2>5, <2>8
    <3>2. PICK d \in Nat, e \in Nat : d <= e /\ e <= Len(note) /\ due = (e + 1)..Len(note) /\ Lined(d, e)
      BY <2>6, <2>8, <3>1, LineGot
    <3>3. Line(d, e)
      BY <3>2 DEF Lined
    <3>4. \A n \in (d + 1)..e : \E k \in DOMAIN wire' : New(k)' /\ wire'[k].id = n
      <4>1. SUFFICES ASSUME NEW n \in (d + 1)..e PROVE \E k \in DOMAIN wire' : New(k)' /\ wire'[k].id = n
        OBVIOUS
      <4>2. PICK k \in DOMAIN wire : New(k) /\ wire[k].id = n
        BY <3>3 DEF Line
      <4>3. QED
        BY <2>3, <2>5, <4>2
    <3>5. \A k \in DOMAIN wire' : New(k)' => wire'[k].id \in (d + 1)..e
      BY <2>4, <2>5, <3>3 DEF Line
    <3>6. \A k, m \in DOMAIN wire' : k < m /\ New(k)' /\ New(m)' => wire'[k].id < wire'[m].id
      BY <2>4, <2>5, <3>3 DEF Line
    <3>7. Line(d, e)'
      BY <1>1, <3>3, <3>4, <3>5, <3>6 DEF Line
    <3>8. Lined(d, e)'
      BY <1>1, <3>2, <3>7 DEF Lined, Mirrors, Cleared, Listing, Unread
    <3>9. Len(note) \in Nat
      BY NoteSeq
    <3>10. QED
      BY <1>1, <3>2, <3>8, <3>9, LinePut
  <2>9. QED
    BY <1>1, <2>7, <2>8 DEF BellLine
<1>6. QED
  BY <1>3, <1>4, <1>5

-----------------------------------------------------------------------------
\* One notification more on both sides.
LEMMA MirrorsNext ==
  ASSUME NEW a, a.items \in Items, a.unread \in Nat, NEW d \in Nat, Mirrors(a, d), note[d + 1] = FALSE,
         NEW b, Prepended(b, a, d + 1)
  PROVE  Mirrors(b, d + 1)
<1>1. Window \in Nat /\ Len(a.items) = (IF d < Window THEN d ELSE Window)
      /\ \A k \in DOMAIN a.items : a.items[k].id = d - k + 1 /\ a.items[k].read = note[d - k + 1]
  BY NoneApart DEF Mirrors, Listing
<1>2. Len(b.items) = IF d + 1 < Window THEN d + 1 ELSE Window
  BY <1>1 DEF Prepended
<1>20. Len(b.items) \in Nat
  BY <1>1, <1>2
<1>3. ASSUME NEW k \in DOMAIN b.items
      PROVE  b.items[k].id = (d + 1) - k + 1 /\ b.items[k].read = note[(d + 1) - k + 1]
  <2>0. k \in Nat
    BY <1>20, <1>3 DEF Prepended
  <2>1. CASE k = 1
    <3>1. (d + 1) - k + 1 = d + 1
      BY <2>1
    <3>2. QED
      BY <2>1, <3>1, <1>3 DEF Prepended
  <2>2. CASE k # 1
    <3>1. k - 1 \in DOMAIN a.items /\ b.items[k] = a.items[k - 1]
      BY <1>3, <2>2 DEF Prepended
    <3>2. a.items[k - 1].id = d - (k - 1) + 1 /\ a.items[k - 1].read = note[d - (k - 1) + 1]
      BY <1>1, <3>1
    <3>3. d - (k - 1) + 1 = (d + 1) - k + 1
      BY <2>0
    <3>4. QED
      BY <3>1, <3>2, <3>3
  <2>3. QED
    BY <2>1, <2>2
<1>4. /\ Unread(1..(d + 1)) = Unread(1..d) + 1
      /\ Unread(Latest(d + 1)) <= Unread(Latest(d)) + 1
      /\ Unread(1..d) \in Nat /\ Unread(Latest(d)) \in Nat
  BY UnreadOne
<1>5. Unread(Latest(d + 1)) \in Nat
  <2>1. d + 1 \in Nat
    OBVIOUS
  <2>2. QED
    BY <2>1, LatestIs, UnreadNat
<1>6. Unread(Latest(d)) <= a.unread /\ a.unread <= Unread(1..d)
  BY DEF Mirrors
<1>7. Unread(Latest(d + 1)) <= b.unread /\ b.unread <= Unread(1..(d + 1))
  BY <1>4, <1>5, <1>6 DEF Prepended
<1>8. QED
  BY <1>2, <1>3, <1>7 DEF Mirrors, Listing

LEMMA BellReceive == ASSUME FeedShape, BellInv, Receive PROVE BellInv'
<1> SUFFICES ASSUME ~ bellOff' PROVE BellFresh' /\ BellLine'
  BY DEF BellInv
<1>1. UNCHANGED <<note, due, patches, bellOff, link, snap>>
  BY DEF Receive, bellVars
<1>2. BellFresh /\ ~ bellOff
  BY <1>1 DEF BellInv
<1>3. /\ wire[1] \in Events /\ wire \in Seq(Events) /\ wire # <<>> /\ wire' = Tail(wire) /\ 1 \in DOMAIN wire
      /\ Boot(1) => tab' = Booted(wire[1])
      /\ ~ Boot(1) => tab' = Told(wire[1])
  BY TabTakes
<1>4. PICK n : n = Len(wire)
  OBVIOUS
<1>5. /\ n \in Nat /\ DOMAIN wire = 1..n /\ DOMAIN wire' = 1..(n - 1)
      /\ \A k \in DOMAIN wire' : wire'[k] = wire[k + 1] /\ k + 1 \in DOMAIN wire
  BY <1>3, <1>4, WireShorter
<1>6. \A k \in DOMAIN wire : k # 1 => k - 1 \in DOMAIN wire' /\ wire'[k - 1] = wire[k]
  BY <1>3, <1>5
<1>7. \A k \in DOMAIN wire' : (Boot(k)' <=> Boot(k + 1)) /\ (New(k)' <=> New(k + 1))
  BY <1>5 DEF Boot, New
<1>8. BellFresh'
  <2>1. snap'.notes # None => Still' /\ Mirrors(snap.notes, Len(note))'
    <3>1. SUFFICES ASSUME snap.notes # None PROVE Still' /\ Mirrors(snap.notes, Len(note))'
      BY <1>1
    <3>2. Still /\ Mirrors(snap.notes, Len(note))
      BY <1>2, <3>1 DEF BellFresh
    <3>3. QED
      BY <1>1, <3>2 DEF Still, Mirrors, Listing, Unread
  <2>2. ASSUME NEW k \in DOMAIN wire', Boot(k)'
        PROVE  Still' /\ Mirrors(wire[k].notes, Len(note))' /\ \A m \in DOMAIN wire' : m > k => ~ New(m)'
    <3>1. k + 1 \in DOMAIN wire /\ wire'[k] = wire[k + 1] /\ Boot(k + 1)
      BY <1>5, <1>7, <2>2
    <3>2. Still /\ Mirrors(wire[k + 1].notes, Len(note)) /\ \A m \in DOMAIN wire : m > k + 1 => ~ New(m)
      BY <1>2, <3>1 DEF BellFresh
    <3>3. Still' /\ Mirrors(wire[k].notes, Len(note))'
      BY <1>1, <3>1, <3>2 DEF Still, Mirrors, Listing, Unread
    <3>4. ASSUME NEW m \in DOMAIN wire', m > k PROVE ~ New(m)'
      <4>1. m + 1 \in DOMAIN wire /\ m + 1 > k + 1
        BY <1>5, <2>2, <3>4
      <4>2. QED
        BY <1>7, <3>2, <4>1
    <3>5. QED
      BY <3>3, <3>4
  <2>3. QED
    BY <2>1, <2>2 DEF BellFresh
<1>9. ASSUME link = "sent", \A k \in DOMAIN wire' : ~ Boot(k)' PROVE BellLine'
  <2>0. Len(note) \in Nat
    BY NoteSeq
  <2>1. \A k \in DOMAIN wire : k # 1 => ~ Boot(k)
    BY <1>6, <1>9 DEF Boot
  <2>2. PICK u : u = tab'
    OBVIOUS
  <2>3. CASE Boot(1)
    <3>1. Still /\ Mirrors(wire[1].notes, Len(note)) /\ \A m \in DOMAIN wire : m > 1 => ~ New(m)
      BY <1>2, <1>3, <2>3 DEF BellFresh
    <3>2. u.items = wire[1].notes.items /\ u.unread = wire[1].notes.unread
      BY <1>3, <2>2, <2>3, BootTold DEF Boot
    <3>3. Mirrors(u, Len(note))
      BY <3>1, <3>2 DEF Mirrors, Listing
    <3>4. \A k \in DOMAIN wire' : ~ New(k)'
      BY <1>5, <1>7, <3>1
    <3>5. PICK d \in Nat : d = Len(note)
      BY <2>0
    <3>6. Line(d, d)'
      BY <1>1, <3>1, <3>4, <3>5, LineEmpty DEF Still
    <3>7. Mirrors(u, d)
      BY <3>3, <3>5
    <3>8. Mirrors(tab, d)'
      BY <1>1, <2>2, <3>7 DEF Mirrors, Listing, Unread
    <3>9. Lined(d, d)'
      BY <1>1, <3>1, <3>6, <3>8 DEF Lined, Still
    <3>10. d <= d /\ d <= Len(note') /\ Len(note') \in Nat
      BY <1>1, <3>5
    <3>11. QED
      BY <3>9, <3>10, LinePut
  <2>4. CASE ~ Boot(1)
    <3>1. \A k \in DOMAIN wire : ~ Boot(k)
      BY <2>1, <2>4
    <3>2. tab \in TabStates /\ tab.items \in Items /\ tab.unread \in Nat
      BY <1>9, <3>1 DEF FeedShape, TabStates
    <3>3. PICK d \in Nat, e \in Nat : d <= e /\ e <= Len(note) /\ due = (e + 1)..Len(note) /\ Lined(d, e)
      BY <1>2, <1>9, <3>1, LineGot
    <3>4. Line(d, e)
      BY <3>3 DEF Lined
    <3>5. PICK t : t = tab
      OBVIOUS
    <3>6. wire[1].ev \in {"new", "count"}
      BY <1>3, <2>4, Kinds DEF Boot
    <3>7. \A k, m \in DOMAIN wire' : k < m /\ New(k)' /\ New(m)' => wire'[k].id < wire'[m].id
      <4>1. SUFFICES ASSUME NEW k \in DOMAIN wire', NEW m \in DOMAIN wire', k < m, New(k)', New(m)'
                     PROVE  wire'[k].id < wire'[m].id
        OBVIOUS
      <4>2. /\ New(k + 1) /\ New(m + 1) /\ k + 1 < m + 1 /\ k + 1 \in DOMAIN wire /\ m + 1 \in DOMAIN wire
            /\ wire'[k] = wire[k + 1] /\ wire'[m] = wire[m + 1]
        BY <1>5, <1>7, <4>1
      <4>3. QED
        BY <3>4, <4>2 DEF Line
    <3>8. CASE wire[1].ev = "count"
      <4>1. u.items = t.items /\ u.unread = t.unread
        BY <1>3, <2>2, <2>4, <3>2, <3>5, <3>8, ToldCount
      <4>2. ~ New(1)
        BY <3>8 DEF New
      <4>3. \A i \in (d + 1)..e : \E k \in DOMAIN wire' : New(k)' /\ wire'[k].id = i
        <5>1. SUFFICES ASSUME NEW i \in (d + 1)..e PROVE \E k \in DOMAIN wire' : New(k)' /\ wire'[k].id = i
          OBVIOUS
        <5>2. PICK k \in DOMAIN wire : New(k) /\ wire[k].id = i
          BY <3>4 DEF Line
        <5>3. PICK l : l = k - 1
          OBVIOUS
        <5>4. k # 1
          BY <4>2, <5>2
        <5>5. l \in DOMAIN wire' /\ wire'[l] = wire[k]
          BY <1>6, <5>3, <5>4
        <5>6. QED
          BY <5>2, <5>5 DEF New
      <4>4. \A k \in DOMAIN wire' : New(k)' => wire'[k].id \in (d + 1)..e
        BY <1>5, <1>7, <3>4 DEF Line
      <4>5. Line(d, e)'
        BY <1>1, <3>4, <3>7, <4>3, <4>4 DEF Line
      <4>6. (patches = 0 => Mirrors(t, d)) /\ (patches # 0 => d = Len(note) /\ Cleared(t, d))
        BY <3>3, <3>5 DEF Lined
      <4>7. (patches = 0 => Mirrors(u, d)) /\ (patches # 0 => d = Len(note) /\ Cleared(u, d))
        BY <4>1, <4>6, SameTold
      <4>8. (patches = 0 => Mirrors(tab, d)') /\ (patches # 0 => d = Len(note) /\ Cleared(tab, d)')
        BY <1>1, <2>2, <4>7 DEF Mirrors, Cleared, Listing, Unread
      <4>9. Lined(d, e)'
        BY <1>1, <4>5, <4>8 DEF Lined
      <4>10. QED
        BY <1>1, <2>0, <3>3, <4>9, LinePut
    <3>9. CASE wire[1].ev = "new"
      <4>1. New(1) /\ wire[1].id \in (d + 1)..e
        BY <1>3, <3>4, <3>9 DEF New, Line
      <4>2. d + 1 <= e /\ d + 1 \in (d + 1)..e
        BY <4>1
      <4>3. wire[1].id = d + 1
        <5>1. PICK k \in DOMAIN wire : New(k) /\ wire[k].id = d + 1
          BY <3>4, <4>2 DEF Line
        <5>2. CASE k = 1
          BY <5>1, <5>2
        <5>3. CASE k # 1
          <6>1. 1 < k
            BY <1>5, <5>3
          <6>2. wire[1].id < wire[k].id
            BY <1>3, <3>4, <4>1, <5>1, <6>1 DEF Line
          <6>3. QED
            BY <4>1, <5>1, <6>2
        <5>4. QED
          BY <5>2, <5>3
      <4>4. patches = 0 /\ Mirrors(t, d)
        BY <2>0, <3>3, <3>5, <4>2 DEF Lined
      <4>5. PICK f \in Nat : f = d + 1
        OBVIOUS
      <4>6. note[f] = FALSE
        <5>1. ~ note[d + 1]
          BY <2>0, <3>3, <3>4, <4>2 DEF Line
        <5>2. f \in DOMAIN note
          BY <2>0, <3>3, <4>2, <4>5, NoteSeq
        <5>3. note[f] \in BOOLEAN
          BY <5>2, NoteSeq
        <5>4. QED
          BY <4>5, <5>1, <5>3
      <4>7. Prepended(u, t, d + 1)
        BY <1>3, <2>2, <2>4, <3>2, <3>5, <3>9, <4>3, ToldNew
      <4>8. Mirrors(u, d + 1)
        BY <3>2, <3>5, <4>4, <4>5, <4>6, <4>7, MirrorsNext
      <4>9. Mirrors(tab, f)'
        <5>1. Mirrors(u, f)
          BY <4>5, <4>8
        <5>2. QED
          BY <1>1, <2>2, <5>1 DEF Mirrors, Listing, Unread
      <4>10. \A i \in (f + 1)..e : \E k \in DOMAIN wire' : New(k)' /\ wire'[k].id = i
        <5>1. SUFFICES ASSUME NEW i \in (f + 1)..e PROVE \E k \in DOMAIN wire' : New(k)' /\ wire'[k].id = i
          OBVIOUS
        <5>0. i \in (d + 1)..e /\ i # d + 1
          BY <4>5
        <5>2. PICK k \in DOMAIN wire : New(k) /\ wire[k].id = i
          BY <3>4, <5>0 DEF Line
        <5>3. PICK l : l = k - 1
          OBVIOUS
        <5>4. k # 1
          BY <4>3, <5>0, <5>2
        <5>5. l \in DOMAIN wire' /\ wire'[l] = wire[k]
          BY <1>6, <5>3, <5>4
        <5>6. QED
          BY <5>2, <5>5 DEF New
      <4>11. \A k \in DOMAIN wire' : New(k)' => wire'[k].id \in (f + 1)..e
        <5>1. SUFFICES ASSUME NEW k \in DOMAIN wire', New(k)' PROVE wire'[k].id \in (f + 1)..e
          OBVIOUS
        <5>2. k + 1 \in DOMAIN wire /\ wire'[k] = wire[k + 1] /\ New(k + 1) /\ 1 < k + 1
          BY <1>5, <1>7, <5>1
        <5>3. wire[k + 1].id \in (d + 1)..e /\ wire[1].id < wire[k + 1].id
          BY <1>3, <3>4, <4>1, <5>2 DEF Line
        <5>4. QED
          BY <4>3, <4>5, <5>2, <5>3
      <4>12. \A i \in (f + 1)..Len(note) : ~ note[i]
        BY <2>0, <3>4, <4>5 DEF Line
      <4>13. f <= e /\ due = (e + 1)..Len(note)
        BY <3>3, <4>2, <4>5
      <4>14. Line(f, e)'
        BY <1>1, <3>7, <4>10, <4>11, <4>12, <4>13 DEF Line
      <4>15. Lined(f, e)'
        BY <1>1, <4>4, <4>9, <4>14 DEF Lined
      <4>16. QED
        BY <1>1, <2>0, <3>3, <4>13, <4>15, LinePut
    <3>10. QED
      BY <3>6, <3>8, <3>9
  <2>5. QED
    BY <2>3, <2>4
<1>10. QED
  BY <1>1, <1>8, <1>9 DEF BellLine

LEMMA HeadInit == QueueInit => HeadInv
<1> SUFFICES ASSUME QueueInit PROVE HeadInv
  OBVIOUS
<1>1. /\ note = <<>> /\ due = {} /\ patches = 0 /\ link = "off" /\ snap = Unasked /\ wire = <<>> /\ tab = None
      /\ flag = <<>> /\ pane = [open |-> FALSE, list |-> {}, loads |-> <<>>] /\ \A j \in Jobs : job[j].pc = "todo"
  BY DEF QueueInit, FeedInit, NewJob
<1>2. note \in Seq(BOOLEAN) /\ wire \in Seq(Events) /\ DOMAIN note = {} /\ DOMAIN wire = {}
  BY <1>1, EmptySeq
<1>3. snap \in [notes : Answers \cup {None}, count : Nat \cup {None}] /\ snap.notes = None /\ snap.count = None
  BY <1>1 DEF Unasked
<1>4. FeedShape
  BY <1>1, <1>2, <1>3 DEF FeedShape
<1>5. pane.loads \in Seq(Loads) /\ DOMAIN pane.loads = {} /\ DOMAIN pane = {"open", "list", "loads"}
  BY <1>1, EmptySeq
<1>6. QueueShape
  BY <1>1, <1>5 DEF QueueShape, Loads, Is
<1>7. BellInv
  BY <1>1, <1>2, <1>3 DEF BellInv, BellFresh, BellLine
<1>8. BadgeInv
  BY <1>1, <1>3, <1>5 DEF BadgeInv, BadgeHeld, Is
<1>9. QED
  BY <1>4, <1>6, <1>7, <1>8 DEF HeadInv

\* The steps of the bell.
LEMMA HeadBell == ASSUME Inv, HeadInv, BellNext, UNCHANGED queueVars PROVE HeadInv'
<1> USE DEF HeadInv
<1>1. QueueShape'
  <2>1. UNCHANGED <<flag, job, pane>>
    BY DEF queueVars, caseVars
  <2>2. QED
    BY <2>1, PaneKept, QueueStill
<1>2. CASE Insert
  BY <1>1, <1>2, FeedInsert, BellInsert, BadgeBell
<1>3. CASE Connect
  <2>1. BellKept
    BY <1>3 DEF Connect, BellKept, bellVars
  <2>2. QED
    BY <1>1, <1>3, <2>1, FeedConnect, BellRest, BadgeBell
<1>4. CASE JoinQueueRoom
  <2>1. BellKept /\ UNCHANGED FeedFrame
    BY <1>4 DEF JoinQueueRoom, BellKept, FeedFrame, bellVars
  <2>2. QED
    BY <1>1, <1>4, <2>1, FeedKept, BellRest, BadgeBell
<1>5. CASE ReadNotes
  BY <1>1, <1>5, FeedRead, BellRead, BadgeBell
<1>6. CASE SendBootstrap
  BY <1>1, <1>6, FeedBoot, BellBoot, BadgeBoot
<1>7. CASE Break
  BY <1>1, <1>7, FeedBreak, BellBreak, BadgeBreak
<1>8. CASE PatchApplies
  BY <1>1, <1>8, FeedPatch, BellPatch, BadgeBell
<1>9. CASE PatchFails
  <2>1. bellOff' = TRUE
    BY <1>9 DEF PatchFails
  <2>2. BellInv'
    BY <2>1 DEF BellInv
  <2>3. QED
    BY <1>1, <1>9, <2>2, FeedPatchFails, BadgeBell
<1>10. CASE OpenPanel
  BY <1>1, <1>10, FeedPanel, BellPanel, BadgeBell
<1>11. ASSUME NEW n \in due, Emit(n) PROVE HeadInv'
  BY <1>1, <1>11, FeedEmit, BellEmit, BadgeEmit
<1>12. ASSUME NEW n \in due, EmitLost(n) PROVE HeadInv'
  <2>1. bellOff' = TRUE
    BY <1>12 DEF EmitLost
  <2>2. BellInv'
    BY <2>1 DEF BellInv
  <2>3. QED
    BY <1>1, <1>12, <2>2, FeedLost, BadgeBell
<1>13. QED
  BY <1>2, <1>3, <1>4, <1>5, <1>6, <1>7, <1>8, <1>9, <1>10, <1>11, <1>12 DEF BellNext

\* The steps of the tab's queue.
LEMMA HeadQueue ==
  ASSUME Inv, HeadInv, ReadCount \/ Receive \/ OpenQueue \/ CloseQueue \/ \E k \in 1..MaxFetches : LoadReads(k) \/ LoadShows(k)
  PROVE  HeadInv'
<1> USE DEF HeadInv
<1>1. CASE ReadCount
  <2>1. UNCHANGED <<flag, job, pane>>
    BY <1>1 DEF ReadCount, queueVars, caseVars
  <2>2. QueueShape'
    BY <2>1, PaneKept, QueueStill
  <2>3. snap' = [snap EXCEPT !.count = Cardinality(Pending)]
    BY <1>1 DEF ReadCount
  <2>4. snap'.notes = snap.notes
    BY <2>3 DEF FeedShape
  <2>5. BellKept
    BY <1>1, <2>4 DEF BellKept, ReadCount, bellVars
  <2>6. QED
    BY <1>1, <2>2, <2>5, FeedCount, BellRest, BadgeReadCount
<1>2. CASE Receive
  <2>1. UNCHANGED <<flag, job>>
    BY <1>2 DEF Receive, caseVars
  <2>2. QueueShape'
    BY <1>2, <2>1, ReceivePane, QueueStill
  <2>3. QED
    BY <1>2, <2>2, FeedReceive, BellReceive, BadgeReceive
<1>3. CASE OpenQueue \/ CloseQueue \/ \E k \in 1..MaxFetches : LoadReads(k)
  <2>1. UNCHANGED <<flag, job, tab, FeedFrame>> /\ BellKept
    BY <1>3 DEF OpenQueue, CloseQueue, LoadReads, feedVars, linkVars, bellVars, caseVars, FeedFrame, BellKept
  <2>2. PaneStep
    BY <1>3, PaneOpens, PaneCloses, PaneReads
  <2>3. QED
    BY <1>3, <2>1, <2>2, QueueStill, FeedKept, BellRest, BadgeQueue
<1>4. ASSUME NEW k, LoadShows(k) PROVE HeadInv'
  <2>1. UNCHANGED <<flag, job>>
    BY <1>4 DEF LoadShows, caseVars
  <2>2. QueueShape'
    BY <1>4, <2>1, PaneShows, QueueStill
  <2>3. PICK list : list = pane.loads[k].list
    OBVIOUS
  <2>4. tab' = IF tab = None THEN None ELSE [tab EXCEPT !.badge = Cardinality(list)]
    BY <1>4, <2>3 DEF LoadShows
  <2>5. tab'.items = tab.items /\ tab'.unread = tab.unread
    BY <2>4 DEF FeedShape, TabStates
  <2>6. BellKept
    BY <1>4, <2>5 DEF BellKept, LoadShows, bellVars, linkVars
  <2>7. QED
    BY <1>4, <2>2, <2>6, FeedShows, BellRest, BadgeShows
<1>5. QED
  BY <1>1, <1>2, <1>3, <1>4

\* The steps of the requests.
LEMMA HeadWork == ASSUME Inv, HeadInv, NEW j \in Jobs, Arrive(j) \/ Fail(j) \/ Work(j) PROVE HeadInv'
<1> USE DEF HeadInv
<1>1. CASE Quiet(j)
  <2>1. UNCHANGED <<JobFrame, desk, flag, badgeOff>> /\ PaneStep
    BY <1>1, QuietFrame
  <2>2. UNCHANGED FeedFrame /\ BellKept
    BY <2>1 DEF JobFrame, FeedFrame, BellKept
  <2>3. JobStep(j)
    BY <1>1, QuietMoves
  <2>4. QueueShape'
    BY <2>1, <2>3, QueueWork
  <2>5. BadgeInv'
    BY <1>1, QuietTells, BadgeQuiet
  <2>6. QED
    BY <2>2, <2>4, <2>5, FeedKept, BellRest
<1>2. CASE InsertFlag(j)
  <2>1. UNCHANGED FeedFrame /\ BellKept /\ UNCHANGED pane
    BY <1>2 DEF InsertFlag, FeedFrame, BellKept, linkVars, bellVars
  <2>2. BadgeInv' /\ JobStep(j) /\ DOMAIN flag \subseteq DOMAIN flag'
    BY <1>2, BadgeInsertFlag
  <2>3. QueueShape'
    BY <2>1, <2>2, PaneKept, QueueWork
  <2>4. QED
    BY <2>1, <2>2, <2>3, FeedKept, BellRest
<1>3. CASE Resolve(j)
  <2>1. UNCHANGED FeedFrame /\ BellKept /\ UNCHANGED pane
    BY <1>3 DEF Resolve, FeedFrame, BellKept, linkVars, bellVars
  <2>2. BadgeInv' /\ JobStep(j) /\ DOMAIN flag \subseteq DOMAIN flag'
    BY <1>3, BadgeResolve
  <2>3. QueueShape'
    BY <2>1, <2>2, PaneKept, QueueWork
  <2>4. QED
    BY <2>1, <2>2, <2>3, FeedKept, BellRest
<1>4. CASE Fail(j)
  <2>1. UNCHANGED FeedFrame /\ BellKept /\ UNCHANGED <<pane, flag>>
    BY <1>4 DEF Fail, FeedFrame, BellKept, linkVars, bellVars, caseVars
  <2>2. BadgeInv' /\ JobStep(j)
    BY <1>4, BadgeFail
  <2>3. QueueShape'
    BY <2>1, <2>2, PaneKept, QueueWork
  <2>4. QED
    BY <2>1, <2>2, <2>3, FeedKept, BellRest
<1>5. CASE PublishCount(j)
  <2>1. BadgeInv' /\ JobStep(j)
    BY <1>5, BadgePublish
  <2>2. UNCHANGED <<note, due, patches, link, snap, tab, pane, flag>>
    BY <1>5 DEF PublishCount, bellVars, caseVars
  <2>3. QueueShape'
    BY <2>1, <2>2, PaneKept, QueueWork
  <2>4. FeedShape'
    <3>1. CASE tuned
      <4>1. PICK e : e = [ev |-> "count", count |-> job[j].count]
        OBVIOUS
      <4>2. e \in Events /\ e.ev # "boot"
        BY <1>5, <4>1 DEF Events, PublishCount, QueueShape
      <4>3. Send(e)
        BY <1>5, <3>1, <4>1 DEF PublishCount
      <4>4. QED
        BY <2>2, <4>2, <4>3, FeedSend
    <3>2. CASE ~ tuned
      BY <1>5, <2>2, <3>2, FeedKept DEF PublishCount, FeedFrame
    <3>3. QED
      BY <3>1, <3>2
  <2>5. QED
    BY <1>5, <2>1, <2>3, <2>4, BellPublish
<1>6. QED
  BY <1>1, <1>2, <1>3, <1>4, <1>5 DEF Work, Quiet

LEMMA HeadUsers ==
  ASSUME Inv, HeadInv, UNCHANGED <<feedVars, flag, job, pane>>
  PROVE  HeadInv'
<1>1. UNCHANGED <<FeedFrame, flag, job, pane, badgeOff, tuned>> /\ BellKept
  BY DEF feedVars, linkVars, bellVars, FeedFrame, BellKept
<1>2. PaneStep
  BY <1>1, PaneKept DEF HeadInv
<1>3. BadgeInv'
  BY <1>1, <1>2, BadgeRest DEF HeadInv, FeedFrame
<1>4. QED
  BY <1>1, <1>2, <1>3, FeedKept, QueueStill, BellRest DEF HeadInv

LEMMA HeadNext == ASSUME Inv, HeadInv, [QueueNext]_deskVars PROVE HeadInv'
<1>1. CASE BellNext /\ UNCHANGED queueVars
  BY <1>1, HeadBell
<1>2. CASE ReadCount \/ Receive \/ OpenQueue \/ CloseQueue \/ \E k \in 1..MaxFetches : LoadReads(k) \/ LoadShows(k)
  BY <1>2, HeadQueue
<1>3. CASE \E j \in Jobs : Arrive(j) \/ Fail(j) \/ Work(j)
  BY <1>3, HeadWork
<1>4. CASE \E u \in Users : Enter(u) \/ \E r \in Rooms : PassGate(u, r) \/ JoinRoom(u, r)
  <2>1. UNCHANGED <<feedVars, flag, job, pane>>
    BY <1>4 DEF Enter, PassGate, JoinRoom, caseVars
  <2>2. QED
    BY <2>1, HeadUsers
<1>5. CASE UNCHANGED deskVars
  <2>1. UNCHANGED <<feedVars, flag, job, pane>>
    BY <1>5 DEF deskVars, queueVars, caseVars
  <2>2. QED
    BY <2>1, HeadUsers
<1>6. QED
  BY <1>1, <1>2, <1>3, <1>4, <1>5 DEF QueueNext

LEMMA HeadTells == ASSUME Inv, HeadInv PROVE HeaderAgrees
<1> USE DEF HeadInv
<1>1. BellAgrees
  <2>1. SUFFICES ASSUME link = "sent", wire = <<>>, due = {}, patches = 0, ~ bellOff
                 PROVE  /\ \A n \in Newest : \E k \in DOMAIN tab.items : tab.items[k] = [id |-> n, read |-> note[n]]
                        /\ Unread(Newest) <= tab.unread /\ tab.unread <= Unread(Ids)
    BY DEF BellAgrees
  <2>2. DOMAIN wire = {}
    BY <2>1, EmptySeq
  <2>3. /\ tab.items \in Items /\ Len(note) \in Nat
        /\ \E d, e \in Nat : d <= e /\ e <= Len(note) /\ due = (e + 1)..Len(note) /\ Lined(d, e)
    BY <2>1, <2>2, LineGot
  <2>4. PICK d \in Nat, e \in Nat : d <= e /\ e <= Len(note) /\ due = (e + 1)..Len(note) /\ Lined(d, e)
    BY <2>3
  <2>5. e = Len(note)
    BY <2>1, <2>3, <2>4
  <2>6. d = e
    <3>1. \A n \in (d + 1)..e : FALSE
      BY <2>2, <2>4 DEF Lined, Line
    <3>2. QED
      BY <2>4, <3>1
  <2>7. Mirrors(tab, d) /\ d = Len(note) /\ DOMAIN note = 1..d
    BY <2>1, <2>4, <2>5, <2>6, NoteSeq DEF Lined
  <2>8. Newest = Latest(d) /\ Ids = 1..d
    BY <2>7 DEF Newest, Latest, Ids
  <2>9. ASSUME NEW n \in Newest PROVE \E k \in DOMAIN tab.items : tab.items[k] = [id |-> n, read |-> note[n]]
    <3>1. PICK k : k = d - n + 1
      OBVIOUS
    <3>2. n \in 1..d /\ d - n < Window /\ Window \in Nat
      BY <2>8, NoneApart DEF Latest
    <3>3. PICK S : S = [id : Nat, read : BOOLEAN]
      OBVIOUS
    <3>4. tab.items \in Seq(S) /\ DOMAIN tab.items = 1..Len(tab.items)
      BY <2>3, <3>3, LenProperties DEF Items
    <3>5. Len(tab.items) = IF d < Window THEN d ELSE Window
      BY <2>7 DEF Mirrors, Listing
    <3>6. k \in DOMAIN tab.items /\ d - k + 1 = n
      BY <3>1, <3>2, <3>4, <3>5
    <3>7. tab.items[k] \in S
      BY <3>4, <3>6, ElementOfSeq
    <3>8. tab.items[k].id = n /\ tab.items[k].read = note[n]
      BY <2>7, <3>6 DEF Mirrors, Listing
    <3>9. QED
      BY <3>3, <3>6, <3>7, <3>8
  <2>10. QED
    BY <2>7, <2>8, <2>9 DEF Mirrors
<1>2. BadgeAgrees
  <2>1. SUFFICES ASSUME link = "sent", wire = <<>>, ~ badgeOff, \A j \in Jobs : ~ Running(j)
                 PROVE  tab.badge = Cardinality(Pending) \/ (tab.badge = QueueCap /\ Cardinality(Pending) > QueueCap)
    BY DEF BadgeAgrees
  <2>2. DOMAIN wire = {}
    BY <2>1, EmptySeq
  <2>3. ~ Promised
    BY <2>1 DEF Promised, Running
  <2>4. Fits(tab.badge)
    BY <2>1, <2>2, <2>3 DEF BadgeInv, FitsAhead
  <2>5. QED
    BY <2>4 DEF Fits
<1>3. QED
  BY <1>1, <1>2 DEF HeaderAgrees

\* However notifications, PATCHes, reconnections, verdicts and loads of the
\* queue interleave, the header at rest tells what the tables hold, but for
\* the crossings BellAgrees and BadgeAgrees name (SessionBootstrapContext.tsx,
\* NotificationBell.tsx, moderation-queue.ts:133-138).
THEOREM HeaderTrue == ModerationSpec => []HeaderAgrees
<1>1. Inv /\ HeadInv /\ [QueueNext]_deskVars => HeadInv'
  BY HeadNext
<1>2. Inv /\ HeadInv => HeaderAgrees
  BY HeadTells
<1>3. QED
  BY InvInit, InvNext, HeadInit, <1>1, <1>2, PTL DEF ModerationSpec
=============================================================================
