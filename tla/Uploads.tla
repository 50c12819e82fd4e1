------------------------------ MODULE Uploads ------------------------------
(***************************************************************************)
(* Uploaded files: the browser that strips an image (apps/web/lib/upload.ts *)
(* and the composer), POST /api/upload with its limits, its inspection of  *)
(* the bytes and its ledger row, the messages, edits and columns that      *)
(* refer to a file, and the sweep of the orphans (packages/db/src/         *)
(* maintenance.ts, sweep.ts).                                              *)
(***************************************************************************)
EXTENDS Naturals, Sequences, FiniteSets, FiniteSetsExt, SequencesExt

CONSTANTS
  Files,      \* attempts to upload; one that succeeds is a file with its URL
  Msgs, Dms,  \* messages that may be posted; those that are direct messages
  DayBytes,   \* upload_bytes_per_day_mb
  Quota,      \* upload_quota_mb
  Batch,      \* batchSize of the orphan sweep
  Scenes,     \* what happens in a behaviour: the files picked, those that are on
              \* record from the start, the messages, a column, faults allowed
  NoFile

VARIABLES
  scene,   \* one of Scenes; never changes
  up,      \* the requests: where they are and the day their bytes count for
  day, volume,   \* today, and upload:bytes of each day
  disk,    \* files below UPLOAD_DIR
  log,     \* uploads rows and message rows in the order of their created_at
  dead,    \* files whose row has a deleted_at
  old,     \* files whose row is older than the grace window
  column,  \* the URL in a column: avatar, banner, icon, GIF, setting
  msg,     \* messages: the file in the body, those in archived versions
  sweep,   \* the sweep that runs
  late,    \* history: files referred to for the first time after the grace
  faults

vars == <<scene, up, day, volume, disk, log, dead, old, column, msg, sweep, late, faults>>
ledger == <<scene, up, day, volume, disk, log>>
content == <<column, late>>

Days == {1, 2}
Containers == {"jpeg", "png", "webp", "gif"}
Buckets == {"avatars", "gifs", "uploads", "files"}
StripTypes == {"jpeg", "png"}
ImageBuckets == Buckets \ {"files"}
NonBlocking == {"icc"}
NoSweep == [pc |-> "none", cand |-> {}, left |-> {}]
NoMsg == [pc |-> "none", file |-> NoFile, old |-> {}, gone |-> FALSE]

UploadPC == {"todo", "reserve", "over", "quota", "inspect", "write", "record", "done", "failed"}
SweepPC == {"none", "columns", "topics", "edits", "dms", "unlink"}

TypeOK ==
  /\ up \in [Files -> [pc : UploadPC, day : Days]]
  /\ day \in Days /\ volume \in [Days -> Nat]
  /\ disk \subseteq Files /\ dead \subseteq Files /\ old \subseteq Files /\ late \subseteq Files
  /\ log \in Seq(Files \cup Msgs)
  /\ column \in Files \cup {NoFile}
  /\ msg \in [Msgs -> [pc : {"none", "posted", "archived"}, file : Files \cup {NoFile},
                       old : SUBSET Files, gone : BOOLEAN]]
  /\ sweep \in [pc : SweepPC, cand : SUBSET Files, left : SUBSET Files]
  /\ faults \in Nat

pick == scene.pick
Bytes(S) == MapThenSumSet(LAMBDA x : pick[x].size, S)

Init ==
  /\ scene \in Scenes
  /\ up = [f \in Files |-> [pc |-> IF f \in ToSet(scene.stored) THEN "done" ELSE "todo", day |-> 1]]
  /\ day = 1 /\ volume = [d \in Days |-> IF d = 1 THEN Bytes(ToSet(scene.stored)) ELSE 0]
  /\ disk = ToSet(scene.stored) /\ log = scene.stored /\ dead = {} /\ old = {} /\ late = {}
  /\ column = NoFile
  /\ msg = [m \in Msgs |-> NoMsg]
  /\ sweep = NoSweep
  /\ faults = 0

At(f, pc) == up[f].pc = pc
Goto(f, pc) == up' = [up EXCEPT ![f].pc = pc]

\* The rows of uploads, and where a row stands in the order of created_at.
Rows == {f \in Files : Contains(log, f)}
Position(x) == CHOOSE i \in DOMAIN log : log[i] = x

(***************************************************************************)
(* The browser: stripImageMetadata and the two upload zones                *)
(***************************************************************************)

\* A canvas writes a fresh container of the declared type; Safari's holds a
\* colour profile.  GIF and WebP go as they are, and so does what is preserved.
Sent(p) ==
  IF p.raw \/ p.keep \/ p.declared \notin StripTypes THEN p
  ELSE [p EXCEPT !.container = p.declared, !.kinds = @ \cap {"icc"}]

\* Only with content.upload.original is the flag of an image ever set.
Keeps(p) == p.keep /\ p.bucket \in ImageBuckets

(***************************************************************************)
(* image-metadata.ts                                                       *)
(***************************************************************************)

\* What the walk over the segments, chunks or blocks of a container reports.
JpegKinds == {"exif", "xmp", "icc", "mpf", "iptc", "comment", "appdata"}
PngKinds == {"text", "ztxt", "itxt", "exif", "icc"}
WebpKinds == {"exif", "xmp", "icc"}
GifKinds == {"xmp", "icc", "application", "comment", "plaintext", "extension"}
Detects == [jpeg |-> JpegKinds, png |-> PngKinds, webp |-> WebpKinds, gif |-> GifKinds]

\* A container that does not parse to its end blocks whatever is found.
Malformed(p) == p.container \notin Containers \/ ~p.whole
Blocking(p) == Malformed(p) \/ (Detects[p.container] \cap p.kinds) \ NonBlocking # {}

\* The type is sniffed, must be the declared one, and picks the scanner.
Inspected(p) ==
  p.bucket \in ImageBuckets =>
    /\ p.container \in Containers /\ p.container = p.declared
    /\ p.bucket = "gifs" => p.container = "gif"
    /\ ~Malformed(p)
    /\ Keeps(p) \/ ~Blocking(p)

(***************************************************************************)
(* POST /api/upload                                                        *)
(***************************************************************************)

Required(bucket) ==
  CASE bucket = "avatars" -> {} [] bucket = "gifs" -> {"gif"} [] OTHER -> {"attach"}

\* The flag, the permissions and the declared type, before a byte is read.
Admissible(p) ==
  /\ Required(p.bucket) \cup (IF Keeps(p) THEN {"original"} ELSE {}) \subseteq p.may
  /\ p.bucket \in {"avatars", "uploads"} => p.declared \in Containers
  /\ p.bucket = "gifs" => p.declared = "gif"

\* The hourly and daily counters may refuse.
Arrive(f) ==
  /\ At(f, "todo") /\ f \in DOMAIN pick
  /\ \E pc \in (IF Admissible(pick[f]) THEN {"reserve", "failed"} ELSE {"failed"}) :
       up' = [up EXCEPT ![f] = [pc |-> pc, day |-> day]]
  /\ UNCHANGED <<scene, day, volume, disk, log, dead, old, content, msg, sweep, faults>>

\* Mutant of Reserve: the bytes counted before these are compared.
ReserveBefore(f) ==
  LET counted == volume[up[f].day] IN
  /\ At(f, "reserve")
  /\ volume' = [volume EXCEPT ![up[f].day] = counted + pick[f].size]
  /\ Goto(f, IF counted > DayBytes THEN "over" ELSE "quota")
  /\ UNCHANGED <<scene, day, disk, log, dead, old, content, msg, sweep, faults>>

\* INCRBY first, so that uploads side by side see each other's bytes.
Reserve(f) ==
  LET total == volume[up[f].day] + pick[f].size IN
  /\ At(f, "reserve")
  /\ volume' = [volume EXCEPT ![up[f].day] = total]
  /\ Goto(f, IF total > DayBytes THEN "over" ELSE "quota")
  /\ UNCHANGED <<scene, day, disk, log, dead, old, content, msg, sweep, faults>>

\* A reservation that does not fit is given back.
Release(f) ==
  /\ At(f, "over")
  /\ volume' = [volume EXCEPT ![up[f].day] = @ - pick[f].size]
  /\ Goto(f, "failed")
  /\ UNCHANGED <<scene, day, disk, log, dead, old, content, msg, sweep, faults>>

\* The rows that are not tombstoned count; no reservation backs this one.
CheckQuota(f) ==
  /\ At(f, "quota")
  /\ Goto(f, IF Bytes(Rows \ dead) + pick[f].size > Quota THEN "failed" ELSE "inspect")
  /\ UNCHANGED <<scene, day, volume, disk, log, dead, old, content, msg, sweep, faults>>

\* The body is read; originals have counters of their own.
Inspect(f) ==
  LET p == Sent(pick[f]) IN
  /\ At(f, "inspect")
  /\ \E pc \in (IF ~Inspected(p) THEN {"failed"} ELSE IF Keeps(p) THEN {"write", "failed"} ELSE {"write"}) :
       Goto(f, pc)
  /\ UNCHANGED <<scene, day, volume, disk, log, dead, old, content, msg, sweep, faults>>

WriteFile(f) ==
  /\ At(f, "write")
  /\ disk' = disk \cup {f}
  /\ Goto(f, "record")
  /\ UNCHANGED <<scene, day, volume, log, dead, old, content, msg, sweep, faults>>

\* The ledger row, and the answer with the URL.
Record(f) ==
  /\ At(f, "record")
  /\ log' = Append(log, f)
  /\ Goto(f, "done")
  /\ UNCHANGED <<scene, day, volume, disk, dead, old, content, msg, sweep, faults>>

\* A statement fails or the process dies: what was reserved or written stays.
UploadFails(f) ==
  /\ up[f].pc \in {"reserve", "over", "quota", "inspect", "write", "record"}
  /\ faults < scene.faults
  /\ faults' = faults + 1
  /\ Goto(f, "failed")
  /\ UNCHANGED <<scene, day, volume, disk, log, dead, old, content, msg, sweep>>

(***************************************************************************)
(* References: composers, editors and forms                                *)
(***************************************************************************)

\* A URL stays in a composer as long as its tab does.
RefersTo(f) ==
  /\ At(f, "done")
  /\ late' = IF f \in old THEN late \cup {f} ELSE late

Post(m, f) ==
  /\ msg[m].pc = "none" /\ m \in scene.msgs
  /\ RefersTo(f)
  /\ msg' = [msg EXCEPT ![m].pc = "posted", ![m].file = f]
  /\ log' = Append(log, m)
  /\ UNCHANGED <<scene, up, day, volume, disk, dead, old, column, sweep, faults>>

\* editMessage files the body away, then replaces it with a text.
EditArchive(m) ==
  /\ msg[m].pc = "posted" /\ ~msg[m].gone /\ m \notin Dms
  /\ msg[m].file # NoFile
  /\ msg' = [msg EXCEPT ![m].pc = "archived", ![m].old = @ \cup {msg[m].file}]
  /\ UNCHANGED <<ledger, dead, old, content, sweep, faults>>

EditWrite(m) ==
  /\ msg[m].pc = "archived"
  /\ msg' = [msg EXCEPT ![m].pc = "posted", ![m].file = NoFile]
  /\ UNCHANGED <<ledger, dead, old, content, sweep, faults>>

Delete(m) ==
  /\ msg[m].pc # "none" /\ ~msg[m].gone
  /\ msg' = [msg EXCEPT ![m].gone = TRUE]
  /\ UNCHANGED <<ledger, dead, old, content, sweep, faults>>

SetColumn(f) ==
  /\ scene.column /\ f # column
  /\ RefersTo(f)
  /\ column' = f
  /\ UNCHANGED <<ledger, dead, old, msg, sweep, faults>>

ClearColumn ==
  /\ column # NoFile
  /\ column' = NoFile
  /\ UNCHANGED <<ledger, dead, old, msg, late, sweep, faults>>

(***************************************************************************)
(* sweep.ts, sweepOrphanUploads                                            *)
(***************************************************************************)

\* A day and the grace window pass; the older rows first.
DayTurns ==
  /\ day = 1 /\ scene.turns
  /\ day' = 2
  /\ UNCHANGED <<scene, up, volume, disk, log, dead, old, content, msg, sweep, faults>>

Age(f) ==
  /\ f \in Rows \ old
  /\ \A g \in Rows \ old : Position(f) <= Position(g)
  /\ old' = old \cup {f}
  /\ UNCHANGED <<ledger, dead, content, msg, sweep, faults>>

\* Mutant of Candidates: tombstoned rows take their places again.
CandidatesDead == {f \in old : Cardinality({g \in old : Position(g) < Position(f)}) < Batch}

\* The oldest rows past the grace window, referred to or not.
Candidates ==
  LET aged == old \ dead IN
  {f \in aged : Cardinality({g \in aged : Position(g) < Position(f)}) < Batch}

SweepStart ==
  /\ sweep.pc = "none"
  /\ Candidates # {}
  /\ sweep' = [pc |-> "columns", cand |-> Candidates, left |-> Candidates]
  /\ UNCHANGED <<ledger, dead, old, content, msg, faults>>

Standing == {m \in Msgs : msg[m].pc # "none" /\ ~msg[m].gone}

\* Bodies are scanned from the time of the oldest candidate on.
Since(S) == {m \in S : \E f \in sweep.cand : Position(f) <= Position(m)}

\* What each query of the sweep finds referred to.
Found ==
  [columns |-> {column},
   topics |-> {msg[m].file : m \in Since(Standing \ Dms)},
   edits |-> UNION {msg[m].old : m \in Standing},
   dms |-> {msg[m].file : m \in Since(Standing \cap Dms)}]

\* Mutant of After: the archive is read before the bodies.
AfterSwapped == [columns |-> "edits", edits |-> "topics", topics |-> "dms", dms |-> "unlink"]

\* Bodies before the archive: an edit moves a file from the one to the other.
After == [columns |-> "topics", topics |-> "edits", edits |-> "dms", dms |-> "unlink"]

Scan ==
  LET left == sweep.left \ Found[sweep.pc] IN
  /\ sweep.pc \in DOMAIN Found
  /\ sweep' = IF left = {} THEN NoSweep ELSE [sweep EXCEPT !.pc = After[sweep.pc], !.left = left]
  /\ UNCHANGED <<ledger, dead, old, content, msg, faults>>

\* The files go one by one (rm with force), then the rows in one UPDATE.
Unlink(f) ==
  /\ sweep.pc = "unlink" /\ f \in sweep.left \cap disk
  /\ disk' = disk \ {f}
  /\ UNCHANGED <<scene, up, day, volume, log, dead, old, content, msg, sweep, faults>>

Tombstone ==
  /\ sweep.pc = "unlink" /\ sweep.left \cap disk = {}
  /\ dead' = dead \cup sweep.left
  /\ sweep' = NoSweep
  /\ UNCHANGED <<ledger, old, content, msg, faults>>

\* A query, a decryption or an rm fails, or the process dies.
SweepFails ==
  /\ sweep.pc # "none"
  /\ faults < scene.faults
  /\ faults' = faults + 1
  /\ sweep' = NoSweep
  /\ UNCHANGED <<ledger, dead, old, content, msg>>

(***************************************************************************)
(* The specification                                                       *)
(***************************************************************************)

Request(f) ==
  \/ Arrive(f) \/ Reserve(f) \/ Release(f) \/ CheckQuota(f) \/ Inspect(f)
  \/ WriteFile(f) \/ Record(f) \/ UploadFails(f)

Sweeping ==
  SweepStart \/ Scan \/ (\E f \in Files : Unlink(f)) \/ Tombstone

Next ==
  \/ \E f \in Files : Request(f) \/ SetColumn(f) \/ Age(f)
  \/ \E m \in Msgs : EditArchive(m) \/ EditWrite(m) \/ Delete(m) \/ \E f \in Files : Post(m, f)
  \/ ClearColumn \/ DayTurns
  \/ Sweeping \/ SweepFails

\* Time passes and cron starts the sweep again and again.
Fairness == WF_vars(Sweeping) /\ WF_vars(\E f \in Files : Age(f))

FairSpec == Init /\ [][Next]_vars /\ Fairness

(***************************************************************************)
(* Properties                                                              *)
(***************************************************************************)

Referred ==
  ({column} \cup {msg[m].file : m \in Standing} \cup UNION {msg[m].old : m \in Standing}) \ {NoFile}

\* A file that was put to use within its grace window is on disk for as long
\* as a column, a message or an earlier version of one shows it (maintenance.ts
\* :110-118), whatever edit is half done while the sweep reads.
KeptWhileShown == Referred \ late \subseteq disk

\* upload/route.ts:67-70: uploads side by side cannot both slip under the cap of
\* the day their bytes count for.
VolumeCapped ==
  \A d \in Days :
    Bytes({f \in Files : up[f].day = d /\ up[f].pc \in {"quota", "inspect", "write", "record", "done"}}) <= DayBytes

\* A file on record that nothing refers to leaves the disk, or is used again.
OrphansReclaimed ==
  \A f \in Files : (f \in Rows \ Referred) ~> (f \in Referred \/ f \notin disk)

=============================================================================
