-------------------------- MODULE GtfsRefreshProofs --------------------------
(***************************************************************************)
(* For any number of refreshes at once, any modes, bundles and releases    *)
(* and any number of failures and crashes: the state is well typed, and a  *)
(* bundle that is recorded as imported has its rows.                       *)
(***************************************************************************)
EXTENDS GtfsRefresh, TLAPS

(* The file a task writes. *)
FileOf(r) ==
  CASE r.conn = "db" -> db
    [] r.conn = "temp" -> temp
    [] OTHER -> Blank

Writes(r) == r.conn \in {"db", "temp"}

(* What holds of every task: the ZIP, the release and the file it works on *)
(* are there, and while it imports, every bundle it is done with has rows  *)
(* of its release in its file, which others may write as well.             *)
Sound(r) ==
  /\ r.pc \in {"import", "rows", "swap"} => zip # 0
  /\ r.pc \in {"compare", "write"} => r.body # 0
  /\ r.pc \notin {"rows", "swap"} => r.conn = "none"
  /\ r.conn = "db" => db # NoFile
  /\ r.conn = "temp" => temp # NoFile
  /\ r.pc = "rows" =>
       /\ r.src # 0
       /\ Writes(r) =>
            \A b \in r.todo \ r.rest :
              b \in Folders[r.src] => r.src \in FileOf(r).rows[b]

IInv ==
  /\ TypeOK
  /\ \A t \in Tasks : Sound(task[t])
  /\ ReadyHasRows

------------------------------------------------------------------------------
(* Records keep their types under the updates of the actions.              *)

LEMMA IdleType == Idle \in TaskType
  BY RefreshAssumption DEF Idle, TaskType

LEMMA BlankType == Blank \in Content /\ \A b \in Bundles : HasRows(Blank, b)
  BY RefreshAssumption DEF Blank, Content, HasRows, Releases

LEMMA ContentIsNotNoFile == \A file \in Content : file # NoFile
  BY RefreshAssumption

(* What the rows of a file a bundle is imported into become.  Others only  *)
(* have rows of theirs replaced if they have some.                         *)
LEMMA InsertedFacts ==
  ASSUME NEW file \in Content, NEW b \in Bundles, NEW s \in Releases,
         NEW new, new = Inserted(file, b, s)
  PROVE  /\ new \in Content
         /\ new.key = file.key /\ new.sha = file.sha
         /\ new.rows[b] = file.rows[b] \cup {s}
         /\ \A c \in Bundles \ {b} :
              /\ new.whole[c] = file.whole[c]
              /\ \/ new.rows[c] = file.rows[c]
                 \/ /\ file.rows[c] # {}
                    /\ new.rows[c] = file.rows[c] \cup {s}
  <1>1. PICK rows : rows =
          [c \in Bundles |->
             IF c = b \/ (c \in Shares[b] /\ file.rows[c] # {})
             THEN file.rows[c] \cup {s} ELSE file.rows[c]]
    OBVIOUS
  <1>2. new = [file EXCEPT !.rows = rows, !.whole[b] = 0]
    BY <1>1 DEF Inserted
  <1>3. file.rows \in [Bundles -> SUBSET Releases]
    BY DEF Content
  <1>4. rows \in [Bundles -> SUBSET Releases]
    BY <1>1, <1>3
  <1>5. [file.whole EXCEPT ![b] = 0] \in [Bundles -> 0 .. MaxRelease]
    BY RefreshAssumption DEF Content
  <1>6. new \in Content
    BY <1>2, <1>4, <1>5 DEF Content
  <1>7. /\ new.key = file.key /\ new.sha = file.sha /\ new.rows = rows
        /\ \A c \in Bundles \ {b} : new.whole[c] = file.whole[c]
    BY <1>2 DEF Content
  <1>8. QED
    BY <1>1, <1>6, <1>7

LEMMA WholeType ==
  ASSUME NEW file \in Content, NEW b \in Bundles, NEW s \in 0 .. MaxRelease
  PROVE  [file EXCEPT !.whole[b] = s] \in Content
  <1>1. [file.whole EXCEPT ![b] = s] \in [Bundles -> 0 .. MaxRelease]
    BY DEF Content
  <1>2. QED
    BY <1>1 DEF Content

LEMMA StampedType ==
  ASSUME NEW t \in Tasks, task[t] \in TaskType, NEW file \in Content
  PROVE  Stamped(t, file) \in Content
  BY DEF Content, Stamped, TaskType

LEMMA BundleSets ==
  ASSUME TypeOK
  PROVE  /\ Keyed(db) \subseteq Bundles
         /\ EntryBundles \subseteq Bundles
         /\ \A m \in Modes : ModeBundles[m] \subseteq Bundles
  <1>1. \A m \in Modes : ModeBundles[m] \subseteq Bundles
    BY DEF Bundles
  <1>2. EntryBundles \subseteq Bundles
    BY <1>1 DEF EntryBundles, TypeOK
  <1>3. QED
    BY <1>1, <1>2 DEF Keyed

------------------------------------------------------------------------------
(* A step that moves one task and touches no file.                         *)

LEMMA Moves ==
  ASSUME IInv, NEW t \in Tasks, NEW r \in TaskType,
         task' = [task EXCEPT ![t] = r], Sound(r),
         UNCHANGED <<server, zip, db, temp, entries, flows>>,
         faults' \in 0 .. MaxFaults, broken' \in BOOLEAN
  PROVE  IInv'
  <1>1. TypeOK'
    BY DEF IInv, TypeOK
  <1>2. ASSUME NEW u \in Tasks
        PROVE  Sound(task[u])'
    <2>1. task'[u] \in {r, task[u]}
      BY DEF IInv, TypeOK
    <2>2. Sound(r)' /\ Sound(task'[u])
      BY <2>1 DEF IInv, Sound, Writes, FileOf
    <2>3. QED
      BY <2>1, <2>2 DEF Sound, Writes, FileOf
  <1>3. ReadyHasRows'
    BY DEF IInv, ReadyHasRows, HasRows
  <1>4. QED
    BY <1>1, <1>2, <1>3 DEF IInv

LEMMA IdleIsSound == Sound(Idle)
  BY DEF Sound, Idle

LEMMA StartMoves ==
  ASSUME IInv, NEW t \in Tasks, NEW want \in SUBSET Bundles, NEW skip \in BOOLEAN,
         Start(t, want, skip)
  PROVE  IInv'
  <1> DEFINE r == [Idle EXCEPT !.pc = "meta", !.want = want, !.skip = skip]
  <1>1. r \in TaskType
    BY IdleType DEF TaskType
  <1>2. Sound(r)
    BY DEF Sound, Idle
  <1>3. QED
    BY <1>1, <1>2, Moves DEF Start, IInv, TypeOK

LEMMA CallMoves ==
  ASSUME IInv, NEW t \in Tasks, Call(t)
  PROVE  IInv'
  <1>1. TypeOK
    BY DEF IInv
  <1>2. CASE RefreshAll(t)
    BY <1>1, <1>2, BundleSets, StartMoves DEF RefreshAll
  <1>3. ASSUME NEW m \in Modes, SetupWatch(t, m)
        PROVE  IInv'
    BY <1>1, <1>3, BundleSets, StartMoves DEF SetupWatch
  <1>4. ASSUME NEW m \in Modes, FlowDownloads(t, m)
        PROVE  IInv'
    BY <1>1, <1>4, BundleSets, StartMoves DEF FlowDownloads
  <1>5. QED
    BY <1>2, <1>3, <1>4 DEF Call

(* A refresh that ends, or fails, before it has a file of its own. *)
LEMMA Ends ==
  ASSUME IInv, NEW t \in Tasks, task' = [task EXCEPT ![t] = Idle],
         UNCHANGED <<server, zip, db, temp, entries, flows>>,
         faults' \in 0 .. MaxFaults, broken' \in BOOLEAN
  PROVE  IInv'
  BY IdleType, IdleIsSound, Moves

LEMMA ReadMetaMoves ==
  ASSUME IInv, NEW t \in Tasks, ReadMeta(t)
  PROVE  IInv'
  <1> DEFINE sha == IF db = NoFile THEN 0 ELSE db.sha
             tag == IF db = NoFile THEN 0 ELSE db.tag
             r == [task[t] EXCEPT !.pc = "bundles", !.sha0 = sha, !.tag0 = tag]
  <1>1. task[t] \in TaskType /\ Sound(task[t]) /\ task[t].pc = "meta"
    BY DEF IInv, TypeOK, ReadMeta
  <1>2. sha \in 0 .. MaxRelease /\ tag \in 0 .. MaxTag
    BY RefreshAssumption DEF IInv, TypeOK, Content
  <1>3. r \in TaskType
    BY <1>1, <1>2 DEF TaskType
  <1>4. Sound(r)
    BY <1>1 DEF Sound, TaskType, Writes
  <1>5. task' = [task EXCEPT ![t] = r]
    BY <1>1 DEF ReadMeta, IInv, TypeOK
  <1>6. QED
    BY <1>3, <1>4, <1>5, Moves DEF ReadMeta, IInv, TypeOK

LEMMA ReadBundlesMoves ==
  ASSUME IInv, NEW t \in Tasks, ReadBundles(t)
  PROVE  IInv'
  <1> DEFINE pc == IF task[t].skip THEN "get" ELSE "head"
             present == task[t].want \subseteq Keyed(db)
             r == [task[t] EXCEPT !.pc = pc, !.present = present]
  <1>1. task[t] \in TaskType /\ Sound(task[t]) /\ task[t].pc = "bundles"
    BY DEF IInv, TypeOK, ReadBundles
  <1>2. pc \in {"get", "head"} /\ present \in BOOLEAN
    OBVIOUS
  <1>3. r \in TaskType
    BY <1>1, <1>2 DEF TaskType
  <1>4. Sound(r)
    BY <1>1, <1>2 DEF Sound, TaskType, Writes
  <1>5. task' = [task EXCEPT ![t] = r]
    BY <1>1 DEF ReadBundles, IInv, TypeOK
  <1>6. QED
    BY <1>3, <1>4, <1>5, Moves DEF ReadBundles, IInv, TypeOK

LEMMA HeadMoves ==
  ASSUME IInv, NEW t \in Tasks, NEW failed \in BOOLEAN, HeadGoesOn(t, failed)
  PROVE  IInv'
  <1> DEFINE r == [task[t] EXCEPT !.pc = "get"]
  <1>1. task[t] \in TaskType /\ Sound(task[t]) /\ task[t].pc = "head"
    BY DEF IInv, TypeOK, HeadGoesOn
  <1>2. r \in TaskType
    BY <1>1 DEF TaskType
  <1>3. Sound(r)
    BY <1>1 DEF Sound, TaskType, Writes
  <1>4. task' = [task EXCEPT ![t] = r]
    BY <1>1 DEF HeadGoesOn, IInv, TypeOK
  <1>5. QED
    BY <1>2, <1>3, <1>4, Moves DEF HeadGoesOn, IInv, TypeOK

(* Whatever Decide decides, the task has no file of its own yet; it goes   *)
(* on to an import at most, for which the ZIP must be there.               *)
LEMMA DecideMoves ==
  ASSUME TypeOK, NEW t \in Tasks, task[t].conn = "none",
         NEW changed \in BOOLEAN, NEW sha \in Releases, NEW tag \in 0 .. MaxTag,
         Decide(t, changed, sha, tag)
  PROVE  \E r \in TaskType :
           /\ task' = [task EXCEPT ![t] = r]
           /\ r.pc \in {"idle", "retag", "import"}
           /\ r.conn = "none"
  <1> DEFINE retag == [task[t] EXCEPT !.pc = "retag", !.tag = tag]
             import == [task[t] EXCEPT !.pc = "import", !.body = sha,
                                       !.tag = tag,
                                       !.force = ZipChanged(t, changed, sha)]
  <1>1. task[t] \in TaskType
    BY DEF TypeOK
  <1>2. sha \in 0 .. MaxRelease /\ ZipChanged(t, changed, sha) \in BOOLEAN
    BY DEF Releases, ZipChanged
  <1>3. Idle \in TaskType /\ retag \in TaskType /\ import \in TaskType
    BY <1>1, <1>2, IdleType DEF TaskType
  <1>4. Idle.pc = "idle" /\ retag.pc = "retag" /\ import.pc = "import"
    BY <1>1 DEF TaskType, Idle
  <1>5. Idle.conn = "none" /\ retag.conn = "none" /\ import.conn = "none"
    BY <1>1 DEF TaskType, Idle
  <1>6. \E r \in {Idle, retag, import} : task' = [task EXCEPT ![t] = r]
    BY DEF Decide
  <1>7. QED
    BY <1>3, <1>4, <1>5, <1>6

LEMMA UseZipMoves ==
  ASSUME IInv, NEW t \in Tasks, UseZip(t)
  PROVE  IInv'
  <1>1. task[t].conn = "none" /\ zip \in Releases /\ zip # 0
    BY RefreshAssumption DEF IInv, Sound, UseZip, TypeOK, Releases
  <1>2. PICK r \in TaskType : /\ task' = [task EXCEPT ![t] = r]
                              /\ r.pc \in {"idle", "retag", "import"}
                              /\ r.conn = "none"
    <2>1. 0 \in 0 .. MaxTag /\ FALSE \in BOOLEAN
      BY RefreshAssumption
    <2>2. TypeOK /\ Decide(t, FALSE, zip, 0)
      BY DEF UseZip, IInv
    <2>3. QED
      BY ONLY <1>1, <2>1, <2>2, t \in Tasks, DecideMoves
  <1>3. Sound(r)
    BY <1>1, <1>2 DEF Sound
  <1>4. QED
    BY <1>2, <1>3, Moves DEF UseZip, IInv, TypeOK

LEMMA FetchMoves ==
  ASSUME IInv, NEW t \in Tasks, Fetch(t)
  PROVE  IInv'
  <1> DEFINE r == [task[t] EXCEPT !.pc = "compare", !.body = server.rel,
                                  !.tag = server.tag]
  <1>1. task[t] \in TaskType /\ task[t].conn = "none"
    BY DEF IInv, TypeOK, Fetch, Sound
  <1>2. /\ server.rel \in 0 .. MaxRelease /\ server.rel # 0
        /\ server.tag \in 0 .. MaxTag
    BY RefreshAssumption DEF IInv, TypeOK, Releases, Tags
  <1>3. r \in TaskType
    BY <1>1, <1>2 DEF TaskType
  <1>4. Sound(r)
    BY <1>1, <1>2 DEF Sound, TaskType
  <1>5. task' = [task EXCEPT ![t] = r]
    BY <1>1 DEF Fetch, IInv, TypeOK
  <1>6. QED
    BY <1>3, <1>4, <1>5, Moves DEF Fetch, IInv, TypeOK

LEMMA SameZipMoves ==
  ASSUME IInv, NEW t \in Tasks, SameZip(t)
  PROVE  IInv'
  <1>1. /\ task[t] \in TaskType /\ task[t].conn = "none"
        /\ task[t].body \in Releases /\ zip # 0
    BY RefreshAssumption DEF IInv, TypeOK, SameZip, Sound, TaskType, Releases
  <1>2. PICK r \in TaskType : /\ task' = [task EXCEPT ![t] = r]
                              /\ r.pc \in {"idle", "retag", "import"}
                              /\ r.conn = "none"
    <2>1. task[t].tag \in 0 .. MaxTag
      BY <1>1 DEF TaskType
    <2>2. QED
      BY <1>1, <2>1, DecideMoves DEF SameZip, IInv
  <1>3. Sound(r)
    BY <1>1, <1>2 DEF Sound
  <1>4. QED
    BY <1>2, <1>3, Moves DEF SameZip, IInv, TypeOK

LEMMA OtherZipMoves ==
  ASSUME IInv, NEW t \in Tasks, OtherZip(t)
  PROVE  IInv'
  <1> DEFINE r == [task[t] EXCEPT !.pc = "write"]
  <1>1. task[t] \in TaskType /\ task[t].conn = "none" /\ task[t].body # 0
    BY DEF IInv, TypeOK, OtherZip, Sound
  <1>2. r \in TaskType
    BY <1>1 DEF TaskType
  <1>3. Sound(r)
    BY <1>1 DEF Sound, TaskType
  <1>4. task' = [task EXCEPT ![t] = r]
    BY <1>1 DEF OtherZip, IInv, TypeOK
  <1>5. QED
    BY <1>2, <1>3, <1>4, Moves DEF OtherZip, IInv, TypeOK

(* A new ZIP does not harm the others: once there is one, there is one.    *)
LEMMA WriteZipMoves ==
  ASSUME IInv, NEW t \in Tasks, WriteZip(t)
  PROVE  IInv'
  <1>1. /\ task[t] \in TaskType /\ task[t].conn = "none"
        /\ task[t].body \in Releases
    BY RefreshAssumption DEF IInv, TypeOK, WriteZip, Sound, TaskType, Releases
  <1>2. PICK r \in TaskType : /\ task' = [task EXCEPT ![t] = r]
                              /\ r.pc \in {"idle", "retag", "import"}
                              /\ r.conn = "none"
    <2>1. task[t].tag \in 0 .. MaxTag
      BY <1>1 DEF TaskType
    <2>2. QED
      BY <1>1, <2>1, DecideMoves DEF WriteZip, IInv
  <1>3. zip' \in 0 .. MaxRelease /\ zip' # 0
    BY <1>1, RefreshAssumption DEF WriteZip, Releases
  <1>4. TypeOK'
    BY <1>2, <1>3 DEF WriteZip, IInv, TypeOK
  <1>5. ASSUME NEW u \in Tasks
        PROVE  Sound(task[u])'
    <2>1. CASE u = t
      <3>1. task'[u] = r
        BY <1>2, <2>1 DEF IInv, TypeOK
      <3>2. QED
        BY <1>2, <1>3, <3>1 DEF Sound
    <2>2. CASE u # t
      <3>1. task'[u] = task[u] /\ Sound(task[u])
        BY <1>2, <2>2 DEF IInv, TypeOK
      <3>2. db' = db /\ temp' = temp
        BY DEF WriteZip
      <3>3. QED
        BY <1>3, <3>1, <3>2 DEF Sound, Writes, FileOf
    <2>3. QED
      BY <2>1, <2>2
  <1>6. ReadyHasRows'
    BY DEF WriteZip, IInv, ReadyHasRows, HasRows
  <1>7. QED
    BY <1>4, <1>5, <1>6 DEF IInv

LEMMA SkipBundleMoves ==
  ASSUME IInv, NEW t \in Tasks, NEW b \in Bundles, SkipBundle(t, b)
  PROVE  IInv'
  <1> DEFINE r == [task[t] EXCEPT !.rest = @ \ {b}]
  <1>1. task[t] \in TaskType /\ Sound(task[t]) /\ task[t].pc = "rows"
    BY DEF IInv, TypeOK, SkipBundle
  <1>2. r \in TaskType
    BY <1>1 DEF TaskType
  <1>3. Sound(r)
    <2>1. /\ r.pc = "rows" /\ r.conn = task[t].conn /\ r.src = task[t].src
          /\ r.todo = task[t].todo /\ r.rest = task[t].rest \ {b}
      BY <1>1 DEF TaskType
    <2>2. FileOf(r) = FileOf(task[t])
      BY <2>1 DEF FileOf
    <2>3. b \notin Folders[task[t].src]
      BY DEF SkipBundle
    <2>4. QED
      BY <1>1, <2>1, <2>2, <2>3 DEF Sound, Writes
  <1>4. task' = [task EXCEPT ![t] = r]
    BY <1>1 DEF SkipBundle, IInv, TypeOK
  <1>5. QED
    BY <1>2, <1>3, <1>4, Moves DEF SkipBundle, IInv, TypeOK

------------------------------------------------------------------------------
(* A step that writes rows of an import.                                   *)

LEMMA TargetType ==
  ASSUME IInv, NEW t \in Tasks
  PROVE  /\ Target(t) = FileOf(task[t])
         /\ Target(t) \in Content
         /\ \A b \in Bundles : HasRows(Target(t), b)
  <1>1. Target(t) = FileOf(task[t])
    BY DEF Target, FileOf
  <1>2. CASE task[t].conn = "db"
    <2>1. db # NoFile /\ Target(t) = db
      BY <1>2 DEF Target, IInv, Sound
    <2>2. QED
      BY <1>1, <2>1 DEF IInv, TypeOK, ReadyHasRows
  <1>3. CASE task[t].conn = "temp"
    <2>1. temp # NoFile /\ Target(t) = temp
      BY <1>3 DEF Target, IInv, Sound
    <2>2. QED
      BY <1>1, <2>1 DEF IInv, TypeOK, ReadyHasRows
  <1>4. CASE task[t].conn \notin {"db", "temp"}
    <2>1. Target(t) = Blank
      BY <1>4 DEF Target
    <2>2. QED
      BY <1>1, <2>1, BlankType
  <1>5. QED
    BY <1>2, <1>3, <1>4

(* If the write only adds rows and keeps its promise for the keys, nobody  *)
(* else is harmed, though they may be writing the same file.               *)
LEMMA StoreKeeps ==
  ASSUME IInv, NEW t \in Tasks, NEW file \in Content, zip' = zip,
         Writes(task[t]) =>
           \A b \in Bundles : /\ Target(t).rows[b] \subseteq file.rows[b]
                              /\ HasRows(file, b),
         Store(t, file)
  PROVE  /\ db' \in Content \cup {NoFile} /\ temp' \in Content \cup {NoFile}
         /\ task[t].conn = "db" => db' = file
         /\ task[t].conn = "temp" => temp' = file
         /\ ReadyHasRows'
         /\ \A u \in Tasks : \A r : r = task[u] => Sound(r)'
  <1>1. /\ db' = IF task[t].conn = "db" THEN file ELSE db
        /\ temp' = IF task[t].conn = "temp" THEN file ELSE temp
    BY DEF Store
  <1>2. db' \in Content \cup {NoFile} /\ temp' \in Content \cup {NoFile}
    BY <1>1 DEF IInv, TypeOK
  <1>3. ReadyHasRows'
    <2>1. ASSUME NEW b \in Bundles, db' # NoFile
          PROVE  HasRows(db', b)
      BY <1>1, <2>1 DEF IInv, ReadyHasRows, Writes
    <2>2. ASSUME NEW b \in Bundles, temp' # NoFile
          PROVE  HasRows(temp', b)
      BY <1>1, <2>2 DEF IInv, ReadyHasRows, Writes
    <2>3. QED
      BY <2>1, <2>2 DEF ReadyHasRows, HasRows
  <1>4. ASSUME NEW u \in Tasks, NEW r, r = task[u]
        PROVE  Sound(r)'
    <2>1. r \in TaskType /\ Sound(r)
      BY <1>4 DEF IInv, TypeOK
    <2>2. file # NoFile
      BY ContentIsNotNoFile
    <2>3. ASSUME NEW b \in Bundles, Writes(r)
          PROVE  FileOf(r).rows[b] \subseteq FileOf(r)'.rows[b]
      <3>1. CASE r.conn = "db"
        <4>1. FileOf(r) = db /\ FileOf(r)' = db'
          BY <3>1 DEF FileOf
        <4>2. CASE task[t].conn = "db"
          BY <1>1, <4>1, <4>2 DEF Writes, Target
        <4>3. CASE task[t].conn # "db"
          BY <1>1, <4>1, <4>3
        <4>4. QED
          BY <4>2, <4>3
      <3>2. CASE r.conn = "temp"
        <4>1. FileOf(r) = temp /\ FileOf(r)' = temp'
          BY <3>2 DEF FileOf
        <4>2. CASE task[t].conn = "temp"
          BY <1>1, <4>1, <4>2 DEF Writes, Target
        <4>3. CASE task[t].conn # "temp"
          BY <1>1, <4>1, <4>3
        <4>4. QED
          BY <4>2, <4>3
      <3>3. QED
        BY <2>3, <3>1, <3>2 DEF Writes
    <2>4. /\ r.conn = "db" => db' # NoFile
          /\ r.conn = "temp" => temp' # NoFile
      BY <1>1, <2>1, <2>2 DEF Sound
    <2>5. r.todo \subseteq Bundles
      BY <2>1 DEF TaskType
    <2>6. ASSUME r.pc = "rows", Writes(r), NEW b \in r.todo \ r.rest,
                 b \in Folders[r.src]
          PROVE  r.src \in FileOf(r)'.rows[b]
      BY <2>1, <2>3, <2>5, <2>6 DEF Sound
    <2>7. QED
      BY <2>1, <2>4, <2>6 DEF Sound, Writes
  <1>5. QED
    BY <1>1, <1>2, <1>3, <1>4

(* The step of a task that wrote: what is left is the task itself.         *)
LEMMA StoreMoves ==
  ASSUME IInv, NEW t \in Tasks, NEW file \in Content, NEW r \in TaskType,
         task' = [task EXCEPT ![t] = r],
         Writes(task[t]) =>
           \A b \in Bundles : /\ Target(t).rows[b] \subseteq file.rows[b]
                              /\ HasRows(file, b),
         Store(t, file), Sound(r)',
         UNCHANGED <<server, zip, entries, flows, faults, broken>>
  PROVE  IInv'
  <1>1. /\ db' \in Content \cup {NoFile} /\ temp' \in Content \cup {NoFile}
        /\ ReadyHasRows'
        /\ \A u \in Tasks : \A q : q = task[u] => Sound(q)'
    BY StoreKeeps
  <1>2. TypeOK'
    BY <1>1 DEF IInv, TypeOK
  <1>3. ASSUME NEW u \in Tasks
        PROVE  Sound(task[u])'
    <2>1. PICK q : q = task'[u]
      OBVIOUS
    <2>2. Sound(q)'
      <3>1. q \in {r, task[u]}
        BY <2>1 DEF IInv, TypeOK
      <3>2. QED
        BY <1>1, <3>1
    <2>3. QED
      BY <2>1, <2>2 DEF Sound, Writes, FileOf
  <1>4. QED
    BY <1>1, <1>2, <1>3 DEF IInv

LEMMA BeginBundleMoves ==
  ASSUME IInv, NEW t \in Tasks, NEW b \in Bundles, BeginBundle(t, b)
  PROVE  IInv'
  <1>r. PICK r : r = [task[t] EXCEPT !.rest = @ \ {b}, !.half = {b}]
    OBVIOUS
  <1>f. PICK file : file = Inserted(Target(t), b, task[t].src)
    OBVIOUS
  <1>1. /\ task[t] \in TaskType /\ Sound(task[t]) /\ task[t].pc = "rows"
        /\ task[t].src \in Releases
    BY RefreshAssumption
       DEF IInv, TypeOK, BeginBundle, Sound, TaskType, Releases
  <1>2. /\ Target(t) \in Content
        /\ \A c \in Bundles : HasRows(Target(t), c)
    BY TargetType
  <1>3. r \in TaskType
    BY <1>1, <1>r DEF TaskType
  <1>4. /\ file \in Content /\ file.key = Target(t).key
        /\ file.rows[b] = Target(t).rows[b] \cup {task[t].src}
        /\ \A c \in Bundles \ {b} :
             \/ file.rows[c] = Target(t).rows[c]
             \/ file.rows[c] = Target(t).rows[c] \cup {task[t].src}
    BY <1>1, <1>2, <1>f, InsertedFacts
  <1>5. /\ file.key = Target(t).key
        /\ task[t].src \in file.rows[b]
        /\ \A c \in Bundles : Target(t).rows[c] \subseteq file.rows[c]
    BY <1>4
  <1>6. \A c \in Bundles : HasRows(file, c)
    BY <1>2, <1>5 DEF HasRows
  <1>7. Store(t, file)
    BY <1>f DEF BeginBundle
  <1>8. Sound(r)'
    <2>1. /\ r.pc = "rows" /\ r.conn = task[t].conn /\ r.src = task[t].src
          /\ r.todo = task[t].todo /\ r.rest = task[t].rest \ {b}
      BY <1>1, <1>r DEF TaskType
    <2>2. /\ task[t].conn = "db" => db' = file
          /\ task[t].conn = "temp" => temp' = file
      BY <1>7 DEF Store
    <2>3. Writes(r) => FileOf(r)' = file
      BY <2>1, <2>2 DEF Writes, FileOf
    <2>4. ASSUME NEW c \in task[t].todo \ r.rest, Writes(r),
                 c \in Folders[task[t].src]
          PROVE  task[t].src \in file.rows[c]
      <3>1. CASE c = b
        BY <1>5, <3>1
      <3>2. CASE c # b
        <4>1. c \in task[t].todo \ task[t].rest /\ c \in Bundles
          BY <1>1, <2>1, <3>2, <2>4 DEF TaskType
        <4>2. task[t].src \in Target(t).rows[c]
          BY <1>1, <2>1, <2>4, <4>1, TargetType DEF Sound, Writes
        <4>3. QED
          BY <1>5, <4>1, <4>2
      <3>3. QED
        BY <3>1, <3>2
    <2>5. file # NoFile
      BY <1>4, ContentIsNotNoFile
    <2>6. zip' = zip
      BY DEF BeginBundle
    <2>7. QED
      BY <1>1, <2>1, <2>2, <2>3, <2>4, <2>5, <2>6 DEF Sound, Writes
  <1>9. task' = [task EXCEPT ![t] = r]
    BY <1>1, <1>r DEF BeginBundle, IInv, TypeOK
  <1>10. UNCHANGED <<server, zip, entries, flows, faults, broken>>
    BY DEF BeginBundle
  <1>11. QED
    BY <1>3, <1>4, <1>5, <1>6, <1>7, <1>8, <1>9, <1>10, StoreMoves

LEMMA EndBundleMoves ==
  ASSUME IInv, NEW t \in Tasks, NEW b \in Bundles, EndBundle(t, b)
  PROVE  IInv'
  <1>r. PICK r : r = [task[t] EXCEPT !.half = {}]
    OBVIOUS
  <1>f. PICK file : file = [Target(t) EXCEPT !.whole[b] = task[t].src]
    OBVIOUS
  <1>1. task[t] \in TaskType /\ Sound(task[t]) /\ task[t].pc = "rows"
    BY DEF IInv, TypeOK, EndBundle
  <1>2. /\ Target(t) \in Content
        /\ \A c \in Bundles : HasRows(Target(t), c)
    BY TargetType
  <1>3. r \in TaskType
    BY <1>1, <1>r DEF TaskType
  <1>4. file \in Content
    BY <1>1, <1>2, <1>f, WholeType DEF TaskType
  <1>5. file.key = Target(t).key /\ file.rows = Target(t).rows
    BY <1>2, <1>f DEF Content
  <1>6. \A c \in Bundles : HasRows(file, c)
    BY <1>2, <1>5 DEF HasRows
  <1>7. Store(t, file)
    BY <1>f DEF EndBundle
  <1>8. Sound(r)'
    <2>1. /\ r.pc = "rows" /\ r.conn = task[t].conn /\ r.src = task[t].src
          /\ r.todo = task[t].todo /\ r.rest = task[t].rest
      BY <1>1, <1>r DEF TaskType
    <2>2. /\ task[t].conn = "db" => db' = file
          /\ task[t].conn = "temp" => temp' = file
      BY <1>7 DEF Store
    <2>3. Writes(r) => FileOf(r)'.rows = FileOf(task[t]).rows
      BY <1>5, <2>1, <2>2, TargetType DEF Writes, FileOf
    <2>4. file # NoFile /\ zip' = zip
      BY <1>4, ContentIsNotNoFile DEF EndBundle
    <2>5. QED
      BY <1>1, <2>1, <2>2, <2>3, <2>4 DEF Sound, Writes
  <1>9. task' = [task EXCEPT ![t] = r]
    BY <1>1, <1>r DEF EndBundle, IInv, TypeOK
  <1>10. UNCHANGED <<server, zip, entries, flows, faults, broken>>
    BY DEF EndBundle
  <1>11. QED
    BY <1>3, <1>4, <1>5, <1>6, <1>7, <1>8, <1>9, <1>10, StoreMoves

(* The keys go in when every bundle is done with: each has its rows.       *)
LEMMA RecordMoves ==
  ASSUME IInv, NEW t \in Tasks, Record(t)
  PROVE  IInv'
  <1>s. PICK swap : swap = [task[t] EXCEPT !.pc = "swap"]
    OBVIOUS
  <1>r. PICK r : r = IF task[t].swap THEN swap ELSE Idle
    OBVIOUS
  <1>f. PICK file : file = Stamped(t, Target(t))
    OBVIOUS
  <1>1. /\ task[t] \in TaskType /\ Sound(task[t])
        /\ task[t].pc = "rows" /\ task[t].rest = {}
    BY DEF IInv, TypeOK, Record
  <1>2. /\ Target(t) \in Content
        /\ \A c \in Bundles : HasRows(Target(t), c)
    BY TargetType
  <1>3. swap \in TaskType /\ r \in TaskType
    BY <1>1, <1>s, <1>r, IdleType DEF TaskType
  <1>4. file \in Content
    BY <1>1, <1>2, <1>f, StampedType
  <1>5. /\ file.rows = Target(t).rows
        /\ \A c \in Bundles : file.key[c] = IF c \in task[t].todo
                                            THEN task[t].src
                                            ELSE Target(t).key[c]
    BY <1>2, <1>f DEF Stamped, Content
  <1>6. ASSUME Writes(task[t]), NEW c \in Bundles
        PROVE  HasRows(file, c)
    <2>1. CASE c \in task[t].todo
      BY <1>1, <1>5, <1>6, <2>1, TargetType DEF HasRows, Sound
    <2>2. CASE c \notin task[t].todo
      BY <1>2, <1>5, <2>2 DEF HasRows
    <2>3. QED
      BY <2>1, <2>2
  <1>7. Store(t, file)
    BY <1>f DEF Record
  <1>8. Sound(r)'
    <2>1. /\ task[t].conn = "db" => db' = file
          /\ task[t].conn = "temp" => temp' = file
      BY <1>7 DEF Store
    <2>2. file # NoFile /\ zip' = zip
      BY <1>4, ContentIsNotNoFile DEF Record
    <2>3. Sound(swap)'
      <3>1. swap.pc = "swap" /\ swap.conn = task[t].conn
        BY <1>1, <1>s DEF TaskType
      <3>2. QED
        BY <1>1, <2>1, <2>2, <3>1 DEF Sound, Writes
    <2>4. r = Idle => Sound(r)'
      BY DEF Sound, Idle
    <2>5. QED
      BY <1>r, <2>3, <2>4
  <1>9. task' = [task EXCEPT ![t] = r]
    BY <1>1, <1>s, <1>r DEF Record, IInv, TypeOK
  <1>10. UNCHANGED <<server, zip, entries, flows, faults, broken>>
    BY DEF Record
  <1>11. QED
    BY <1>3, <1>4, <1>5, <1>6, <1>7, <1>8, <1>9, <1>10, StoreMoves

(* A new tag in the live database changes no rows and no keys.             *)
LEMMA UpdateZipMetaMoves ==
  ASSUME IInv, NEW t \in Tasks, NEW works \in BOOLEAN, UpdateZipMeta(t, works)
  PROVE  IInv'
  <1>1. task[t] \in TaskType
    BY DEF IInv, TypeOK
  <1>2. /\ db' \in Content \cup {NoFile}
        /\ db' = NoFile <=> db = NoFile
        /\ db # NoFile => db'.rows = db.rows /\ db'.key = db.key
    <2>1. CASE works /\ db # NoFile
      <3>1. db \in Content /\ db' = [db EXCEPT !.tag = task[t].tag]
        BY <2>1 DEF UpdateZipMeta, IInv, TypeOK
      <3>2. db' \in Content /\ db'.rows = db.rows /\ db'.key = db.key
        BY <1>1, <3>1 DEF Content, TaskType
      <3>3. QED
        BY <2>1, <3>2, ContentIsNotNoFile
    <2>2. CASE ~(works /\ db # NoFile)
      BY <2>2 DEF UpdateZipMeta, IInv, TypeOK
    <2>3. QED
      BY <2>1, <2>2
  <1>3. UNCHANGED <<server, zip, temp, entries, flows, faults, broken>>
    BY DEF UpdateZipMeta
  <1>4. TypeOK'
    BY <1>2, <1>3, IdleType DEF UpdateZipMeta, IInv, TypeOK
  <1>5. ReadyHasRows'
    BY <1>2, <1>3 DEF IInv, ReadyHasRows, HasRows
  <1>6. ASSUME NEW u \in Tasks
        PROVE  Sound(task[u])'
    <2>1. CASE task'[u] = Idle
      BY <2>1 DEF Sound, Idle
    <2>2. CASE task'[u] = task[u]
      <3>1. Sound(task[u])
        BY DEF IInv
      <3>2. Writes(task[u]) => FileOf(task[u]).rows = FileOf(task[u])'.rows
        <4>1. CASE task[u].conn = "db"
          BY <1>2, <2>2, <3>1, <4>1 DEF FileOf, Sound
        <4>2. CASE task[u].conn = "temp"
          BY <1>3, <2>2, <4>2 DEF FileOf
        <4>3. QED
          BY <4>1, <4>2 DEF Writes
      <3>3. QED
        BY <1>2, <1>3, <2>2, <3>1, <3>2 DEF Sound, Writes
    <2>3. QED
      BY <2>1, <2>2 DEF UpdateZipMeta, IInv, TypeOK
  <1>7. QED
    BY <1>4, <1>5, <1>6 DEF IInv

------------------------------------------------------------------------------
(* Files change their names: what the other tasks write does not change.   *)

LEMMA UnlinkOthers ==
  ASSUME IInv, NEW u \in Tasks, NEW r, r = Follow(Unlinked)[u],
         zip' = zip, db' = db
  PROVE  r \in TaskType /\ Sound(r)'
  <1>1. task[u] \in TaskType /\ Sound(task[u])
    BY DEF IInv, TypeOK
  <1>2. r = IF task[u].conn = "temp" THEN [task[u] EXCEPT !.conn = "lost"]
                                     ELSE task[u]
    BY DEF Follow, Unlinked
  <1>3. CASE task[u].conn = "temp"
    <2>1. r = [task[u] EXCEPT !.conn = "lost"]
      BY <1>2, <1>3
    <2>2. r \in TaskType /\ r.conn = "lost"
      BY <1>1, <2>1 DEF TaskType
    <2>3. r.pc = task[u].pc /\ r.body = task[u].body /\ r.src = task[u].src
      BY <1>1, <2>1 DEF TaskType
    <2>4. QED
      BY <1>1, <1>3, <2>2, <2>3 DEF Sound, Writes
  <1>4. CASE task[u].conn # "temp"
    <2>1. r = task[u]
      BY <1>2, <1>4
    <2>2. FileOf(r)' = FileOf(r)
      BY <1>4, <2>1 DEF FileOf
    <2>3. QED
      BY <1>1, <1>4, <2>1, <2>2 DEF Sound, Writes
  <1>5. QED
    BY <1>3, <1>4

LEMMA ReplaceOthers ==
  ASSUME IInv, NEW u \in Tasks, NEW r, r = Follow(Replaced)[u],
         zip' = zip, temp # NoFile, db' = temp
  PROVE  r \in TaskType /\ Sound(r)'
  <1>1. task[u] \in TaskType /\ Sound(task[u])
    BY DEF IInv, TypeOK
  <1>2. r = CASE task[u].conn = "temp" -> [task[u] EXCEPT !.conn = "db"]
              [] task[u].conn = "db" -> [task[u] EXCEPT !.conn = "lost"]
              [] OTHER -> task[u]
    BY DEF Follow, Replaced
  <1>3. CASE task[u].conn = "temp"
    <2>1. r = [task[u] EXCEPT !.conn = "db"]
      BY <1>2, <1>3
    <2>2. r \in TaskType /\ r.conn = "db"
      BY <1>1, <2>1 DEF TaskType
    <2>3. /\ r.pc = task[u].pc /\ r.body = task[u].body
          /\ r.src = task[u].src /\ r.todo = task[u].todo
          /\ r.rest = task[u].rest
      BY <1>1, <2>1 DEF TaskType
    <2>4. FileOf(r)' = FileOf(task[u])
      BY <1>3, <2>2 DEF FileOf
    <2>5. QED
      BY <1>1, <1>3, <2>2, <2>3, <2>4 DEF Sound, Writes
  <1>4. CASE task[u].conn = "db"
    <2>1. r = [task[u] EXCEPT !.conn = "lost"]
      BY <1>2, <1>4
    <2>2. r \in TaskType /\ r.conn = "lost"
      BY <1>1, <2>1 DEF TaskType
    <2>3. r.pc = task[u].pc /\ r.body = task[u].body /\ r.src = task[u].src
      BY <1>1, <2>1 DEF TaskType
    <2>4. QED
      BY <1>1, <1>4, <2>2, <2>3 DEF Sound, Writes
  <1>5. CASE task[u].conn \notin {"db", "temp"}
    <2>1. r = task[u]
      BY <1>2, <1>5
    <2>2. QED
      BY <1>1, <1>5, <2>1 DEF Sound, Writes
  <1>6. QED
    BY <1>3, <1>4, <1>5

(* The step of a task that unlinks or replaces: again the task itself is   *)
(* what is left.                                                           *)
LEMMA UnlinkMoves ==
  ASSUME IInv, NEW t \in Tasks, NEW r \in TaskType,
         task' = [Follow(Unlinked) EXCEPT ![t] = r], Sound(r)',
         temp' \in {NoFile, Blank},
         UNCHANGED <<server, zip, db, entries, flows>>,
         faults' \in 0 .. MaxFaults, broken' \in BOOLEAN
  PROVE  IInv'
  <1>1. DOMAIN Follow(Unlinked) = Tasks
    BY DEF Follow
  <1>2. ASSUME NEW u \in Tasks, NEW q, q = task'[u]
        PROVE  q \in TaskType /\ Sound(q)'
    <2>1. q = r \/ q = Follow(Unlinked)[u]
      BY <1>1, <1>2
    <2>2. QED
      BY <2>1, UnlinkOthers
  <1>3. task' \in [Tasks -> TaskType]
    BY <1>1, <1>2 DEF Follow
  <1>4. TypeOK'
    BY <1>3, BlankType DEF IInv, TypeOK
  <1>5. ReadyHasRows'
    BY BlankType DEF IInv, ReadyHasRows, HasRows
  <1>6. ASSUME NEW u \in Tasks
        PROVE  Sound(task[u])'
    <2>1. PICK q : q = task'[u]
      OBVIOUS
    <2>2. Sound(q)'
      BY <1>2, <2>1
    <2>3. QED
      BY <2>1, <2>2 DEF Sound, Writes, FileOf
  <1>7. QED
    BY <1>4, <1>5, <1>6 DEF IInv

LEMMA SwapMoves ==
  ASSUME IInv, NEW t \in Tasks, Swap(t)
  PROVE  IInv'
  <1>1. DOMAIN Follow(Replaced) = Tasks
    BY DEF Follow
  <1>2. ASSUME NEW u \in Tasks, NEW q, q = task'[u]
        PROVE  q \in TaskType /\ Sound(q)'
    <2>1. q = Idle \/ q = Follow(Replaced)[u]
      BY <1>1, <1>2 DEF Swap
    <2>2. CASE q = Idle
      BY <2>2, IdleType DEF Sound, Idle
    <2>3. CASE q = Follow(Replaced)[u]
      BY <2>3, ReplaceOthers DEF Swap
    <2>4. QED
      BY <2>1, <2>2, <2>3
  <1>3. task' \in [Tasks -> TaskType]
    BY <1>1, <1>2 DEF Swap, Follow
  <1>4. TypeOK'
    BY <1>3 DEF Swap, IInv, TypeOK
  <1>5. ReadyHasRows'
    BY DEF Swap, IInv, ReadyHasRows, HasRows
  <1>6. ASSUME NEW u \in Tasks
        PROVE  Sound(task[u])'
    <2>1. PICK q : q = task'[u]
      OBVIOUS
    <2>2. Sound(q)'
      BY <1>2, <2>1
    <2>3. QED
      BY <2>1, <2>2 DEF Sound, Writes, FileOf
  <1>7. QED
    BY <1>4, <1>5, <1>6 DEF IInv

LEMMA ConnectMoves ==
  ASSUME IInv, NEW t \in Tasks, Connect(t)
  PROVE  IInv'
  <1>1. PICK r : r = [task[t] EXCEPT !.pc = "rows", !.swap = UseTemp(t),
                        !.conn = IF UseTemp(t) THEN "temp" ELSE "db",
                        !.src = zip,
                        !.todo = ToImport(t), !.rest = ToImport(t)]
    OBVIOUS
  <1>2. /\ task[t] \in TaskType /\ zip \in 0 .. MaxRelease /\ zip # 0
    BY DEF IInv, TypeOK, Connect, Sound
  <1>3. UseTemp(t) \in BOOLEAN /\ ToImport(t) \subseteq Bundles
    BY <1>2 DEF UseTemp, ToImport, TaskType
  <1>4. r \in TaskType
    BY <1>1, <1>2, <1>3 DEF TaskType
  <1>5. /\ r.pc = "rows" /\ r.src = zip /\ r.todo = r.rest
        /\ r.conn = IF UseTemp(t) THEN "temp" ELSE "db"
    BY <1>1, <1>2 DEF TaskType
  <1>6. CASE UseTemp(t)
    <2>1. temp' = Blank /\ task' = [Follow(Unlinked) EXCEPT ![t] = r]
      BY <1>1, <1>6 DEF Connect
    <2>2. Sound(r)'
      <3>1. temp' # NoFile /\ zip' = zip
        BY <2>1, BlankType, ContentIsNotNoFile DEF Connect
      <3>2. QED
        BY <1>2, <1>5, <1>6, <3>1 DEF Sound
    <2>3. QED
      BY <1>4, <2>1, <2>2, UnlinkMoves DEF Connect, IInv, TypeOK
  <1>7. CASE ~UseTemp(t)
    <2>1. temp' = temp /\ task' = [task EXCEPT ![t] = r]
      BY <1>1, <1>7 DEF Connect
    <2>2. Sound(r)
      BY <1>2, <1>5, <1>7 DEF Sound, UseTemp
    <2>3. QED
      BY <1>4, <2>1, <2>2, Moves DEF Connect, IInv, TypeOK
  <1>8. QED
    BY <1>6, <1>7

LEMMA FailsMoves ==
  ASSUME IInv, NEW t \in Tasks, Fails(t)
  PROVE  IInv'
  <1>1. faults' \in 0 .. MaxFaults /\ broken' \in BOOLEAN
    <2>1. faults \in 0 .. MaxFaults /\ faults < MaxFaults /\ broken \in BOOLEAN
      BY DEF Fails, DownloadFails, ImportFails, IInv, TypeOK
    <2>2. faults' = faults + 1
      BY DEF Fails, DownloadFails, ImportFails
    <2>3. broken' \in BOOLEAN
      BY <2>1 DEF Fails, DownloadFails, ImportFails
    <2>4. faults' \in 0 .. MaxFaults
      BY <2>1, <2>2, RefreshAssumption
    <2>5. QED
      BY <2>3, <2>4
  <1>2. CASE DownloadFails(t)
    BY <1>1, <1>2, Ends DEF DownloadFails
  <1>3. CASE ImportFails(t) /\ task[t].swap
    <2>1. Sound(Idle)'
      BY DEF Sound, Idle
    <2>2. QED
      BY <1>1, <1>3, <2>1, IdleType, UnlinkMoves DEF ImportFails
  <1>4. CASE ImportFails(t) /\ ~task[t].swap
    BY <1>1, <1>4, Ends DEF ImportFails
  <1>5. QED
    BY <1>2, <1>3, <1>4 DEF Fails

LEMMA CrashMoves ==
  ASSUME IInv, Crash
  PROVE  IInv'
  <1>1. TypeOK'
    BY RefreshAssumption, IdleType DEF Crash, IInv, TypeOK
  <1>2. \A t \in Tasks : Sound(task[t])'
    BY DEF Crash, Sound, Idle
  <1>3. ReadyHasRows'
    BY DEF Crash, IInv, ReadyHasRows, HasRows
  <1>4. QED
    BY <1>1, <1>2, <1>3 DEF IInv

(* The steps of the world around, which leave files and tasks alone.       *)
LEMMA OthersMove ==
  ASSUME IInv, UNCHANGED <<zip, db, temp, task, faults, broken>>,
         server' \in [rel : Releases, tag : Tags],
         entries' \subseteq Modes, flows' \subseteq Modes
  PROVE  IInv'
  <1>1. TypeOK'
    BY DEF IInv, TypeOK
  <1>2. ASSUME NEW t \in Tasks
        PROVE  Sound(task[t])'
    BY DEF IInv, Sound, Writes, FileOf
  <1>3. ReadyHasRows'
    BY DEF IInv, ReadyHasRows, HasRows
  <1>4. QED
    BY <1>1, <1>2, <1>3 DEF IInv

LEMMA ProceedMoves ==
  ASSUME IInv, NEW t \in Tasks, Proceed(t)
  PROVE  IInv'
  <1>1. faults \in 0 .. MaxFaults /\ broken \in BOOLEAN /\ TRUE \in BOOLEAN
    BY DEF IInv, TypeOK
  <1>2. CASE HeadStops(t)
    BY <1>1, <1>2, Ends DEF HeadStops
  <1>3. CASE NothingToImport(t)
    BY <1>1, <1>3, Ends DEF NothingToImport
  <1>4. CASE SwapFails(t)
    BY <1>1, <1>4, Ends DEF SwapFails
  <1>5. QED
    BY <1>2, <1>3, <1>4, ReadMetaMoves, ReadBundlesMoves, HeadMoves,
       UseZipMoves, FetchMoves, SameZipMoves, OtherZipMoves, WriteZipMoves,
       UpdateZipMetaMoves, ConnectMoves, SkipBundleMoves, BeginBundleMoves,
       EndBundleMoves, RecordMoves, SwapMoves
       DEF Proceed

LEMMA IInvInductive == IInv /\ [Next]_vars => IInv'
  <1> SUFFICES ASSUME IInv, [Next]_vars
               PROVE  IInv'
    OBVIOUS
  <1> USE RefreshAssumption
  <1>1. CASE Publish
    <2>1. server' \in [rel : Releases, tag : Tags]
      BY <1>1 DEF Publish, IInv, TypeOK, Releases, Tags
    <2>2. QED
      BY <1>1, <2>1, OthersMove DEF Publish, IInv, TypeOK
  <1>2. CASE Retag
    <2>1. server' \in [rel : Releases, tag : Tags]
      BY <1>2 DEF Retag, IInv, TypeOK, Releases, Tags
    <2>2. QED
      BY <1>2, <2>1, OthersMove DEF Retag, IInv, TypeOK
  <1>3. ASSUME NEW m \in Modes, FlowReady(m) \/ FlowCreates(m)
        PROVE  IInv'
    BY <1>3, OthersMove DEF FlowReady, FlowCreates, IInv, TypeOK
  <1>4. ASSUME NEW t \in Tasks, Call(t) \/ Proceed(t) \/ Fails(t)
        PROVE  IInv'
    BY <1>4, CallMoves, ProceedMoves, FailsMoves
  <1>5. CASE Crash
    BY <1>5, CrashMoves
  <1>6. CASE UNCHANGED vars
    BY <1>6, OthersMove DEF vars, IInv, TypeOK
  <1>7. QED
    BY <1>1, <1>2, <1>3, <1>4, <1>5, <1>6 DEF Next

LEMMA Invariant == Spec => []IInv
  <1>1. Init => IInv
    <2> SUFFICES ASSUME Init
                 PROVE  IInv
      OBVIOUS
    <2>1. TypeOK
      <3>1. /\ 1 \in Releases /\ 1 \in Tags
            /\ 0 \in 0 .. MaxRelease /\ 0 \in 0 .. MaxFaults
        BY RefreshAssumption DEF Releases, Tags
      <3>2. QED
        BY <3>1, IdleType DEF Init, TypeOK
    <2>2. \A t \in Tasks : Sound(task[t])
      BY IdleIsSound DEF Init
    <2>3. ReadyHasRows
      BY DEF Init, ReadyHasRows
    <2>4. QED
      BY <2>1, <2>2, <2>3 DEF IInv
  <1>2. QED
    BY <1>1, IInvInductive, PTL DEF Spec

(* The server, the files, the refreshes and the entries stay in range.     *)
THEOREM TypeCorrect == Spec => []TypeOK
  <1>1. IInv => TypeOK
    BY DEF IInv
  <1>2. QED
    BY <1>1, Invariant, PTL

(* No database, live or being built, records a bundle as imported that has *)
(* no rows in it, however many refreshes run, fail, are cut off or         *)
(* exchange each other's files: is_mode_ready does not lie.                *)
THEOREM ReadyMeansRows == Spec => []ReadyHasRows
  <1>1. IInv => ReadyHasRows
    BY DEF IInv
  <1>2. QED
    BY <1>1, Invariant, PTL
==============================================================================
