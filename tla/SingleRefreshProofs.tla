------------------------- MODULE SingleRefreshProofs -------------------------
(***************************************************************************)
(* When refreshes follow one another and never overlap: a recorded bundle  *)
(* is whole, what is published is a finished import, the stored hash is    *)
(* that of every bundle, and no reader sees rows of two releases, unless   *)
(* an import was cut short.  For any modes, bundles and releases, any      *)
(* number of failed downloads and imports, and crashes between any two     *)
(* commits.                                                                *)
(***************************************************************************)
EXTENDS GtfsRefreshProofs

OneAtATime == \A t, u \in Tasks : t = u

(* The hash import_meta holds. *)
StoredSha == IF db = NoFile THEN 0 ELSE db.sha

Importing(r) == r.pc \in {"import", "rows", "swap"}

(* A finished import... *)
Finished(file) ==
  /\ file.sha # 0
  /\ \A b \in Bundles :
       file.key[b] # 0 /\ b \in Folders[file.key[b]]
         => file.whole[b] = file.key[b]

(* ...all bundles of which are of the release it is stamped with... *)
OneRelease(file) ==
  \A b \in Bundles :
    /\ file.key[b] \in {0, file.sha}
    /\ file.key[b] # 0 =>
         file.rows[b] = IF b \in Folders[file.key[b]] THEN {file.key[b]} ELSE {}

(* ...and that has no rows of bundles it does not know of. *)
NoRest(file) == \A b \in Bundles : file.key[b] = 0 => file.rows[b] = {}

(* An import under way: the bundles it fills are not recorded yet; those   *)
(* it is done with are whole; and unless a live database was left in       *)
(* pieces by an earlier one, there is nothing else in the file.            *)
Filling(r, file) ==
  /\ \A b \in r.todo : file.key[b] = 0
  /\ \A b \in r.todo \ (r.rest \cup r.half) :
       b \in Folders[r.src] => file.whole[b] = r.src
  /\ r.swap \/ ~broken =>
       \A b \in Bundles :
         file.key[b] = 0 =>
           file.rows[b] = IF b \in r.todo \ r.rest /\ b \in Folders[r.src]
                          THEN {r.src} ELSE {}

(* The refresh knows the hash the database is stamped with until it        *)
(* imports, imports the ZIP it decided on, and leaves no bundle half done. *)
Informed(r) ==
  /\ r.pc # "idle" => r.want # {}
  /\ r.pc \in {"bundles", "head", "get", "compare", "write", "retag", "import"}
       => r.sha0 = StoredSha
  /\ Importing(r) => r.body = zip
  /\ r.pc # "rows" => r.half = {}

(* Unless an import was cut short, the ZIP on disk is the one that was     *)
(* imported, but for the time a refresh takes to import a new one.         *)
ZipImported(r) ==
  ~broken =>
    /\ ~Importing(r) => zip = StoredSha
    /\ Importing(r) /\ r.pc # "swap" /\ ~r.force /\ db # NoFile => zip = db.sha

InTemp(r) ==
  /\ r.conn = "temp"
  /\ \A b \in Bundles : temp.key[b] = 0
  /\ Filling(r, temp)
InPlace(r) ==
  /\ r.conn = "db"
  /\ ~r.force
  /\ Filling(r, db)

Fills(r) ==
  /\ r.src = zip
  /\ r.rest \subseteq r.todo /\ r.half \subseteq r.todo \ r.rest
  /\ \A b, c \in r.half : b = c
  /\ IF r.swap THEN InTemp(r) ELSE InPlace(r)

Swaps(r) ==
  /\ r.conn = "temp"
  /\ Finished(temp) /\ OneRelease(temp) /\ NoRest(temp)
  /\ temp.sha = zip

(* What a refresh has to do with the files. *)
Single(r) ==
  /\ Informed(r) /\ ZipImported(r)
  /\ r.pc = "rows" => Fills(r)
  /\ r.pc = "swap" => Swaps(r)
  /\ ~broken /\ db # NoFile /\ ~(r.pc = "rows" /\ ~r.swap) => NoRest(db)

Published ==
  db # NoFile => Finished(db) /\ (~broken => OneRelease(db))

Orderly ==
  /\ \A t \in Tasks : Single(task[t])
  /\ Published

SInv == IInv /\ Orderly

------------------------------------------------------------------------------
(* The facts every step needs of the refresh that takes it.                *)

LEMMA Facts ==
  ASSUME SInv, NEW t \in Tasks
  PROVE  /\ task \in [Tasks -> TaskType] /\ task[t] \in TaskType
         /\ Sound(task[t]) /\ Single(task[t]) /\ Published
         /\ zip \in 0 .. MaxRelease /\ db \in Content \cup {NoFile}
         /\ temp \in Content \cup {NoFile} /\ broken \in BOOLEAN
  BY DEF SInv, IInv, TypeOK, Orderly

(* With one refresh at a time, its part is all there is to show.           *)
LEMMA Alone ==
  ASSUME OneAtATime, NEW t \in Tasks, NEW r,
         task' = [task EXCEPT ![t] = r] \/ task'[t] = r,
         task \in [Tasks -> TaskType],
         Single(r)', Published'
  PROVE  Orderly'
  <1>1. task'[t] = r
    OBVIOUS
  <1>2. ASSUME NEW u \in Tasks
        PROVE  Single(task[u])'
    <2>1. u = t
      BY DEF OneAtATime
    <2>2. task'[u] = r
      BY <1>1, <2>1
    <2>3. Informed(r)' /\ ZipImported(r)'
      BY DEF Single
    <2>4. Informed(task[u])'
      BY <2>2, <2>3 DEF Informed, StoredSha, Importing
    <2>5. ZipImported(task[u])'
      BY <2>2, <2>3 DEF ZipImported, StoredSha, Importing
    <2>6. (r.pc = "rows" => Fills(task[u]))'
      <3>1. (r.pc = "rows" => Fills(r))'
        BY DEF Single
      <3>2. (r.pc = "rows" =>
               /\ r.src = zip
               /\ r.rest \subseteq r.todo /\ r.half \subseteq r.todo \ r.rest
               /\ \A b, c \in r.half : b = c
               /\ r.swap => InTemp(r)
               /\ ~r.swap => InPlace(r))'
        BY <3>1 DEF Fills
      <3>3. InTemp(r)' => InTemp(task[u])'
        BY <2>2 DEF InTemp, Filling
      <3>4. InPlace(r)' => InPlace(task[u])'
        BY <2>2 DEF InPlace, Filling
      <3>5. QED
        BY <2>2, <3>2, <3>3, <3>4 DEF Fills
    <2>7. (r.pc = "swap" => Swaps(task[u]))'
      BY <2>2 DEF Single, Swaps
    <2>8. (~broken /\ db # NoFile /\ ~(r.pc = "rows" /\ ~r.swap) => NoRest(db))'
      BY DEF Single
    <2>9. QED
      BY <2>2, <2>4, <2>5, <2>6, <2>7, <2>8 DEF Single
  <1>3. QED
    BY <1>2 DEF Orderly

(* A step that touches no file. *)
LEMMA FilesStay ==
  ASSUME OneAtATime, SInv, NEW t \in Tasks, NEW r,
         task' = [task EXCEPT ![t] = r],
         UNCHANGED <<zip, db, temp, broken>>, Single(r)
  PROVE  Orderly'
  <1>1. Single(r)'
    BY DEF Single, Informed, ZipImported, Fills, Swaps, InTemp, InPlace,
           Filling, StoredSha, Importing, Finished, OneRelease, NoRest
  <1>2. Published'
    BY DEF SInv, Orderly, Published, Finished, OneRelease
  <1>3. QED
    BY <1>1, <1>2, Alone, Facts

(* Up to its decision to import, and when it is over, a refresh has        *)
(* nothing to do with the files.                                           *)
LEMMA Outside ==
  ASSUME SInv, NEW t \in Tasks, ~Importing(task[t]),
         NEW r, r.pc \notin {"import", "rows", "swap"}, Informed(r)
  PROVE  Single(r)
  BY Facts DEF Single, ZipImported, Importing

LEMMA IdleInformed == Informed(Idle)
  BY DEF Informed, Idle, Importing

LEMMA StartOrderly ==
  ASSUME OneAtATime, SInv, NEW t \in Tasks,
         NEW want \in SUBSET Bundles, NEW skip \in BOOLEAN, Start(t, want, skip)
  PROVE  Orderly'
  <1>1. PICK r : r = [Idle EXCEPT !.pc = "meta", !.want = want, !.skip = skip]
    OBVIOUS
  <1>2. r.pc = "meta" /\ r.want = want /\ want # {} /\ r.half = {}
    BY <1>1 DEF Idle, Start
  <1>3. Informed(r)
    BY <1>2 DEF Informed, Importing
  <1>4. ~Importing(task[t])
    BY DEF Start, Importing
  <1>5. Single(r)
    BY <1>2, <1>3, <1>4, Outside
  <1>6. QED
    BY <1>1, <1>5, FilesStay DEF Start

LEMMA CallOrderly ==
  ASSUME OneAtATime, SInv, NEW t \in Tasks, Call(t)
  PROVE  Orderly'
  <1>1. TypeOK
    BY DEF SInv, IInv
  <1>2. CASE RefreshAll(t)
    BY <1>1, <1>2, BundleSets, StartOrderly DEF RefreshAll
  <1>3. ASSUME NEW m \in Modes, SetupWatch(t, m)
        PROVE  Orderly'
    BY <1>1, <1>3, BundleSets, StartOrderly DEF SetupWatch
  <1>4. ASSUME NEW m \in Modes, FlowDownloads(t, m)
        PROVE  Orderly'
    BY <1>1, <1>4, BundleSets, StartOrderly DEF FlowDownloads
  <1>5. QED
    BY <1>2, <1>3, <1>4 DEF Call

(* A refresh that ends before it imports, with nothing decided. *)
LEMMA EndsOrderly ==
  ASSUME OneAtATime, SInv, NEW t \in Tasks, ~Importing(task[t]),
         task' = [task EXCEPT ![t] = Idle],
         UNCHANGED <<zip, db, temp, broken>>
  PROVE  Orderly'
  <1>1. Single(Idle)
    BY IdleInformed, Outside DEF Idle
  <1>2. QED
    BY <1>1, FilesStay

LEMMA ReadMetaOrderly ==
  ASSUME OneAtATime, SInv, NEW t \in Tasks, ReadMeta(t)
  PROVE  Orderly'
  <1>1. PICK r : r = [task[t] EXCEPT !.pc = "bundles", !.sha0 = StoredSha,
                        !.tag0 = IF db = NoFile THEN 0 ELSE db.tag]
    OBVIOUS
  <1>2. task[t] \in TaskType /\ task[t].pc = "meta" /\ Informed(task[t])
    BY Facts DEF ReadMeta, Single
  <1>3. /\ r.pc = "bundles" /\ r.sha0 = StoredSha /\ r.want = task[t].want
        /\ r.half = task[t].half
    BY <1>1, <1>2 DEF TaskType
  <1>4. Informed(r) /\ ~Importing(task[t])
    BY <1>2, <1>3 DEF Informed, Importing
  <1>5. Single(r)
    BY <1>3, <1>4, Outside
  <1>6. task' = [task EXCEPT ![t] = r]
    BY <1>1, Facts DEF ReadMeta, StoredSha
  <1>7. QED
    BY <1>5, <1>6, FilesStay DEF ReadMeta

(* Steps that go on with what the refresh knows. *)
LEMMA GoesOnOrderly ==
  ASSUME OneAtATime, SInv, NEW t \in Tasks,
         task[t].pc \in {"bundles", "head", "get", "compare"},
         NEW r, task' = [task EXCEPT ![t] = r],
         r.pc \in {"head", "get", "compare", "write"},
         r.want = task[t].want, r.sha0 = task[t].sha0, r.half = task[t].half,
         UNCHANGED <<zip, db, temp, broken>>
  PROVE  Orderly'
  <1>1. Informed(task[t])
    BY Facts DEF Single
  <1>2. Informed(r) /\ ~Importing(task[t])
    BY <1>1 DEF Informed, Importing
  <1>3. Single(r)
    BY <1>2, Outside
  <1>4. QED
    BY <1>3, FilesStay

LEMMA ReadBundlesOrderly ==
  ASSUME OneAtATime, SInv, NEW t \in Tasks, ReadBundles(t)
  PROVE  Orderly'
  <1>1. PICK r : r = [task[t] EXCEPT
                        !.pc = IF task[t].skip THEN "get" ELSE "head",
                        !.present = task[t].want \subseteq Keyed(db)]
    OBVIOUS
  <1>2. task[t] \in TaskType /\ task[t].pc = "bundles"
    BY Facts DEF ReadBundles
  <1>3. /\ r.pc \in {"get", "head"} /\ r.want = task[t].want
        /\ r.sha0 = task[t].sha0 /\ r.half = task[t].half
    BY <1>1, <1>2 DEF TaskType
  <1>4. task' = [task EXCEPT ![t] = r]
    BY <1>1, Facts DEF ReadBundles
  <1>5. QED
    BY <1>2, <1>3, <1>4, GoesOnOrderly DEF ReadBundles

LEMMA HeadOrderly ==
  ASSUME OneAtATime, SInv, NEW t \in Tasks, NEW failed \in BOOLEAN,
         HeadGoesOn(t, failed)
  PROVE  Orderly'
  <1>1. PICK r : r = [task[t] EXCEPT !.pc = "get"]
    OBVIOUS
  <1>2. task[t] \in TaskType /\ task[t].pc = "head"
    BY Facts DEF HeadGoesOn
  <1>3. /\ r.pc = "get" /\ r.want = task[t].want
        /\ r.sha0 = task[t].sha0 /\ r.half = task[t].half
    BY <1>1, <1>2 DEF TaskType
  <1>4. task' = [task EXCEPT ![t] = r]
    BY <1>1, Facts DEF HeadGoesOn
  <1>5. QED
    BY <1>2, <1>3, <1>4, GoesOnOrderly DEF HeadGoesOn

LEMMA FetchOrderly ==
  ASSUME OneAtATime, SInv, NEW t \in Tasks, Fetch(t)
  PROVE  Orderly'
  <1>1. PICK r : r = [task[t] EXCEPT !.pc = "compare", !.body = server.rel,
                                     !.tag = server.tag]
    OBVIOUS
  <1>2. task[t] \in TaskType /\ task[t].pc = "get"
    BY Facts DEF Fetch
  <1>3. /\ r.pc = "compare" /\ r.want = task[t].want
        /\ r.sha0 = task[t].sha0 /\ r.half = task[t].half
    BY <1>1, <1>2 DEF TaskType
  <1>4. task' = [task EXCEPT ![t] = r]
    BY <1>1, Facts DEF Fetch
  <1>5. QED
    BY <1>2, <1>3, <1>4, GoesOnOrderly DEF Fetch

LEMMA OtherZipOrderly ==
  ASSUME OneAtATime, SInv, NEW t \in Tasks, OtherZip(t)
  PROVE  Orderly'
  <1>1. PICK r : r = [task[t] EXCEPT !.pc = "write"]
    OBVIOUS
  <1>2. task[t] \in TaskType /\ task[t].pc = "compare"
    BY Facts DEF OtherZip
  <1>3. /\ r.pc = "write" /\ r.want = task[t].want
        /\ r.sha0 = task[t].sha0 /\ r.half = task[t].half
    BY <1>1, <1>2 DEF TaskType
  <1>4. task' = [task EXCEPT ![t] = r]
    BY <1>1, Facts DEF OtherZip
  <1>5. QED
    BY <1>2, <1>3, <1>4, GoesOnOrderly DEF OtherZip

------------------------------------------------------------------------------
(* The decision.  A refresh that will not import from scratch has the ZIP  *)
(* that the database was imported from.                                    *)

LEMMA DecideOrderly ==
  ASSUME OneAtATime, SInv, NEW t \in Tasks,
         task[t].pc \in {"get", "compare", "write"},
         NEW changed \in BOOLEAN, NEW sha, NEW tag, Decide(t, changed, sha, tag),
         zip' = sha, ~changed => zip = sha,
         UNCHANGED <<db, temp, broken>>
  PROVE  Orderly'
  <1> DEFINE nothing == ~changed /\ task[t].sha0 = sha /\ task[t].present
  <1>1. PICK retag : retag = [task[t] EXCEPT !.pc = "retag", !.tag = tag]
    OBVIOUS
  <1>2. PICK import : import = [task[t] EXCEPT !.pc = "import", !.body = sha,
                                  !.tag = tag,
                                  !.force = ZipChanged(t, changed, sha)]
    OBVIOUS
  <1>3. /\ task[t] \in TaskType /\ Informed(task[t]) /\ ~Importing(task[t])
        /\ task[t].want # {} /\ task[t].sha0 = StoredSha
        /\ task[t].half = {}
    BY Facts DEF Single, Informed, Importing
  <1>4. ~broken => zip = StoredSha /\ (db # NoFile => NoRest(db))
    BY <1>3, Facts DEF Single, ZipImported, Importing
  <1>5. StoredSha' = StoredSha /\ (NoRest(db) => NoRest(db)')
    BY DEF StoredSha, NoRest
  <1>6. Published'
    BY Facts DEF Published, Finished, OneRelease
  <1>7. \/ /\ nothing
           /\ \/ task' = [task EXCEPT ![t] = Idle]
              \/ task' = [task EXCEPT ![t] = retag]
        \/ ~nothing /\ task' = [task EXCEPT ![t] = import]
    <2>1. task[t].sha0 = sha \/ task[t].sha0 # sha
      OBVIOUS
    <2>2. QED
      BY <1>1, <1>2 DEF Decide
  <1>8. CASE nothing /\ task' = [task EXCEPT ![t] = Idle]
    <2>1. Single(Idle)'
      BY <1>4, <1>5, <1>8 DEF Single, Informed, ZipImported, Importing, Idle
    <2>2. QED
      BY <1>6, <1>8, <2>1, Alone, Facts
  <1>9. CASE nothing /\ task' = [task EXCEPT ![t] = retag]
    <2>1. /\ retag.pc = "retag" /\ retag.want = task[t].want
          /\ retag.sha0 = task[t].sha0 /\ retag.half = task[t].half
      BY <1>1, <1>3 DEF TaskType
    <2>2. Single(retag)'
      BY <1>3, <1>4, <1>5, <1>9, <2>1
         DEF Single, Informed, ZipImported, Importing
    <2>3. QED
      BY <1>6, <1>9, <2>2, Alone, Facts
  <1>10. CASE task' = [task EXCEPT ![t] = import]
    <2>1. /\ import.pc = "import" /\ import.want = task[t].want
          /\ import.sha0 = task[t].sha0 /\ import.body = sha
          /\ import.half = task[t].half
          /\ import.force = (changed /\ task[t].sha0 # sha)
      BY <1>2, <1>3 DEF TaskType, ZipChanged
    <2>2. ~broken /\ ~import.force /\ db # NoFile => zip' = db'.sha
      BY <1>3, <1>4, <2>1 DEF StoredSha
    <2>3. Single(import)'
      BY <1>3, <1>4, <1>5, <2>1, <2>2
         DEF Single, Informed, ZipImported, Importing
    <2>4. QED
      BY <1>6, <1>10, <2>3, Alone, Facts
  <1>11. QED
    BY <1>7, <1>8, <1>9, <1>10

LEMMA ZipOrderly ==
  ASSUME OneAtATime, SInv, NEW t \in Tasks,
         UseZip(t) \/ SameZip(t) \/ WriteZip(t)
  PROVE  Orderly'
  <1>1. CASE UseZip(t)
    BY <1>1, DecideOrderly DEF UseZip
  <1>2. CASE SameZip(t)
    BY <1>2, DecideOrderly DEF SameZip
  <1>3. CASE WriteZip(t)
    BY <1>3, DecideOrderly DEF WriteZip
  <1>4. QED
    BY <1>1, <1>2, <1>3

LEMMA UpdateZipMetaOrderly ==
  ASSUME OneAtATime, SInv, NEW t \in Tasks, NEW works \in BOOLEAN,
         UpdateZipMeta(t, works)
  PROVE  Orderly'
  <1>1. ~Importing(task[t]) /\ task[t].pc = "retag"
    BY DEF UpdateZipMeta, Importing
  <1>2. CASE db = NoFile
    BY <1>1, <1>2, EndsOrderly DEF UpdateZipMeta
  <1>3. CASE db # NoFile
    <2>1. db \in Content /\ db' \in {db, [db EXCEPT !.tag = task[t].tag]}
      BY <1>3, Facts DEF UpdateZipMeta
    <2>2. /\ db'.sha = db.sha /\ db'.key = db.key
          /\ db'.rows = db.rows /\ db'.whole = db.whole
      BY <2>1 DEF Content
    <2>3. db' # NoFile
      <3>1. task[t].tag \in 0 .. MaxTag
        BY Facts DEF TaskType
      <3>2. db' \in Content
        BY <2>1, <3>1 DEF Content
      <3>3. QED
        BY <3>2, ContentIsNotNoFile
    <2>4. Published'
      BY <1>3, <2>2, <2>3, Facts
         DEF Published, Finished, OneRelease, UpdateZipMeta
    <2>5. StoredSha' = StoredSha /\ (NoRest(db) => NoRest(db'))
      BY <1>3, <2>2, <2>3 DEF StoredSha, NoRest
    <2>6. ~broken => zip = StoredSha /\ NoRest(db)
      BY <1>1, <1>3, Facts DEF Single, ZipImported, Importing
    <2>7. Single(Idle)'
      BY <2>5, <2>6
         DEF Single, Informed, ZipImported, Importing, Idle, UpdateZipMeta, NoRest
    <2>8. QED
      BY <2>4, <2>7, Alone, Facts DEF UpdateZipMeta
  <1>4. QED
    BY <1>2, <1>3

------------------------------------------------------------------------------
(* The import.                                                             *)

LEMMA NothingToImportOrderly ==
  ASSUME OneAtATime, SInv, NEW t \in Tasks, NothingToImport(t)
  PROVE  Orderly'
  <1>1. /\ task[t] \in TaskType /\ Single(task[t]) /\ Informed(task[t])
        /\ task[t].pc = "import" /\ task[t].want # {}
    BY Facts DEF NothingToImport, Single, Informed
  <1>2. ~task[t].force /\ db # NoFile
    BY <1>1 DEF NothingToImport, ToImport, Keyed
  <1>3. ~broken => zip = StoredSha /\ NoRest(db)
    BY <1>1, <1>2 DEF Single, ZipImported, Importing, StoredSha
  <1>4. Single(Idle)
    BY <1>3 DEF Single, Informed, ZipImported, Importing, Idle
  <1>5. QED
    BY <1>4, FilesStay DEF NothingToImport

LEMMA ConnectOrderly ==
  ASSUME OneAtATime, SInv, NEW t \in Tasks, Connect(t)
  PROVE  Orderly'
  <1>1. PICK r : r = [task[t] EXCEPT !.pc = "rows", !.swap = UseTemp(t),
                        !.conn = IF UseTemp(t) THEN "temp" ELSE "db",
                        !.src = zip,
                        !.todo = ToImport(t), !.rest = ToImport(t)]
    OBVIOUS
  <1>2. /\ task[t] \in TaskType /\ Single(task[t]) /\ Informed(task[t])
        /\ Sound(task[t]) /\ task[t].pc = "import" /\ Published
    BY Facts DEF Connect, Single
  <1>3. UseTemp(t) \in BOOLEAN /\ ToImport(t) \subseteq Bundles
    BY <1>2 DEF UseTemp, ToImport, TaskType
  <1>4. /\ r.pc = "rows" /\ r.src = zip /\ r.todo = ToImport(t)
        /\ r.rest = ToImport(t) /\ r.half = {}
        /\ r.conn = IF UseTemp(t) THEN "temp" ELSE "db"
        /\ r.swap = UseTemp(t) /\ r.force = task[t].force
        /\ r.want = task[t].want /\ r.body = zip
    BY <1>1, <1>2 DEF TaskType, Informed, Importing
  <1>5. Published' /\ UNCHANGED <<zip, db, broken>>
    BY <1>2 DEF Published, Finished, OneRelease, Connect
  <1>6. ~broken /\ db # NoFile => NoRest(db) /\ (~task[t].force => zip = db.sha)
    BY <1>2 DEF Single, ZipImported, Importing
  <1>7. Informed(r)' /\ ZipImported(r)'
    <2>1. r.want # {}
      BY <1>2, <1>4 DEF Informed
    <2>2. Informed(r)'
      BY <1>4, <1>5, <2>1 DEF Informed, Importing
    <2>3. QED
      BY <1>4, <1>5, <1>6, <2>2 DEF ZipImported, Importing
  <1>8. CASE UseTemp(t)
    <2>1. temp' = Blank /\ task' = [Follow(Unlinked) EXCEPT ![t] = r]
      BY <1>1, <1>8 DEF Connect
    <2>2. task'[t] = r
      BY <2>1 DEF Follow
    <2>3. InTemp(r)'
      BY <1>3, <1>4, <1>8, <2>1 DEF InTemp, Filling, Blank
    <2>4. Fills(r)'
      BY <1>4, <1>5, <1>8, <2>3 DEF Fills
    <2>5. ~broken' /\ db' # NoFile => NoRest(db)'
      BY <1>5, <1>6 DEF NoRest
    <2>6. Single(r)'
      BY <1>4, <1>7, <2>4, <2>5 DEF Single
    <2>7. QED
      BY <1>5, <2>2, <2>6, Alone, Facts
  <1>9. CASE ~UseTemp(t)
    <2>1. task' = [task EXCEPT ![t] = r] /\ db # NoFile /\ ~r.force
      BY <1>1, <1>4, <1>9 DEF Connect, UseTemp
    <2>2. r.todo \cap Keyed(db) = {} /\ r.todo \subseteq Bundles
      BY <1>3, <1>4, <2>1 DEF ToImport
    <2>3. Filling(r, db)
      <3>1. \A b \in r.todo : db.key[b] = 0
        BY <2>1, <2>2 DEF Keyed
      <3>2. QED
        BY <1>4, <1>6, <1>9, <2>1, <3>1 DEF Filling, NoRest
    <2>4. InPlace(r)'
      BY <1>4, <1>5, <1>9, <2>1, <2>3 DEF InPlace, Filling
    <2>5. Fills(r)'
      BY <1>4, <1>5, <1>9, <2>4 DEF Fills
    <2>6. Single(r)'
      BY <1>4, <1>7, <1>9, <2>5 DEF Single
    <2>7. QED
      BY <1>5, <2>1, <2>6, Alone, Facts
  <1>10. QED
    BY <1>8, <1>9

(* The file an import fills. *)
LEMMA TargetFacts ==
  ASSUME SInv, NEW t \in Tasks, task[t].pc = "rows"
  PROVE  /\ Fills(task[t]) /\ Filling(task[t], Target(t))
         /\ Target(t) = IF task[t].swap THEN temp ELSE db
         /\ ~task[t].swap => db # NoFile
         /\ Target(t) \in Content
         /\ task[t].todo \subseteq Bundles /\ task[t].swap \in BOOLEAN
         /\ task[t].src \in Releases
  <1>1. Fills(task[t]) /\ Sound(task[t]) /\ task[t] \in TaskType
    BY Facts DEF Single
  <1>2. task[t].conn = IF task[t].swap THEN "temp" ELSE "db"
    BY <1>1 DEF Fills, InTemp, InPlace
  <1>3. Target(t) = IF task[t].swap THEN temp ELSE db
    BY <1>2 DEF Target
  <1>4. Filling(task[t], Target(t))
    BY <1>1, <1>3 DEF Fills, InTemp, InPlace
  <1>5. Target(t) \in Content
    BY TargetType DEF SInv
  <1>6. QED
    BY <1>1, <1>2, <1>3, <1>4, <1>5, RefreshAssumption
       DEF TaskType, Sound, Releases

(* A commit of an import: it changes the bundles that are not recorded.    *)
LEMMA CommitOrderly ==
  ASSUME OneAtATime, SInv, NEW t \in Tasks, task[t].pc = "rows",
         NEW file \in Content, Store(t, file),
         file.key = Target(t).key, file.sha = Target(t).sha,
         \A c \in Bundles : Target(t).key[c] # 0 =>
           /\ file.whole[c] = Target(t).whole[c]
           /\ \/ file.rows[c] = Target(t).rows[c]
              \/ /\ Target(t).rows[c] # {}
                 /\ file.rows[c] = Target(t).rows[c] \cup {task[t].src},
         NEW r, task' = [task EXCEPT ![t] = r],
         r.pc = "rows", r.want = task[t].want, r.body = task[t].body,
         r.force = task[t].force, r.swap = task[t].swap, r.conn = task[t].conn,
         r.src = task[t].src, r.todo = task[t].todo,
         r.rest \subseteq r.todo, r.half \subseteq r.todo \ r.rest,
         \A b, c \in r.half : b = c,
         Filling(r, file),
         UNCHANGED <<zip, broken>>
  PROVE  Orderly'
  <1>1. /\ Fills(task[t]) /\ Informed(task[t]) /\ ZipImported(task[t])
        /\ Single(task[t]) /\ Published
    BY Facts DEF Single
  <1>2. Informed(r)'
    BY <1>1 DEF Informed, Importing
  <1>3. CASE task[t].swap
    <2>1. db' = db /\ temp' = file /\ Target(t) = temp
      BY <1>1, <1>3 DEF Store, Target, Fills, InTemp
    <2>2. Filling(r, temp)'
      BY <2>1 DEF Filling
    <2>3. InTemp(r)'
      BY <1>1, <1>3, <2>1, <2>2 DEF Fills, InTemp
    <2>4. Fills(r)'
      BY <1>1, <1>3, <2>3 DEF Fills
    <2>5. ZipImported(r)'
      BY <1>1, <2>1 DEF ZipImported, Importing
    <2>6. ~broken' /\ db' # NoFile => NoRest(db)'
      BY <1>1, <1>3, <2>1 DEF Single, NoRest
    <2>7. Single(r)'
      BY <1>2, <2>4, <2>5, <2>6 DEF Single
    <2>8. Published'
      BY <1>1, <2>1 DEF Published, Finished, OneRelease
    <2>9. QED
      BY <2>7, <2>8, Alone, Facts
  <1>4. CASE ~task[t].swap
    <2>1. db' = file /\ Target(t) = db /\ db # NoFile
      BY <1>1, <1>4, TargetFacts DEF Store, Target, Fills, InPlace
    <2>2. Filling(r, db)'
      BY <2>1 DEF Filling
    <2>3. InPlace(r)'
      BY <1>1, <1>4, <2>1, <2>2 DEF Fills, InPlace
    <2>4. Fills(r)'
      BY <1>1, <1>4, <2>3 DEF Fills
    <2>5. ZipImported(r)'
      BY <1>1, <2>1 DEF ZipImported, Importing
    <2>6. Single(r)'
      BY <1>2, <1>4, <2>4, <2>5 DEF Single
    <2>7. Finished(db) /\ (~broken => OneRelease(db))
      BY <1>1, <2>1 DEF Published
    <2>8. Finished(file)
      BY <2>1, <2>7 DEF Finished
    <2>9. ~broken => OneRelease(file)
      <3> SUFFICES ASSUME ~broken, NEW c \in Bundles
                   PROVE  /\ file.key[c] \in {0, file.sha}
                          /\ file.key[c] # 0 =>
                               file.rows[c] = IF c \in Folders[file.key[c]]
                                              THEN {file.key[c]} ELSE {}
        BY DEF OneRelease
      <3>1. task[t].src = db.sha
        BY <1>1, <1>4, <2>1 DEF Fills, InPlace, ZipImported, Importing
      <3>2. /\ db.key[c] \in {0, db.sha}
            /\ db.key[c] # 0 =>
                 db.rows[c] = IF c \in Folders[db.key[c]]
                              THEN {db.key[c]} ELSE {}
        BY <2>7 DEF OneRelease
      <3>3. CASE db.key[c] = 0
        BY <2>1, <3>2, <3>3
      <3>4. CASE db.key[c] # 0
        <4>1. db.key[c] = task[t].src
          BY <3>1, <3>2, <3>4
        <4>2. file.rows[c] = db.rows[c]
          BY <2>1, <3>2, <3>4, <4>1
        <4>3. QED
          BY <2>1, <3>2, <4>2
      <3>5. QED
        BY <3>3, <3>4
    <2>10. Published'
      BY <2>1, <2>8, <2>9 DEF Published, Finished, OneRelease
    <2>11. QED
      BY <2>6, <2>10, Alone, Facts
  <1>5. QED
    BY <1>3, <1>4

LEMMA SkipBundleOrderly ==
  ASSUME OneAtATime, SInv, NEW t \in Tasks, NEW b \in Bundles, SkipBundle(t, b)
  PROVE  Orderly'
  <1>1. PICK r : r = [task[t] EXCEPT !.rest = @ \ {b}]
    OBVIOUS
  <1>2. /\ task[t] \in TaskType /\ task[t].pc = "rows" /\ task[t].half = {}
        /\ b \in task[t].rest /\ b \notin Folders[task[t].src]
        /\ Single(task[t])
    BY Facts DEF SkipBundle
  <1>3. /\ r.pc = "rows" /\ r.want = task[t].want /\ r.body = task[t].body
        /\ r.force = task[t].force /\ r.swap = task[t].swap
        /\ r.conn = task[t].conn /\ r.src = task[t].src
        /\ r.todo = task[t].todo /\ r.half = {}
        /\ r.rest = task[t].rest \ {b}
    BY <1>1, <1>2 DEF TaskType
  <1>4. ASSUME NEW file, Filling(task[t], file)
        PROVE  Filling(r, file)
    BY <1>2, <1>3, <1>4 DEF Filling
  <1>5. Fills(r)
    BY <1>2, <1>3, <1>4 DEF Single, Fills, InTemp, InPlace
  <1>6. Informed(r) /\ ZipImported(r)
    BY <1>2, <1>3 DEF Single, Informed, ZipImported, Importing
  <1>7. Single(r)
    BY <1>2, <1>3, <1>5, <1>6 DEF Single
  <1>8. task' = [task EXCEPT ![t] = r]
    BY <1>1, Facts DEF SkipBundle
  <1>9. QED
    BY <1>7, <1>8, FilesStay DEF SkipBundle

LEMMA BeginBundleOrderly ==
  ASSUME OneAtATime, SInv, NEW t \in Tasks, NEW b \in Bundles, BeginBundle(t, b)
  PROVE  Orderly'
  <1>1. PICK r : r = [task[t] EXCEPT !.rest = @ \ {b}, !.half = {b}]
    OBVIOUS
  <1>2. PICK file : file = Inserted(Target(t), b, task[t].src)
    OBVIOUS
  <1>3. /\ task[t] \in TaskType /\ task[t].pc = "rows" /\ task[t].half = {}
        /\ b \in task[t].rest /\ b \in Folders[task[t].src]
    BY Facts DEF BeginBundle
  <1>4. /\ Fills(task[t]) /\ Filling(task[t], Target(t)) /\ Target(t) \in Content
        /\ task[t].src \in Releases /\ b \in task[t].todo
    BY <1>3, TargetFacts DEF Fills
  <1>5. /\ r.pc = "rows" /\ r.want = task[t].want /\ r.body = task[t].body
        /\ r.force = task[t].force /\ r.swap = task[t].swap
        /\ r.conn = task[t].conn /\ r.src = task[t].src
        /\ r.todo = task[t].todo /\ r.half = {b}
        /\ r.rest = task[t].rest \ {b}
    BY <1>1, <1>3 DEF TaskType
  <1>6. file \in Content
    BY <1>2, <1>4, InsertedFacts
  <1>7. /\ file.key = Target(t).key /\ file.sha = Target(t).sha
        /\ file.rows[b] = Target(t).rows[b] \cup {task[t].src}
        /\ \A c \in Bundles \ {b} :
             /\ file.whole[c] = Target(t).whole[c]
             /\ \/ file.rows[c] = Target(t).rows[c]
                \/ /\ Target(t).rows[c] # {}
                   /\ file.rows[c] = Target(t).rows[c] \cup {task[t].src}
    BY <1>2, <1>4, InsertedFacts
  <1>8. Target(t).key[b] = 0
    BY <1>4 DEF Filling
  <1>9. Filling(r, file)
    <2>1. task[t].todo \subseteq Bundles
      BY <1>3, TargetFacts
    <2>2. ASSUME NEW c \in r.todo
          PROVE  /\ file.key[c] = 0
                 /\ c \notin r.rest \cup r.half /\ c \in Folders[r.src]
                      => file.whole[c] = r.src
      BY <1>3, <1>4, <1>5, <1>7, <2>1, <2>2 DEF Filling
    <2>3. ASSUME r.swap \/ ~broken, NEW c \in Bundles, file.key[c] = 0
          PROVE  file.rows[c] = IF c \in r.todo \ r.rest /\ c \in Folders[r.src]
                                THEN {r.src} ELSE {}
      <3>1. CASE c = b
        <4>1. Target(t).rows[b] = {}
          BY <1>3, <1>4, <1>5, <1>8, <2>3 DEF Filling
        <4>2. QED
          BY <1>3, <1>4, <1>5, <1>7, <3>1, <4>1
      <3>2. CASE c # b
        <4>1. Target(t).rows[c] = IF c \in r.todo \ r.rest
                                     /\ c \in Folders[r.src]
                                  THEN {r.src} ELSE {}
          BY <1>4, <1>5, <1>7, <2>3, <3>2 DEF Filling
        <4>2. file.rows[c] = Target(t).rows[c]
          BY <1>5, <1>7, <3>2, <4>1
        <4>3. QED
          BY <4>1, <4>2
      <3>3. QED
        BY <3>1, <3>2
    <2>4. QED
      BY <2>2, <2>3 DEF Filling
  <1>10. /\ r.rest \subseteq r.todo /\ r.half \subseteq r.todo \ r.rest
         /\ \A c, d \in r.half : c = d
    BY <1>4, <1>5 DEF Fills
  <1>11. task' = [task EXCEPT ![t] = r] /\ Store(t, file)
    BY <1>1, <1>2, Facts DEF BeginBundle
  <1>12. UNCHANGED <<zip, broken>>
    BY DEF BeginBundle
  <1>13. QED
    BY <1>3, <1>5, <1>6, <1>7, <1>8, <1>9, <1>10, <1>11, <1>12, CommitOrderly

LEMMA EndBundleOrderly ==
  ASSUME OneAtATime, SInv, NEW t \in Tasks, NEW b \in Bundles, EndBundle(t, b)
  PROVE  Orderly'
  <1>1. PICK r : r = [task[t] EXCEPT !.half = {}]
    OBVIOUS
  <1>2. PICK file : file = [Target(t) EXCEPT !.whole[b] = task[t].src]
    OBVIOUS
  <1>3. task[t] \in TaskType /\ task[t].pc = "rows" /\ b \in task[t].half
    BY Facts DEF EndBundle
  <1>4. /\ Fills(task[t]) /\ Filling(task[t], Target(t)) /\ Target(t) \in Content
        /\ task[t].src \in 0 .. MaxRelease /\ task[t].half = {b}
        /\ b \in task[t].todo
    BY <1>3, TargetFacts DEF Fills, TaskType
  <1>5. /\ r.pc = "rows" /\ r.want = task[t].want /\ r.body = task[t].body
        /\ r.force = task[t].force /\ r.swap = task[t].swap
        /\ r.conn = task[t].conn /\ r.src = task[t].src
        /\ r.todo = task[t].todo /\ r.half = {}
        /\ r.rest = task[t].rest
    BY <1>1, <1>3 DEF TaskType
  <1>6. file \in Content
    BY <1>2, <1>4, WholeType
  <1>7. /\ file.key = Target(t).key /\ file.sha = Target(t).sha
        /\ file.rows = Target(t).rows
        /\ \A c \in Bundles \ {b} : file.whole[c] = Target(t).whole[c]
        /\ file.whole[b] = task[t].src
    BY <1>2, <1>4 DEF Content
  <1>8. Target(t).key[b] = 0
    BY <1>4 DEF Filling
  <1>9. Filling(r, file)
    <2>1. task[t].todo \subseteq Bundles
      BY <1>3, TargetFacts
    <2>2. \A c \in r.todo : file.key[c] = 0
      BY <1>4, <1>5, <1>7 DEF Filling
    <2>3. ASSUME NEW c \in r.todo \ (r.rest \cup r.half), c \in Folders[r.src]
          PROVE  file.whole[c] = r.src
      <3>1. CASE c = b
        BY <1>5, <1>7, <3>1
      <3>2. CASE c # b
        <4>1. c \in task[t].todo \ (task[t].rest \cup task[t].half)
          BY <1>4, <1>5, <2>3, <3>2
        <4>2. Target(t).whole[c] = task[t].src
          BY <1>4, <1>5, <2>3, <4>1 DEF Filling
        <4>3. QED
          BY <1>5, <1>7, <2>1, <3>2, <4>1, <4>2
      <3>3. QED
        BY <3>1, <3>2
    <2>4. r.swap \/ ~broken =>
            \A c \in Bundles :
              file.key[c] = 0 =>
                file.rows[c] = IF c \in r.todo \ r.rest /\ c \in Folders[r.src]
                               THEN {r.src} ELSE {}
      BY <1>4, <1>5, <1>7 DEF Filling
    <2>5. QED
      BY <2>2, <2>3, <2>4 DEF Filling
  <1>10. /\ r.rest \subseteq r.todo /\ r.half \subseteq r.todo \ r.rest
         /\ \A c, d \in r.half : c = d
    BY <1>4, <1>5 DEF Fills
  <1>11. task' = [task EXCEPT ![t] = r] /\ Store(t, file)
    BY <1>1, <1>2, Facts DEF EndBundle
  <1>12. UNCHANGED <<zip, broken>>
    BY DEF EndBundle
  <1>13. QED
    BY <1>3, <1>5, <1>6, <1>7, <1>8, <1>9, <1>10, <1>11, <1>12, CommitOrderly

(* The rows of import_meta.  A new database is then whole; in the live one *)
(* the recorded bundles are those that were missing.                       *)
LEMMA RecordOrderly ==
  ASSUME OneAtATime, SInv, NEW t \in Tasks, Record(t)
  PROVE  Orderly'
  <1>1. PICK file : file = Stamped(t, Target(t))
    OBVIOUS
  <1>2. /\ task[t] \in TaskType /\ task[t].pc = "rows" /\ task[t].rest = {}
        /\ task[t].half = {} /\ Single(task[t]) /\ Published
        /\ Sound(task[t]) /\ zip \in 0 .. MaxRelease
    BY Facts DEF Record
  <1>3. /\ Fills(task[t]) /\ Filling(task[t], Target(t)) /\ Target(t) \in Content
        /\ task[t].todo \subseteq Bundles
    BY <1>2, TargetFacts
  <1>4. task[t].src = zip /\ task[t].body = zip /\ zip # 0
    BY <1>2, <1>3 DEF Fills, Single, Informed, Importing, Sound
  <1>5. file \in Content
    BY <1>1, <1>2, <1>3, StampedType
  <1>6. /\ file.sha = zip /\ file.rows = Target(t).rows
        /\ file.whole = Target(t).whole
        /\ \A b \in Bundles : file.key[b] = IF b \in task[t].todo THEN zip
                                            ELSE Target(t).key[b]
    BY <1>1, <1>3, <1>4 DEF Stamped, Content
  <1>7. \A b \in task[t].todo : b \in Folders[zip] => file.whole[b] = zip
    BY <1>2, <1>3, <1>4, <1>6 DEF Filling
  <1>8. task[t].swap \/ ~broken =>
          \A b \in Bundles : Target(t).key[b] = 0 =>
            file.rows[b] = IF b \in task[t].todo /\ b \in Folders[zip]
                           THEN {zip} ELSE {}
    BY <1>2, <1>3, <1>4, <1>6 DEF Filling
  <1>9. \A b \in task[t].todo : Target(t).key[b] = 0
    BY <1>3 DEF Filling
  <1>10. UNCHANGED <<zip, broken>> /\ Store(t, file)
    BY <1>1 DEF Record
  <1>11. CASE task[t].swap
    <2>1. PICK r : r = [task[t] EXCEPT !.pc = "swap"]
      OBVIOUS
    <2>2. /\ r.pc = "swap" /\ r.want = task[t].want /\ r.body = zip
          /\ r.conn = "temp" /\ r.half = {}
      BY <1>2, <1>3, <1>4, <1>11, <2>1 DEF TaskType, Fills, InTemp
    <2>3. /\ db' = db /\ temp' = file /\ Target(t) = temp
          /\ \A b \in Bundles : temp.key[b] = 0
      BY <1>3, <1>10, <1>11 DEF Store, Target, Fills, InTemp
    <2>4. Finished(file) /\ OneRelease(file) /\ NoRest(file)
      BY <1>4, <1>6, <1>7, <1>8, <1>11, <2>3 DEF Finished, OneRelease, NoRest
    <2>5. Swaps(r)'
      BY <1>6, <1>10, <2>2, <2>3, <2>4
         DEF Swaps, Finished, OneRelease, NoRest
    <2>6. Informed(r)' /\ ZipImported(r)'
      BY <1>2, <1>10, <2>2 DEF Single, Informed, ZipImported, Importing
    <2>7. ~broken' /\ db' # NoFile => NoRest(db)'
      BY <1>2, <1>10, <1>11, <2>3 DEF Single, NoRest
    <2>8. Single(r)'
      BY <2>2, <2>5, <2>6, <2>7 DEF Single
    <2>9. Published'
      BY <1>2, <1>10, <2>3 DEF Published, Finished, OneRelease
    <2>10. task' = [task EXCEPT ![t] = r]
      BY <1>11, <2>1, Facts DEF Record
    <2>11. QED
      BY <2>8, <2>9, <2>10, Alone, Facts
  <1>12. CASE ~task[t].swap
    <2>1. db' = file /\ Target(t) = db /\ db # NoFile /\ ~task[t].force
      BY <1>2, <1>3, <1>10, <1>12, TargetFacts
         DEF Store, Target, Fills, InPlace
    <2>2. Finished(db) /\ (~broken => OneRelease(db) /\ db.sha = zip)
      BY <1>2, <2>1 DEF Published, Single, ZipImported, Importing
    <2>3. Finished(file)
      BY <1>4, <1>6, <1>7, <2>1, <2>2 DEF Finished
    <2>4. ~broken => OneRelease(file)
      BY <1>4, <1>6, <1>8, <1>9, <2>1, <2>2 DEF OneRelease
    <2>5. ~broken => NoRest(file)
      BY <1>4, <1>6, <1>8, <2>1 DEF NoRest
    <2>6. Published'
      BY <1>10, <2>1, <2>3, <2>4 DEF Published, Finished, OneRelease
    <2>7. db' # NoFile /\ StoredSha' = zip'
      BY <1>5, <1>6, <1>10, <2>1, ContentIsNotNoFile DEF StoredSha
    <2>8. Informed(Idle)' /\ ZipImported(Idle)'
      BY <2>7 DEF Informed, ZipImported, Importing, Idle
    <2>9. ~broken' => NoRest(db)'
      BY <1>10, <2>1, <2>5 DEF NoRest
    <2>10. Single(Idle)'
      BY <2>8, <2>9 DEF Single, Idle
    <2>11. task' = [task EXCEPT ![t] = Idle]
      BY <1>12, Facts DEF Record
    <2>12. QED
      BY <2>6, <2>10, <2>11, Alone, Facts
  <1>13. QED
    BY <1>11, <1>12

LEMMA SwapOrderly ==
  ASSUME OneAtATime, SInv, NEW t \in Tasks, Swap(t)
  PROVE  Orderly'
  <1>1. Swaps(task[t]) /\ temp \in Content
    BY Facts DEF Swap, Single
  <1>2. db' = temp /\ UNCHANGED <<zip, broken>> /\ db' # NoFile
    BY DEF Swap
  <1>3. Published'
    BY <1>1, <1>2 DEF Published, Swaps, Finished, OneRelease
  <1>4. Informed(Idle)' /\ ZipImported(Idle)'
    BY <1>1, <1>2
       DEF Informed, ZipImported, Importing, Idle, Swaps, StoredSha
  <1>5. NoRest(db)'
    BY <1>1, <1>2 DEF Swaps, NoRest
  <1>6. Single(Idle)'
    BY <1>4, <1>5 DEF Single, Idle
  <1>7. task'[t] = Idle
    BY DEF Swap, Follow
  <1>8. QED
    BY <1>3, <1>6, <1>7, Alone, Facts

------------------------------------------------------------------------------
(* Failures.  An import that is cut short leaves the live database alone,  *)
(* or leaves rows of bundles that are not recorded.                        *)

LEMMA BrokenOrderly ==
  ASSUME OneAtATime, SInv, NEW t \in Tasks, task'[t] = Idle,
         UNCHANGED <<zip, db>>, broken'
  PROVE  Orderly'
  <1>1. Single(Idle)'
    BY DEF Single, Informed, ZipImported, Importing, Idle
  <1>2. Published'
    BY Facts DEF Published, Finished
  <1>3. QED
    BY <1>1, <1>2, Alone, Facts

(* Nobody takes the file from a refresh that is alone. *)
LEMMA SwapDoesNotFail ==
  ASSUME SInv, NEW t \in Tasks
  PROVE  ~SwapFails(t)
  BY Facts DEF SwapFails, Single, Swaps, Sound

LEMMA FailsOrderly ==
  ASSUME OneAtATime, SInv, NEW t \in Tasks, Fails(t)
  PROVE  Orderly'
  <1>1. CASE DownloadFails(t)
    BY <1>1, EndsOrderly DEF DownloadFails, Importing
  <1>2. CASE ImportFails(t)
    <2>1. task'[t] = Idle
      BY <1>2, Facts DEF ImportFails, Follow
    <2>2. QED
      BY <1>2, <2>1, BrokenOrderly DEF ImportFails
  <1>3. QED
    BY <1>1, <1>2 DEF Fails

LEMMA CrashOrderly ==
  ASSUME OneAtATime, SInv, Crash
  PROVE  Orderly'
  <1>1. PICK t \in Tasks : task[t].pc # "idle"
    BY DEF Crash
  <1>2. task'[t] = Idle /\ UNCHANGED <<zip, db, temp>>
    BY DEF Crash
  <1>3. CASE Importing(task[t])
    <2>1. broken'
      BY <1>3 DEF Crash, Importing
    <2>2. QED
      BY <1>2, <2>1, BrokenOrderly
  <1>4. CASE ~Importing(task[t])
    <2>1. broken' = broken
      <3>1. \A u \in Tasks : u = t
        BY DEF OneAtATime
      <3>2. \A u \in Tasks : task[u].pc \notin {"import", "rows", "swap"}
        BY <1>4, <3>1 DEF Importing
      <3>3. QED
        BY <3>2, Facts DEF Crash
    <2>2. Single(Idle)
      BY <1>4, IdleInformed, Outside DEF Idle
    <2>3. task' = [task EXCEPT ![t] = Idle]
      BY Facts DEF Crash, OneAtATime
    <2>4. QED
      BY <1>2, <2>1, <2>2, <2>3, FilesStay
  <1>5. QED
    BY <1>3, <1>4

------------------------------------------------------------------------------

LEMMA ProceedOrderly ==
  ASSUME OneAtATime, SInv, NEW t \in Tasks, Proceed(t)
  PROVE  Orderly'
  <1>1. CASE HeadStops(t)
    BY <1>1, EndsOrderly DEF HeadStops, Importing
  <1>2. CASE SwapFails(t)
    BY <1>2, SwapDoesNotFail
  <1>3. QED
    BY <1>1, <1>2, ReadMetaOrderly, ReadBundlesOrderly, HeadOrderly,
       ZipOrderly, FetchOrderly, OtherZipOrderly, UpdateZipMetaOrderly,
       NothingToImportOrderly, ConnectOrderly, SkipBundleOrderly,
       BeginBundleOrderly, EndBundleOrderly, RecordOrderly, SwapOrderly
       DEF Proceed

LEMMA OrderlyInductive == OneAtATime /\ SInv /\ [Next]_vars => SInv'
  <1> SUFFICES ASSUME OneAtATime, SInv, [Next]_vars
               PROVE  SInv'
    OBVIOUS
  <1>1. IInv'
    BY IInvInductive DEF SInv
  <1>2. CASE UNCHANGED <<zip, db, temp, task, broken>>
    <2>1. ASSUME NEW t \in Tasks
          PROVE  Single(task[t])'
      <3>1. PICK r : r = task[t]
        OBVIOUS
      <3>2. Single(r)
        BY <3>1, Facts
      <3>3. /\ UNCHANGED <<zip, broken>> /\ db' = db /\ temp' = temp
            /\ StoredSha' = StoredSha
        BY <1>2 DEF StoredSha
      <3>4. Fills(r) => Fills(r)'
        BY <3>3 DEF Fills, InTemp, InPlace, Filling
      <3>5. Swaps(r) => Swaps(r)'
        BY <3>3 DEF Swaps, Finished, OneRelease, NoRest
      <3>6. Single(r)'
        BY <3>2, <3>3, <3>4, <3>5
           DEF Single, Informed, ZipImported, Importing, NoRest
      <3>7. task'[t] = r
        BY <1>2, <3>1
      <3>8. QED
        BY <3>6, <3>7 DEF Single, Informed, ZipImported, Fills, Swaps, InTemp,
             InPlace, Filling, StoredSha, Importing
    <2>2. Published'
      BY <1>2 DEF SInv, Orderly, Published, Finished, OneRelease
    <2>3. QED
      BY <1>1, <2>1, <2>2 DEF SInv, Orderly
  <1>3. CASE Publish \/ Retag \/ \E m \in Modes : FlowReady(m) \/ FlowCreates(m)
    BY <1>2, <1>3 DEF Publish, Retag, FlowReady, FlowCreates
  <1>4. CASE UNCHANGED vars
    BY <1>2, <1>4 DEF vars
  <1>5. ASSUME NEW t \in Tasks, Call(t) \/ Proceed(t) \/ Fails(t)
        PROVE  SInv'
    BY <1>1, <1>5, CallOrderly, ProceedOrderly, FailsOrderly DEF SInv
  <1>6. CASE Crash
    BY <1>1, <1>6, CrashOrderly DEF SInv
  <1>7. QED
    BY <1>3, <1>4, <1>5, <1>6 DEF Next

LEMMA OrderlyAlways ==
  ASSUME OneAtATime
  PROVE  Spec => []SInv
  <1>1. Init => SInv
    <2> SUFFICES ASSUME Init
                 PROVE  SInv
      OBVIOUS
    <2>1. IInv
      <3>1. TypeOK
        <4>1. /\ 1 \in Releases /\ 1 \in Tags
              /\ 0 \in 0 .. MaxRelease /\ 0 \in 0 .. MaxFaults
          BY RefreshAssumption DEF Releases, Tags
        <4>2. QED
          BY <4>1, IdleType DEF Init, TypeOK
      <3>2. \A t \in Tasks : Sound(task[t])
        BY IdleIsSound DEF Init
      <3>3. ReadyHasRows
        BY DEF Init, ReadyHasRows
      <3>4. QED
        BY <3>1, <3>2, <3>3 DEF IInv
    <2>2. Single(Idle)
      BY DEF Init, Single, Informed, ZipImported, Importing, Idle, StoredSha
    <2>3. QED
      BY <2>1, <2>2 DEF SInv, Orderly, Init, Published
  <1>2. SInv /\ [Next]_vars => SInv'
    BY OrderlyInductive
  <1>3. QED
    BY <1>1, <1>2, PTL DEF Spec

(* Refreshes that follow one another, failures and crashes included, leave *)
(* every recorded bundle complete, and, unless an import was cut short,    *)
(* without rows of another release.                                        *)
THEOREM RecordedWhole ==
  ASSUME OneAtATime
  PROVE  Spec => []RecordedIsWhole
  <1>1. SInv => RecordedIsWhole
    BY DEF SInv, Orderly, Published, Finished, OneRelease, RecordedIsWhole
  <1>2. QED
    BY <1>1, OrderlyAlways, PTL

(* What readers find as gtfs.db is never an import still going on: the     *)
(* meta rows are written before the swap, and nothing else creates it.     *)
THEOREM PublishedFinished ==
  ASSUME OneAtATime
  PROVE  Spec => []PublishedIsFinished
  <1>1. SInv => PublishedIsFinished
    BY DEF SInv, Orderly, Published, Finished, PublishedIsFinished
  <1>2. QED
    BY <1>1, OrderlyAlways, PTL

(* The stored hash is that of every bundle, so the change detection        *)
(* compares the right thing.  An import that adds bundles to the live      *)
(* database reads the ZIP the others came from: only that keeps it true.   *)
THEOREM StampIsHonest ==
  ASSUME OneAtATime
  PROVE  Spec => []StampHonest
  <1>1. SInv => StampHonest
    BY DEF SInv, Orderly, Published, OneRelease, StampHonest
  <1>2. QED
    BY <1>1, OrderlyAlways, PTL

(* Between swaps, an import into the live database completes bundles that  *)
(* are not recorded.  What it puts in the place of rows of a recorded one  *)
(* comes from the ZIP that one was imported from, unless an import was cut *)
(* short.                                                                  *)
Undisturbed(c) ==
  /\ db'.whole[c] = db.whole[c]
  /\ ~broken => db'.rows[c] = db.rows[c]

LEMMA CommitDisturbsNobody ==
  ASSUME SInv, NEW t \in Tasks, NEW b \in Bundles,
         BeginBundle(t, b) \/ EndBundle(t, b),
         NEW c \in Keyed(db)
  PROVE  Undisturbed(c)
  <1>1. task[t].pc = "rows" /\ db # NoFile /\ c \in Bundles /\ db.key[c] # 0
    BY DEF BeginBundle, EndBundle, Keyed
  <1>2. /\ Fills(task[t]) /\ Filling(task[t], Target(t)) /\ db \in Content
        /\ ZipImported(task[t]) /\ Published /\ task[t].src \in Releases
    BY <1>1, TargetFacts, Facts DEF Single
  <1>3. b \in task[t].todo
    BY <1>2 DEF BeginBundle, EndBundle, Fills
  <1>4. CASE task[t].swap
    BY <1>2, <1>4 DEF Fills, InTemp, BeginBundle, EndBundle, Store, Undisturbed
  <1>5. CASE ~task[t].swap
    <2>1. Target(t) = db /\ task[t].conn = "db"
      BY <1>1, <1>2, <1>5, TargetFacts DEF Fills, InPlace
    <2>2. c \in Bundles \ {b}
      BY <1>1, <1>2, <1>3, <2>1 DEF Filling
    <2>3. CASE BeginBundle(t, b)
      <3>1. db' = Inserted(db, b, task[t].src)
        BY <2>1, <2>3 DEF BeginBundle, Store
      <3>2. /\ db'.whole[c] = db.whole[c]
            /\ \/ db'.rows[c] = db.rows[c]
               \/ /\ db.rows[c] # {}
                  /\ db'.rows[c] = db.rows[c] \cup {task[t].src}
        BY <1>2, <2>2, <3>1, InsertedFacts
      <3>3. ASSUME ~broken
            PROVE  db.rows[c] \in {{task[t].src}, {}}
        <4>1. task[t].src = db.sha
          BY <1>1, <1>2, <1>5, <3>3 DEF Fills, InPlace, ZipImported, Importing
        <4>2. QED
          BY <1>1, <1>2, <3>3, <4>1 DEF Published, OneRelease
      <3>4. QED
        BY <3>2, <3>3 DEF Undisturbed
    <2>4. CASE EndBundle(t, b)
      <3>1. db' = [db EXCEPT !.whole[b] = task[t].src]
        BY <2>1, <2>4 DEF EndBundle, Store
      <3>2. /\ db'.rows = db.rows
            /\ db'.whole = [db.whole EXCEPT ![b] = task[t].src]
        BY <1>2, <3>1 DEF Content
      <3>3. QED
        BY <1>2, <2>2, <3>2 DEF Content, Undisturbed
    <2>5. QED
      BY <2>3, <2>4
  <1>6. QED
    BY <1>4, <1>5

LEMMA StepDisturbsNobody ==
  ASSUME SInv, [Next]_vars, \A t \in Tasks : ~Swap(t), NEW c \in Keyed(db)
  PROVE  Undisturbed(c)
  <1>1. db \in Content
    BY Facts DEF Keyed, SInv, IInv, TypeOK
  <1>2. CASE db' = db
    BY <1>2 DEF Undisturbed
  <1>3. ASSUME NEW t \in Tasks, NEW works \in BOOLEAN, UpdateZipMeta(t, works)
        PROVE  Undisturbed(c)
    BY <1>1, <1>3 DEF UpdateZipMeta, Content, Undisturbed
  <1>4. ASSUME NEW t \in Tasks, Record(t)
        PROVE  Undisturbed(c)
    <2>1. CASE task[t].conn = "db"
      <3>1. db' = Stamped(t, db)
        BY <1>4, <2>1 DEF Record, Store, Target
      <3>2. QED
        BY <1>1, <3>1 DEF Stamped, Content, Undisturbed
    <2>2. CASE task[t].conn # "db"
      BY <1>4, <2>2 DEF Record, Store, Undisturbed
    <2>3. QED
      BY <2>1, <2>2
  <1>5. ASSUME NEW t \in Tasks, NEW b \in Bundles,
               BeginBundle(t, b) \/ EndBundle(t, b)
        PROVE  Undisturbed(c)
    BY <1>5, CommitDisturbsNobody
  <1>6. \/ db' = db
        \/ \E t \in Tasks : \/ \E works \in BOOLEAN : UpdateZipMeta(t, works)
                            \/ Record(t)
                            \/ \E b \in Bundles : BeginBundle(t, b) \/ EndBundle(t, b)
    <2>1. CASE UNCHANGED vars
      BY <2>1 DEF vars
    <2>2. CASE Publish \/ Retag \/ Crash
               \/ \E m \in Modes : FlowReady(m) \/ FlowCreates(m)
      BY <2>2 DEF Publish, Retag, Crash, FlowReady, FlowCreates
    <2>3. ASSUME NEW t \in Tasks, Call(t) \/ Fails(t)
          PROVE  db' = db
      BY <2>3 DEF Call, RefreshAll, SetupWatch, FlowDownloads, Start,
                  Fails, DownloadFails, ImportFails
    <2>4. ASSUME NEW t \in Tasks, Proceed(t)
          PROVE  \/ db' = db
                 \/ \E works \in BOOLEAN : UpdateZipMeta(t, works)
                 \/ Record(t)
                 \/ \E b \in Bundles : BeginBundle(t, b) \/ EndBundle(t, b)
      BY <2>4 DEF Proceed, ReadMeta, ReadBundles, HeadStops, HeadGoesOn, UseZip,
           Fetch, SameZip, OtherZip, WriteZip, NothingToImport, Connect,
           SkipBundle, SwapFails
    <2>5. QED
      BY <2>1, <2>2, <2>3, <2>4 DEF Next
  <1>7. QED
    BY <1>2, <1>3, <1>4, <1>5, <1>6

(* Between two swaps no recorded bundle stops being whole, though bundles  *)
(* are added to the database that readers have open; and of the keys that  *)
(* bundles share, no row is replaced by one of another release, unless an  *)
(* import was cut short.                                                   *)
THEOREM ReadersNotDisturbed ==
  ASSUME OneAtATime
  PROVE  Spec => ReadersUndisturbed
  <1>1. SInv /\ [Next]_vars =>
          [\/ \E t \in Tasks : Swap(t)
           \/ \A b \in Keyed(db) :
                /\ db'.whole[b] = db.whole[b]
                /\ ~broken => db'.rows[b] = db.rows[b]]_vars
    BY StepDisturbsNobody DEF Undisturbed
  <1>2. QED
    BY <1>1, OrderlyAlways, PTL DEF Spec, ReadersUndisturbed
==============================================================================
