----------------------------- MODULE GtfsRefresh -----------------------------
(***************************************************************************)
(* The static-schedule pipeline: async_trigger_gtfs_refresh                *)
(* (__init__.py), download_zip and check_for_remote_changes                *)
(* (gtfs/downloader.py) and import_mode_bundles (gtfs/importer.py), run by *)
(* any number of refresh tasks at once over one data directory.            *)
(*                                                                         *)
(* A step of a task is the code between two awaits, or one executor job;   *)
(* an import, which runs minutes in a thread, is cut at its commits.  A    *)
(* release of the schedule is a number, and stands for its SHA-256; a tag  *)
(* stands for the pair ETag, Content-Length; 0 is "none".                  *)
(*                                                                         *)
(* The disk holds gtfs.zip, gtfs.db and gtfs.importing.db.  A connection   *)
(* follows its file, not its name: `conn` says under which name the file a *)
(* task writes is found at the moment, and "lost" once it has none.        *)
(***************************************************************************)
EXTENDS Integers, FiniteSets

CONSTANTS
  Tasks,        \* refresh tasks that may be running at the same time
  Modes,        \* transport modes
  ModeBundles,  \* const.MODE_BUNDLE_MAP: the bundle folders of a mode
  MaxRelease,   \* bound: how many releases the server publishes
  Folders,      \* the bundle folders each release of the ZIP really holds
  Shares,       \* per bundle, those its files may have keys in common with
  MaxTag,       \* bound: how many tags the server hands out
  MaxFaults,    \* bound: failed requests, failed imports and crashes
  NoFile        \* what is found under a name that no file has

Bundles == UNION {ModeBundles[m] : m \in Modes}
Releases == 1 .. MaxRelease
Tags == 1 .. MaxTag

(* A database file.  `key` stands for the bundle_<folder> rows of          *)
(* import_meta: the code stores the time of the import there, the model    *)
(* the release that import read.  `rows` are the releases a bundle's rows  *)
(* come from, `whole` the release it was last imported in full from.       *)
(* stops, routes, trips and calendar are keyed without the bundle, so that *)
(* an import may replace rows of others (Shares); within one release, rows *)
(* of the same key are taken to say the same.                              *)
Content == [sha   : 0 .. MaxRelease,
            tag   : 0 .. MaxTag,
            key   : [Bundles -> 0 .. MaxRelease],
            rows  : [Bundles -> SUBSET Releases],
            whole : [Bundles -> 0 .. MaxRelease]]

ASSUME RefreshAssumption ==
  /\ ModeBundles \in [Modes -> SUBSET UNION {ModeBundles[m] : m \in Modes}]
  /\ MaxRelease \in Nat \ {0}
  /\ MaxTag \in Nat \ {0}
  /\ MaxFaults \in Nat
  /\ Folders \in [Releases -> SUBSET Bundles]
  /\ Shares \in [Bundles -> SUBSET Bundles]
  /\ NoFile \notin Content

VARIABLES
  server,   \* the published release and its tag
  zip,      \* the release in gtfs.zip
  db,       \* gtfs.db
  temp,     \* gtfs.importing.db
  entries,  \* modes that have a config entry (a watch)
  flows,    \* modes whose config flow is past its import step
  task,     \* per task: where it is and what it holds
  faults,   \* requests and imports that failed, and crashes
  broken    \* history: an import was cut short after its ZIP was in place

vars == <<server, zip, db, temp, entries, flows, task, faults, broken>>

Idle == [pc      |-> "idle",  \* which step comes next
         want    |-> {},      \* bundle_folders
         skip    |-> FALSE,   \* skip_download_if_exists
         sha0    |-> 0,       \* stored_sha256
         tag0    |-> 0,       \* stored_etag, stored_size
         present |-> FALSE,   \* all_bundles_present
         body    |-> 0,       \* sha256 (and the bytes) of the download
         tag     |-> 0,       \* etag, content_length
         force   |-> FALSE,   \* force
         swap    |-> FALSE,   \* use_temp
         conn    |-> "none",  \* the file being written
         src     |-> 0,       \* the release in the ZIP the import opened
         todo    |-> {},      \* to_import
         rest    |-> {},      \* those of to_import still to come
         half    |-> {}]      \* the one being imported

Blank == [sha   |-> 0,
          tag   |-> 0,
          key   |-> [b \in Bundles |-> 0],
          rows  |-> [b \in Bundles |-> {}],
          whole |-> [b \in Bundles |-> 0]]

Init ==
  /\ server = [rel |-> 1, tag |-> 1]
  /\ zip = 0
  /\ db = NoFile
  /\ temp = NoFile
  /\ entries = {}
  /\ flows = {}
  /\ task = [t \in Tasks |-> Idle]
  /\ faults = 0
  /\ broken = FALSE

------------------------------------------------------------------------------
(* The files as the readers see them.                                      *)

KeyedByRows(file) ==
  IF file = NoFile THEN {} ELSE {b \in Bundles : file.rows[b] # {}}

(* importer.get_imported_bundles. *)
Keyed(file) ==
  IF file = NoFile THEN {} ELSE {b \in Bundles : file.key[b] # 0}

(* repository.is_mode_ready. *)
ModeReady(m) == ModeBundles[m] \subseteq Keyed(db)

(* __init__._bundles_for_all_entries. *)
EntryBundles == UNION {ModeBundles[m] : m \in entries}

(* A write of task t through its connection. *)
Target(t) ==
  CASE task[t].conn = "db" -> db
    [] task[t].conn = "temp" -> temp
    [] OTHER -> Blank

Store(t, file) ==
  /\ db' = IF task[t].conn = "db" THEN file ELSE db
  /\ temp' = IF task[t].conn = "temp" THEN file ELSE temp

(* The other tasks, when the names in the directory change hands.          *)
Follow(name) ==
  [t \in Tasks |-> IF task[t].conn \in DOMAIN name
                   THEN [task[t] EXCEPT !.conn = name[@]] ELSE task[t]]

Unlinked == [temp |-> "lost"]
Replaced == [temp |-> "db", db |-> "lost"]

------------------------------------------------------------------------------
(* The world around: the publisher and the config flows.                   *)

Publish ==
  /\ server.rel < MaxRelease /\ server.tag < MaxTag
  /\ server' = [rel |-> server.rel + 1, tag |-> server.tag + 1]
  /\ UNCHANGED <<zip, db, temp, entries, flows, task, faults, broken>>

(* The same bytes, uploaded again. *)
Retag ==
  /\ server.tag < MaxTag
  /\ server' = [server EXCEPT !.tag = @ + 1]
  /\ UNCHANGED <<zip, db, temp, entries, flows, task, faults, broken>>

(* A config flow sees its mode imported and goes on to the stop search...  *)
(* (One for a mode that has an entry already changes nothing here.)        *)
FlowReady(m) ==
  /\ m \notin entries \cup flows
  /\ ModeReady(m)
  /\ flows' = flows \cup {m}
  /\ UNCHANGED <<server, zip, db, temp, entries, task, faults, broken>>

(* ...and creates its entry in the end, without looking again. *)
FlowCreates(m) ==
  /\ m \in flows
  /\ flows' = flows \ {m}
  /\ entries' = entries \cup {m}
  /\ UNCHANGED <<server, zip, db, temp, task, faults, broken>>

------------------------------------------------------------------------------
(* async_trigger_gtfs_refresh is called.                                   *)

Start(t, want, skip) ==
  /\ task[t].pc = "idle"
  /\ want # {}
  /\ task' = [task EXCEPT ![t] = [Idle EXCEPT !.pc = "meta", !.want = want,
                                              !.skip = skip]]
  /\ UNCHANGED <<server, zip, db, temp, entries, flows, faults, broken>>

(* The user step of a config flow.  (The weekly timer of an entry, which   *)
(* is to call this, too, runs its lambda in an executor thread, where      *)
(* hass.async_create_task raises: it starts nothing.)                      *)
RefreshAll(t) == Start(t, EntryBundles, FALSE)

(* _async_setup_watch, when the mode's bundles are not ready. *)
SetupWatch(t, m) ==
  /\ m \in entries
  /\ ~ModeReady(m)
  /\ Start(t, ModeBundles[m], FALSE)

(* The downloading step of a config flow. *)
FlowDownloads(t, m) ==
  /\ ~ModeReady(m)
  /\ Start(t, ModeBundles[m], zip # 0)

------------------------------------------------------------------------------
(* Stage 1: is there anything to download?                                 *)

ReadMeta(t) ==
  /\ task[t].pc = "meta"
  /\ task' = [task EXCEPT ![t].pc = "bundles",
                          ![t].sha0 = IF db = NoFile THEN 0 ELSE db.sha,
                          ![t].tag0 = IF db = NoFile THEN 0 ELSE db.tag]
  /\ UNCHANGED <<server, zip, db, temp, entries, flows, faults, broken>>

ReadBundles(t) ==
  /\ task[t].pc = "bundles"
  /\ task' = [task EXCEPT ![t].pc = IF task[t].skip THEN "get" ELSE "head",
                          ![t].present = task[t].want \subseteq Keyed(db)]
  /\ UNCHANGED <<server, zip, db, temp, entries, flows, faults, broken>>

HeadUnchangedIfStored(t) == task[t].tag0 # 0

(* check_for_remote_changes answers False. *)
HeadUnchanged(t) == task[t].tag0 # 0 /\ server.tag = task[t].tag0

HeadStops(t) ==
  /\ task[t].pc = "head"
  /\ HeadUnchanged(t)
  /\ task[t].present
  /\ task' = [task EXCEPT ![t] = Idle]
  /\ UNCHANGED <<server, zip, db, temp, entries, flows, faults, broken>>

(* It answers True (a failed HEAD request counts as "changed"), or bundles *)
(* are missing.                                                            *)
HeadGoesOn(t, failed) ==
  /\ task[t].pc = "head"
  /\ failed \/ ~HeadUnchanged(t) \/ ~task[t].present
  /\ task' = [task EXCEPT ![t].pc = "get"]
  /\ UNCHANGED <<server, zip, db, temp, entries, flows, faults, broken>>

------------------------------------------------------------------------------
(* Stage 2: download_zip, and what is decided from its result.             *)

ZipChangedIfPresent(t, changed, sha) == changed /\ task[t].present
(* zip_changed. *)
ZipChanged(t, changed, sha) == changed /\ task[t].sha0 # sha

(* Nothing new and nothing missing: note a new tag at most.  Otherwise     *)
(* import, from scratch if a ZIP was written whose hash is not the stored  *)
(* one.                                                                    *)
Decide(t, changed, sha, tag) ==
  LET d == task[t]
      nothing == ~changed /\ d.sha0 = sha /\ d.present
  IN task' = [task EXCEPT ![t] =
       CASE nothing /\ tag \in {0, d.tag0} -> Idle
         [] nothing /\ tag \notin {0, d.tag0} ->
              [d EXCEPT !.pc = "retag", !.tag = tag]
         [] OTHER ->
              [d EXCEPT !.pc = "import", !.body = sha, !.tag = tag,
                        !.force = ZipChanged(t, changed, sha)]]

UseZipTagless(t) ==
  /\ task[t].pc = "get"
  /\ task[t].skip /\ zip # 0
  /\ Decide(t, FALSE, zip, NoFile)
  /\ UNCHANGED <<server, zip, db, temp, entries, flows, faults, broken>>

(* skip_if_exists and the ZIP is there: hash it. *)
UseZip(t) ==
  /\ task[t].pc = "get"
  /\ task[t].skip /\ zip # 0
  /\ Decide(t, FALSE, zip, 0)
  /\ UNCHANGED <<server, zip, db, temp, entries, flows, faults, broken>>

Fetch(t) ==
  /\ task[t].pc = "get"
  /\ ~(task[t].skip /\ zip # 0)
  /\ task' = [task EXCEPT ![t].pc = "compare",
                          ![t].body = server.rel, ![t].tag = server.tag]
  /\ UNCHANGED <<server, zip, db, temp, entries, flows, faults, broken>>

(* The download equals the file on disk. *)
SameZip(t) ==
  /\ task[t].pc = "compare"
  /\ zip = task[t].body
  /\ Decide(t, FALSE, task[t].body, task[t].tag)
  /\ UNCHANGED <<server, zip, db, temp, entries, flows, faults, broken>>

OtherZip(t) ==
  /\ task[t].pc = "compare"
  /\ zip # task[t].body
  /\ task' = [task EXCEPT ![t].pc = "write"]
  /\ UNCHANGED <<server, zip, db, temp, entries, flows, faults, broken>>

(* _write_and_replace. *)
WriteZip(t) ==
  /\ task[t].pc = "write"
  /\ zip' = task[t].body
  /\ Decide(t, TRUE, task[t].body, task[t].tag)
  /\ UNCHANGED <<server, db, temp, entries, flows, faults, broken>>

(* The request or the write fails: logged, and the refresh is over. *)
DownloadFails(t) ==
  /\ faults < MaxFaults
  /\ task[t].pc \in {"get", "write"}
  /\ task' = [task EXCEPT ![t] = Idle]
  /\ faults' = faults + 1
  /\ UNCHANGED <<server, zip, db, temp, entries, flows, broken>>

(* _update_zip_meta; a failure here is swallowed. *)
UpdateZipMeta(t, works) ==
  /\ task[t].pc = "retag"
  /\ db' = IF works /\ db # NoFile
           THEN [db EXCEPT !.tag = task[t].tag] ELSE db
  /\ task' = [task EXCEPT ![t] = Idle]
  /\ UNCHANGED <<server, zip, temp, entries, flows, faults, broken>>

------------------------------------------------------------------------------
(* import_mode_bundles, in its executor thread.                            *)

(* What is left to import, and into which file.                            *)
ToImport(t) ==
  IF task[t].force THEN task[t].want ELSE task[t].want \ Keyed(db)

UseTempIfNew(t) == db = NoFile
UseTemp(t) == db = NoFile \/ task[t].force

NothingToImport(t) ==
  /\ task[t].pc = "import"
  /\ ToImport(t) = {}
  /\ task' = [task EXCEPT ![t] = Idle]
  /\ UNCHANGED <<server, zip, db, temp, entries, flows, faults, broken>>

(* Unlink a temporary file that is in the way, connect, open the ZIP.      *)
Connect(t) ==
  /\ task[t].pc = "import"
  /\ ToImport(t) # {}
  /\ LET mine == [task[t] EXCEPT !.pc = "rows", !.swap = UseTemp(t),
                                 !.conn = IF UseTemp(t) THEN "temp" ELSE "db",
                                 !.src = zip,
                                 !.todo = ToImport(t), !.rest = ToImport(t)]
     IN IF UseTemp(t)
        THEN temp' = Blank /\ task' = [Follow(Unlinked) EXCEPT ![t] = mine]
        ELSE temp' = temp /\ task' = [task EXCEPT ![t] = mine]
  /\ UNCHANGED <<server, zip, db, entries, flows, faults, broken>>

(* The ZIP has no such folder: a warning, and on to the next. *)
SkipBundle(t, b) ==
  /\ task[t].pc = "rows" /\ task[t].half = {}
  /\ b \in task[t].rest
  /\ b \notin Folders[task[t].src]
  /\ task' = [task EXCEPT ![t].rest = @ \ {b}]
  /\ UNCHANGED <<server, zip, db, temp, entries, flows, faults, broken>>

(* Some of a bundle's files are in. *)
Inserted(file, b, src) ==
  [file EXCEPT
     !.rows = [c \in Bundles |-> IF c = b \/ (c \in Shares[b] /\ @[c] # {})
                                THEN @[c] \cup {src} ELSE @[c]],
     !.whole[b] = 0]

(* INSERT OR REPLACE, each file with a commit of its own... *)
BeginBundle(t, b) ==
  /\ task[t].pc = "rows" /\ task[t].half = {}
  /\ b \in task[t].rest
  /\ b \in Folders[task[t].src]
  /\ Store(t, Inserted(Target(t), b, task[t].src))
  /\ task' = [task EXCEPT ![t].rest = @ \ {b}, ![t].half = {b}]
  /\ UNCHANGED <<server, zip, entries, flows, faults, broken>>

(* ...and now all of them. *)
EndBundle(t, b) ==
  /\ task[t].pc = "rows"
  /\ b \in task[t].half
  /\ LET file == Target(t)
     IN Store(t, [file EXCEPT !.whole[b] = task[t].src])
  /\ task' = [task EXCEPT ![t].half = {}]
  /\ UNCHANGED <<server, zip, entries, flows, faults, broken>>

(* The file once import_meta has its rows. *)
Stamped(t, file) ==
  [file EXCEPT !.sha = task[t].body,
               !.tag = IF task[t].tag # 0 THEN task[t].tag ELSE @,
               !.key = [b \in Bundles |->
                          IF b \in task[t].todo THEN task[t].src ELSE @[b]]]

RecordMidBundle(t) ==
  /\ task[t].pc = "rows"
  /\ task[t].rest = {}
  /\ Store(t, Stamped(t, Target(t)))
  /\ task' = [task EXCEPT ![t] = IF @.swap THEN [@ EXCEPT !.pc = "swap"]
                                           ELSE Idle]
  /\ UNCHANGED <<server, zip, entries, flows, faults, broken>>

RecordMidLoop(t) ==
  /\ task[t].pc = "rows"
  /\ task[t].half = {}
  /\ Store(t, Stamped(t, Target(t)))
  /\ task' = [task EXCEPT ![t] = IF @.swap THEN [@ EXCEPT !.pc = "swap"]
                                           ELSE Idle]
  /\ UNCHANGED <<server, zip, entries, flows, faults, broken>>

(* The import_meta rows are written and committed, the connection closed. *)
Record(t) ==
  /\ task[t].pc = "rows"
  /\ task[t].rest = {} /\ task[t].half = {}
  /\ Store(t, Stamped(t, Target(t)))
  /\ task' = [task EXCEPT ![t] = IF @.swap THEN [@ EXCEPT !.pc = "swap"]
                                           ELSE Idle]
  /\ UNCHANGED <<server, zip, entries, flows, faults, broken>>

(* os.replace: whatever file has the temporary name becomes gtfs.db. *)
Swap(t) ==
  /\ task[t].pc = "swap"
  /\ temp # NoFile
  /\ db' = temp
  /\ temp' = NoFile
  /\ task' = [Follow(Replaced) EXCEPT ![t] = Idle]
  /\ UNCHANGED <<server, zip, entries, flows, faults, broken>>

(* ...unless another task took it: FileNotFoundError, logged. *)
SwapFails(t) ==
  /\ task[t].pc = "swap"
  /\ temp = NoFile
  /\ task' = [task EXCEPT ![t] = Idle]
  /\ broken' = TRUE
  /\ UNCHANGED <<server, zip, db, temp, entries, flows, faults>>

ImportFailsSwapping(t) ==
  /\ faults < MaxFaults
  /\ task[t].pc = "rows"
  /\ IF task[t].swap
     THEN /\ db' = temp /\ temp' = NoFile
          /\ task' = [Follow(Replaced) EXCEPT ![t] = Idle]
     ELSE /\ task' = [task EXCEPT ![t] = Idle]
          /\ UNCHANGED <<db, temp>>
  /\ faults' = faults + 1
  /\ broken' = TRUE
  /\ UNCHANGED <<server, zip, entries, flows>>

(* An exception in the import: close, unlink the temporary name, log. *)
ImportFails(t) ==
  /\ faults < MaxFaults
  /\ task[t].pc = "rows"
  /\ IF task[t].swap
     THEN temp' = NoFile /\ task' = [Follow(Unlinked) EXCEPT ![t] = Idle]
     ELSE temp' = temp /\ task' = [task EXCEPT ![t] = Idle]
  /\ faults' = faults + 1
  /\ broken' = TRUE
  /\ UNCHANGED <<server, zip, db, entries, flows>>

(* Home Assistant stops: the tasks are gone, what was committed stays.     *)
Crash ==
  /\ faults < MaxFaults
  /\ \E t \in Tasks : task[t].pc # "idle"
  /\ task' = [t \in Tasks |-> Idle]
  /\ flows' = {}
  /\ faults' = faults + 1
  /\ broken' = (broken \/ \E t \in Tasks :
                            task[t].pc \in {"import", "rows", "swap"})
  /\ UNCHANGED <<server, zip, db, temp, entries>>

------------------------------------------------------------------------------

Call(t) ==
  \/ RefreshAll(t)
  \/ \E m \in Modes : SetupWatch(t, m) \/ FlowDownloads(t, m)

(* What a running refresh does next. *)
Proceed(t) ==
  \/ ReadMeta(t) \/ ReadBundles(t)
  \/ HeadStops(t) \/ \E failed \in BOOLEAN : HeadGoesOn(t, failed)
  \/ UseZip(t) \/ Fetch(t) \/ SameZip(t) \/ OtherZip(t) \/ WriteZip(t)
  \/ \E works \in BOOLEAN : UpdateZipMeta(t, works)
  \/ NothingToImport(t) \/ Connect(t)
  \/ \E b \in Bundles : SkipBundle(t, b) \/ BeginBundle(t, b) \/ EndBundle(t, b)
  \/ Record(t) \/ Swap(t) \/ SwapFails(t)

Fails(t) == DownloadFails(t) \/ ImportFails(t)

Next ==
  \/ Publish \/ Retag
  \/ \E m \in Modes : FlowReady(m) \/ FlowCreates(m)
  \/ \E t \in Tasks : Call(t) \/ Proceed(t) \/ Fails(t)
  \/ Crash

Spec == Init /\ [][Next]_vars

(* A started refresh goes on.  Nothing makes anybody start one. *)
Fairness == \A t \in Tasks : WF_vars(Proceed(t))

FairSpec == Spec /\ Fairness

------------------------------------------------------------------------------

TaskType == [pc      : {"idle", "meta", "bundles", "head", "get", "compare",
                        "write", "retag", "import", "rows", "swap"},
             want    : SUBSET Bundles,
             skip    : BOOLEAN,
             sha0    : 0 .. MaxRelease,
             tag0    : 0 .. MaxTag,
             present : BOOLEAN,
             body    : 0 .. MaxRelease,
             tag     : 0 .. MaxTag,
             force   : BOOLEAN,
             swap    : BOOLEAN,
             conn    : {"none", "db", "temp", "lost"},
             src     : 0 .. MaxRelease,
             todo    : SUBSET Bundles,
             rest    : SUBSET Bundles,
             half    : SUBSET Bundles]

TypeOK ==
  /\ server \in [rel : Releases, tag : Tags]
  /\ zip \in 0 .. MaxRelease
  /\ db \in Content \cup {NoFile}
  /\ temp \in Content \cup {NoFile}
  /\ entries \subseteq Modes
  /\ flows \subseteq Modes
  /\ task \in [Tasks -> TaskType]
  /\ faults \in 0 .. MaxFaults
  /\ broken \in BOOLEAN

(* is_mode_ready never answers True over tables the import of that bundle  *)
(* has not filled: a bundle's key is only in a file that has its rows,     *)
(* however many imports run, fail or are cut off.  (A folder the ZIP does  *)
(* not hold is recorded as imported all the same: the code warns and goes  *)
(* on.)                                                                    *)
HasRows(file, b) ==
  file.key[b] \in Releases /\ b \in Folders[file.key[b]]
    => file.key[b] \in file.rows[b]

ReadyHasRows ==
  \A file \in {db, temp} \ {NoFile} : \A b \in Bundles : HasRows(file, b)

(* With one refresh at a time, a recorded bundle is all there, from the    *)
(* one release it was recorded for, unless an import was cut short.        *)
RecordedIsWhole ==
  db # NoFile =>
    \A b \in Bundles :
      db.key[b] # 0 /\ b \in Folders[db.key[b]] =>
        /\ db.whole[b] = db.key[b]
        /\ ~broken => db.rows[b] = {db.key[b]}

(* importer.py:7-8 and 354-356: an import goes to a temporary file that is *)
(* swapped into place, so what readers find as gtfs.db is never an import  *)
(* still going on.  A finished import has its meta rows.                   *)
PublishedIsFinished == db # NoFile => db.sha # 0

(* Between swaps readers are not disturbed: an import into the live        *)
(* database does not touch the rows of a recorded bundle, but for those of *)
(* the same keys, which it may replace by its own (importer.py:241, 281).  *)
(* Unless an import was cut short, these are of the release they were of   *)
(* already; after that, readers may see two releases mixed.                *)
ReadersUndisturbed ==
  [][\/ \E t \in Tasks : Swap(t)
     \/ \A b \in Keyed(db) :
          /\ db'.whole[b] = db.whole[b]
          /\ ~broken => db'.rows[b] = db.rows[b]]_vars

(* As long as no import was cut short, the stored hash is that of every    *)
(* bundle in the database: the change detection compares the right thing.  *)
StampHonest ==
  ~broken /\ db # NoFile => \A b \in Bundles : db.key[b] \in {0, db.sha}

(* Somebody opens a config flow again and again, while there are entries.  *)
Asked == []<><<\E t \in Tasks : RefreshAll(t)>>_vars

(* If refreshes keep being asked for, every entry's bundles end up, and    *)
(* stay, imported from the release the server ends up with: the two stages *)
(* of the change detection never settle for an older one, unless an import *)
(* was cut short.                                                          *)
EntriesCurrent ==
  \A b \in EntryBundles : db # NoFile /\ db.key[b] = server.rel

CatchesUp == Asked => <>broken \/ <>[]EntriesCurrent

(* Two refreshes at once can publish each other's unfinished file.  It     *)
(* does not stay: without a failure the import that goes on in the file    *)
(* finishes it under its new name, and if that import fails or is cut off, *)
(* refreshes that are asked for do.                                        *)
Heals == [](faults = 0) \/ Asked => []<>PublishedIsFinished

(* __init__.py:84-85: "When the ZIP changes, all bundles are re-imported". *)
(* A refresh does not take away a bundle that an entry queries.            *)
EntriesKeepBundles ==
  [][\A b \in EntryBundles \cap Keyed(db) : b \in Keyed(db')]_vars
==============================================================================
