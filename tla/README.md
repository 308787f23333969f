# Transport Victoria: TLA+ models and proofs

A verification development for `custom_components/transport_victoria`, the Home
Assistant integration for Public Transport Victoria. All paths below are
relative to that directory unless they start with `src/`.

## 1. The system

Everything runs on Home Assistant's asyncio loop, with SQLite, file and
protobuf work in executor threads. A coroutine can be interleaved with others
at each `await`; an executor job runs in parallel with the loop and with other
jobs.

| Part | State | Operations | Hard behaviour | What makes it correct |
|---|---|---|---|---|
| Rate limiter (`rate_limiter.py`) | tokens, time of last refill, a lock | `acquire` | callers interleave at the sleep, are cancelled in it, wake late | grants in any stretch of time are bounded; nobody sleeps too long; the budget flows |
| Schedule refresh (`__init__.py`, `gtfs/downloader.py`, `gtfs/importer.py`) | `gtfs.zip`, `gtfs.db`, `gtfs.importing.db`, `import_meta` | HEAD check, download, import, swap; started by config flows and an entry's setup (and meant to be by a weekly timer, see below) | several refreshes at once over the same files, failures, crashes between commits | what is recorded is there; what is published is finished; change detection never misses a release it is asked about |
| Feed cache and client (`realtime/client.py`) | `_FEED_CACHE`, requests in flight | `fetch_feed` | lookup, request and store are separated by awaits | hits are as fresh as the TTL says |
| Watch coordinator (`coordinator.py`) | backoff, deadline, last error, config | the update cycle | several outcomes per cycle, HTTP 429, 401, timeouts, options changed meanwhile | backoff coherent and visible, polling goes on |
| Import filter (`gtfs/importer.py`) | which trips `gtfs.db` keeps | `_compute_valid_trip_ids` | the window moves only with an import | nothing is left out that is asked for |
| Departure queries (`gtfs/repository.py`, `gtfs/time_utils.py`) | none (reads `gtfs.db`) | `next_departures`, `get_arrival_at_stop` and searches | times past 24:00, two service days, limits before filters, the file replaced between statements | the next departures of each service day, to the destination |
| Journeys (`coordinator.py`, `routing/path_finder.py`) | none | pairing of two legs over a transfer | a delayed first leg, awaits between the legs | a connection can be caught, and is the next one |
| Config entry lifecycle (`__init__.py`) | timers, listeners, runtime data per entry | setup, retry, options, reload, unload | a setup that fails half-way and is retried; options that change meanwhile | what was registered is released; options arrive |
| Config flow (`config_flow.py`) | the flow's answers, a background task | some twenty steps | waits for an import that may fail; the database changes between forms; entries go away | what it creates was true of a schedule it saw; waiting ends when the bundles are there |
| Trackers (`device_tracker.py`) | the parent's coordinator, known trips, entities | poll positions, add entities | set up before, reloaded after the watch they follow | follow the board; one entity for each trip |
| Parsers, sensors, constants | none | projections | none | |

Interactions: a config flow and the entries start refreshes and poll
`is_mode_ready`; each watch's coordinator calls the shared limiter before each
`fetch_feed`, shares the feed cache with the other watches, and queries
`gtfs.db`, which a refresh may replace at any time; trackers read their
parent's coordinator.

The hazards, each with its line and the property that covers it or the reason
why none does, are listed in `PROJECT.json`.

## 2. Modules

| Module | Models | Checked by | Proved in |
|---|---|---|---|
| `TokenBucket` | what the limiter promises, without its mechanism | through `RateLimiter` | `TokenBucketProofs` |
| `RateLimiter` | `AsyncRateLimiter`, refines `TokenBucket` | `MCRateLimiter` | `RateLimiterProofs` |
| `GtfsRefresh` | the schedule refresh, with the config flows and entries that start it | `MCGtfsRefresh` | `GtfsRefreshProofs`, `SingleRefreshProofs` |
| `FeedCache` | `fetch_feed` and `_FEED_CACHE` | through `Watches` | `WatchesProofs` |
| `Watches` | the update cycles of the coordinators, composed with `FeedCache` | `MCWatches` | `WatchesProofs` |
| `ConfigFlow` | `PTVConfigFlow` and the searches it makes, between refreshes and removals | `MCConfigFlow` | `ConfigFlowProofs` |
| `Timetable` | the schedule in `gtfs.db`: import filter, service days, the SQL of departures | through `Departures` | `DeparturesProofs` |
| `Departures` | how a board comes about over `Timetable`, statement by statement, while imports replace it | `MCDepartures` | `DeparturesProofs` |
| `EntryLifecycle` | the config entries of all three kinds in memory, from setup to removal, and the trackers' polls | `MCEntryLifecycle` | `EntryLifecycleProofs` |

Operators named after another with a suffix, such as `CheckKeepsStamp` beside
`Check`, are variants with one plausible mistake. No specification uses them;
they are there to confirm that each property can tell the difference.

### RateLimiter

`tokens` is `_tokens` counted in the ticks that earn it, `elapsed` the time
since `_last_refill`, `left` what remains of a sleeper's `wait_seconds`.
`Check` is one pass of the `while` loop, `Take` when it returns and `Sleep`
when it goes to sleep; `Call`, `Wake` and `Cancel` are a call, the end of a
sleep and a cancellation in it. `wcount` and `wlen` belong to an observer that
starts to count grants at any moment (`OpenWindow`).

Abstractions. The lock is held only over code without an `await` and released
around the sleep, so on one event loop it is never contended and a pass is
atomic. The rounding of floats is left out. `_last_refill` is set by the first
call, when the bucket is full, so that time before it makes no difference.
`elapsed` stops at a full bucket, as the refill does.

### GtfsRefresh

A step of a task is the code between two awaits, or an executor job; the
import, which takes minutes in its thread, is cut at its commits. `zip`, `db`
and `temp` are the files on disk; a release is a number that stands for its
SHA-256, a tag stands for ETag and Content-Length. A database file is a record:
`key` the `bundle_<folder>` rows of `import_meta`, `rows` the releases the rows
of a bundle come from, `whole` the release it was last imported in full from.
A POSIX connection follows its file and not its name, so a task has `conn`, the
name its file has at the moment, `"lost"` once it has none: `os.replace` and
`unlink` update the `conn` of the others (`Follow`).

The action names follow the code: `ReadMeta`, `ReadBundles`, `HeadStops`,
`HeadGoesOn` are stage 1; `UseZip`, `Fetch`, `SameZip`, `OtherZip`, `WriteZip`,
`DownloadFails` stage 2, with `Decide` for what follows from its result;
`UpdateZipMeta`; and `Connect`, `SkipBundle`, `BeginBundle`, `EndBundle`,
`Record`, `Swap`, `SwapFails`, `ImportFails` are `import_mode_bundles`. `Crash`
is Home Assistant stopping at any moment. `broken` is a history variable: an
import was cut short after its ZIP was in place.

Abstractions. The existence check, unlink, connect and opening of the ZIP are
one step, and so is `_write_and_replace`. The per-file commits of a bundle are
cut to its first and its last. The flat ZIP layout, WAL side files,
`gtfs.zip.tmp` are left out. `key` keeps the release where the code keeps the
time of the import.

Rows that bundles share. `stops`, `routes`, `trips` and `calendar` have keys
without a bundle (`gtfs/schema.sql`), and `INSERT OR REPLACE`
(`gtfs/importer.py:241`, `281`) writes over what another bundle left there.
`Shares` says which bundles may have keys in common, and `Inserted` adds the
release of an import to the `rows` of all of those that have rows already;
within one release, rows of the same key are taken to say the same. So an
import into the live database, from a newer ZIP than the recorded bundles
after one that was cut short, leaves readers with two releases mixed:
`ReadersUndisturbed` and `RecordedIsWhole` say that this does not happen
before (`~broken`), and promise the rows' release for no longer.

The weekly timer. `__init__.py:298-302` gives `async_track_time_interval` a
plain lambda. Home Assistant runs what is neither a coroutine nor a
`@callback` in an executor thread, where `hass.async_create_task` raises, so
that the weekly refresh (`src/README.md:64`) does not start. `RefreshAll` is
therefore the first handler of a config flow only (`config_flow.py:174`,
`191`), and nothing makes anybody open one: that refreshes keep being asked for
(`Asked`) is a premise of `CatchesUp` and `Heals`, and no fairness assumption.

### FeedCache and Watches

A step is the code between two awaits. `cache` holds per feed how long ago the
entry was stamped (`age`) and how long ago its data left the server (`snap`);
`request` a call in flight. `Send`, `Respond`, `ReadBody`, `Store` are
`fetch_feed` from its miss to its last line; `Raise` is any exception out of
it. In `Watches`, `Begin` to `Finish` are `_async_update_data`: the two
fetches with all their outcomes, the query, the reset of the backoff.
`until` is the time left to `_backoff_until`, `error` whether
`last_http_error` is set, `polling` whether Home Assistant schedules another
update: it does after every outcome but `ConfigEntryAuthFailed`.

Abstractions. The option `realtime_enabled` can change at any time and is read
once, when a cycle begins: `Begin` chooses. The wait for a token is a place in
the cycle; how tokens are given is `RateLimiter`'s matter. What is published
(departures, alerts) and how delays are merged is left out. The clock is
monotonic.

### ConfigFlow

A step is an `async_step_*` handler with the handlers it calls, up to the form
that comes next. `step` is the `step_id` of that form, `offer` what its
selector offers, `config` is `_config`, `post` is `_post_import_step`;
`zipTask` and `dbTask` are the two tasks behind the progress steps. A name
beginning with `Go` is a handler called by another one, which may show its own
form or pass on to the next: `GoRoute` skips the line form when there is one
line, and `GoPlatform` the platform form. The searches of `gtfs/repository.py`
and `path_finder.validate_route` are sets read off `Legs`, the pairs of stops
that trips of a release call at in order, as far as their bundles are in `db`.

Around the flow, `db` gets the bundles of more modes or is replaced by another
release between any two forms: `RefreshWorks` and `RefreshFails` end the
refresh the flow waits for, `Orphan...` one whose flow was closed, `RefreshAll`
one that the first handler of a flow started, and `SetupWatch` those of the
entries' setups. `RemoveEntry` takes an entry away
at any moment.

Abstractions. One flow is open at a time. A handler reads the database at one
moment, though it may be two awaits. A refresh is one step; how it works inside
is `GtfsRefresh`'s matter. A handler that shows its own form again with an
error changes nothing and is no action. Names, labels, the disruption summary
and the options flow are left out. A stop that no trip calls at is taken to be
absent from the stops table. `Ids` are reused once nothing refers to them.

### Timetable and Departures

`Timetable` has no state. A release of the schedule is its calendar and its
trips with their calls; a database is the release, the trips that
`_compute_valid_trip_ids` keeps and the day of the import; if SQLite fails
there, it keeps none (`Imports`), where its warning (`gtfs/importer.py:166-167`)
says that it keeps all; `sound` records this for the properties.
Time is in ticks
(eight to a day in the run), a date is the number of its day. `ServiceDay`,
`RunsOn`, `Branch`, `Firsts`, `_filter_by_destination` and `Arrivals` are the
statements of `gtfs/repository.py` and `gtfs/time_utils.py`; where SQLite or a
sort leaves the order of ties open, `Firsts` is the set of all results.

`Departures` runs them one at a time, as each opens the file anew. `Begin` is
the reading of the clock, `QueryToday` and `QueryYesterday` the two branches,
`Select...` merge, filter and slice with what the coordinator makes of the
result; `FindArrival`, `NoArrival` and `Pair` are the loop over first legs.
Each statement may meet an `sqlite3.Error`, and is answered as the code does.
`Import` swaps the next release in at any moment. `board` keeps, with the
departures, when and from what they were made (`at`, `feed`, `seen`, `faulty`,
`offered`): history that only the properties read.

An `arrival_time` that is missing or bad is stored as NULL
(`gtfs/importer.py:303-306`), on which `get_arrival_at_stop` raises a
`TypeError` that nothing in the cycle catches: `ArrivalUnknown` ends the cycle,
and the board stays as it was.

The properties are against a reference that knows nothing of branches or
filters: `Due`, all departures of the release that run and are not past, and
the `Earliest` of them. Where the code promises less, the property says so.
`NextShown` is about boards from one database that covers the days, and, with a
destination, trips that call at the station once. It has each service day give
its first `count` departures (`Earliest`), drops those that go elsewhere, and
deals the `count` places to what is left (`Dealt`): none stays free, the
earliest of a day come first, and rows of the day before, which are all past
27:00, only get what today's leave, unless these are past 27:00 as well. So it
catches a gap or a double at midnight and 03:00 and a place left free, but not
that yesterday's trips past 27:00 give way to later ones of today, or that a
destination gets fewer departures than there are (`gtfs/repository.py:164-169`,
against its lines 129-148): the code does both, and they are hazards without a
property. `StaysOnBoard` has the same exception, over 03:00: a departure past
27:00 may lose its place to a full board, all others stay. `LegsPaired` is
about first legs of the running service day: `coordinator.py:345` dates the
arrival of one of the day before a day late, and pairs it with a connection of
the next day (again a hazard without a property, as the code does it). It needs
a database that covers the days, trips that call at the transfer once, and a
transfer from which all that is due goes on to the end, since the second query
has a limit of one. Two hypotheses are there because TLC refuted the properties
without them once the proof had got stuck there: `StaysOnBoard` needs
departures at different times, since neither the SQL nor the sorts have a
tie-break and two cycles may choose differently, and with a destination trips
that call at the station once; `DestinationServed` needs a trip's calls at a
station numbered in the order they depart, in all the databases a cycle saw
(`Ascending`), since the filter takes the number of whichever row of the trip
is last, and the database it asks may not be the one the row came from. Calls
out of that order violate GTFS, which has times increase along a trip.

Abstractions. `total_journey_minutes` and with it the order of the board,
cancellations, headsigns, second-leg delays (shown only) are left out. Stops
and stations do not change between releases. No daylight saving: the database
has local times and Home Assistant's clock is local. The arguments of a
journey's queries are those of one watch; `_watch_config` does not change in a
cycle.

### EntryLifecycle

One record per entry: `watch`, `tracker` and `route` hold what is in memory of
the entries of each type, with Home Assistant's state of the entry. In a watch,
`timers` are its weekly timers (the one with a handle, and those that lost it),
`stored` is the count in `hass.data`, `count` the one in the coordinator's
`_watch_config` and `slots` the sensors; `coord` maps the identities of
coordinators to the first trip of their board, so that a tracker can hold on
to the coordinator of an entry that has another one. Steps are cut at the
awaits: setup up to the first refresh, its failure or success, the platform;
unload and its end; the poll of a tracker before and after the feed.

Abstractions. The watches are of one mode; a refresh is one step (the database
never loses the mode here: `EntriesKeepBundles` is about that). Home Assistant
runs one operation on an entry at a time, removes an entry only when it is
unloaded, and deletes `runtime_data` at an unload. A tracker's poll that fails
keeps its data and makes the entity unavailable (`FindFails`, `success`); one
of a route tracker keeps its data and is no action. `departure_count` stands
for the options: it is the one that is applied by a reload.

What the properties leave out, because the code does it. The weekly timer of
each first refresh that failed is never cancelled: `"lost"` in `timers`, and
`HandlesHeld` is about the others. Options that change in a first refresh reach
`hass.data` and the sensors but not the coordinator: `missed`, excepted in
`OptionsApplied`. A tracker that was set up before its watch is in error, and
one whose watch was reloaded keeps the old coordinator: `TrackerCatchesUp` is
about a loaded one with the coordinator its watch has. A route tracker's
entities are as many as the trips it ever listed: `OneEntityPerTrip` says that
each gets one, while `device_tracker.py:11-12` speaks of a fixed number of
slots, which the code does not have, so that no property bounds them.

## 3. Runs

| Run | Instance | Shows |
|---|---|---|
| `rate_limiter` | 3 callers, bucket of 2, a token in 5 ticks | type, bound, no oversleeping, refinement of the bucket, the budget flows |
| `rate_limiter_documented` | the same | `src/README.md:18`, 24 requests in 60 s, does not hold: a burst and the refill add up |
| `gtfs_refresh` | 1 refresh, 2 modes whose bundles share keys, 3 releases, 4 tags, 2 faults | a recorded bundle is whole, a published file finished, readers undisturbed, the stored hash honest, entries catch up if refreshes are asked for |
| `gtfs_two_refreshes` | 2 refreshes, a mode of 2 bundles, 2 releases, 1 fault | no key without rows; an unfinished published file gets finished, if refreshes are asked for or nothing failed |
| `gtfs_race` | 2 refreshes, no fault | `gtfs/importer.py:7-8`: an unfinished import does get published, by the other refresh |
| `gtfs_dropped_bundles` | 1 refresh, 2 modes, no fault | `__init__.py:84-85`: not all bundles are re-imported when the ZIP changes: a refresh whose bundles were fixed before another entry was created, or that a setup started for its own mode, drops those of the other entries |
| `watches` | 2 watches, TTL 2, timeout 1, backoff 2 to 3 ticks | fresh hits, coherent and visible backoff, polling goes on |
| `watches_backoff` | the same | `coordinator.py:14-17`: a 429 does not delay the next update, as the cycle that met it resets the backoff |
| `watches_shared` | the same | `realtime/client.py:6-7`: watches do send redundant requests |
| `config_flow` | 2 modes that share a route type, a station of 3 platforms and another stop, 2 routes, 2 releases, 2 entries at a time | what a watch or tracker holds was true when it was chosen, keys are known, no form precedes its import, waiting ends |
| `departures` | 5 stops in 2 stations and alone, 5 trips on 4 calendars, 2 releases, 6 watches, 20 ticks of three hours | what is shown departs, goes to the destination, is what each service day has next as the merge deals it out, and stays until it leaves; journeys are possible, and first legs of the running service day miss no connection |
| `entry_lifecycle` | a watch, its vehicle tracker, a route tracker; 2 counts, 2 trips and a maximum of 1 vehicle, 3 coordinators | handles are held and released, options arrive, the limiter is there, a trip gets one entity, retries end, trackers follow |

Why the bounds are enough. Three callers are one that sleeps, one that
overtakes it and one that is cancelled; a token costs five ticks so that sleeps
begin, end and are late at all phases of it, and two tokens are a burst and a
last one. Three releases let a second one lack a folder and a third one bring
it back; one tag more than releases lets the same bytes be uploaded again; two
faults are a failure and a failure of its repair. Two refreshes and two bundles
let one be anywhere inside a loop while the other is swapping. Two watches are
the one that stores and the one that hits; a TTL longer than the request
timeout, and decoding without a timeout, cover both orders in which a stamp and
its data can age; the backoff's cap is not a doubling of its first value, as
900 s is none of 60 s. In `config_flow` the second release drops a direct
service, a mode's service and a platform code, so that each answer can be
outdated at the next form; a mode that finds what the other's bundles brought
is there because route types belong to several modes (`const.py:97`); one
platform has no code; and two entries are a tracker and the watch it is linked
to. In `departures` the clock crosses midnight and 03:00 twice; a day has eight
ticks so that a call can be before, at and after either, and past 27:00 in the
second release, so that a board over 03:00 has a row of the day before; a
window of two days makes an import leave trips out that the next one keeps;
calendars that begin late, end, are suspended on a date and consist of an added
date cover the four rows of `_ACTIVE_SERVICES_SQL`; limits of 1 and 2 cut and
do not cut. In `entry_lifecycle` the third coordinator is the one a tracker
still holds while its watch has a new one; two counts and two trips are the old
and the new, and with a maximum of one vehicle each trip falls out of the list
and comes back.

Fairness. `RateLimiter`: time passes and a due timer is run by the loop;
nothing is assumed of the callers. `GtfsRefresh`: a refresh that runs goes on;
nobody has to start one (`Asked` is a premise of `CatchesUp` and `Heals`), and
flows, publications and faults are not fair.
`Watches`: time passes, timers fire, and what a cycle awaits comes, be it an
answer, a timeout or an executor thread. That includes its token: the limiter
gives no such promise to one caller (`BudgetFlows` is about all of them), so
`PollsAgain` holds for as long as nobody is overtaken for ever. `ConfigFlow`: a
refresh ends, and the event loop runs the poll and calls the flow again when a
progress task is done; users owe nothing, and nobody has to make a refresh
that works. `WaitEnds` therefore allows a wait for a mode that never comes: the
code has no other way out of it than the user closing the dialog.
`EntryLifecycle`: Home Assistant sets up what is listed and retries what was
not ready, trackers poll, and a first refresh that is tried again and again
works in the end, as does the download (strong fairness: restarts and failures
may come in between, but not always). `Departures` has no liveness property.

Deadlock is checked in all runs; none can stop.

## 4. What is proved

TLAPS proves, for every value of the constants that meets the named
assumptions (positive capacity, cost, TTL and backoff, finite bounds that are
naturals, and `None`, `NoFile` distinct from the values they stand beside),
every safety invariant and action property of the runs that pass:

* `TokenBucketProofs!BucketWindowBound`: no window of the bucket exceeds a
  burst plus its refill. The bound alone is not inductive; the strengthening
  says that while the window is open the credit still in the bucket fits under
  the bound as well.
* `RateLimiterProofs`: `TypeCorrect`; `Implements`, that each step of the
  limiter is a step of the bucket or a stutter, with `credit` mapped to the
  tokens plus the refill that is owed; `WindowBounded`, the bucket's bound
  carried over by the refinement; `NobodyOversleeps`.
* `GtfsRefreshProofs`: `TypeCorrect` and `ReadyMeansRows`, for any number of
  refreshes, faults and crashes. The inductive invariant `IInv` adds what holds
  of a task between its steps: the ZIP and the file it works on exist, and each
  bundle it is done with has rows of its release in its file, *whichever name*
  that file has by now and whoever else writes it. The proof has a lemma for a
  step that only moves a task (`Moves`), one for a write (`StoreKeeps`, with
  `InsertedFacts` for what an insert adds and keeps) and one
  for each way files change names (`UnlinkOthers`, `ReplaceOthers`).
* `SingleRefreshProofs`, for any modes, bundles, releases, faults and crashes:
  `RecordedWhole`, `PublishedFinished`, `StampIsHonest` and
  `ReadersNotDisturbed`, the last for any sharing of keys among the bundles:
  that no import was cut short makes the open ZIP the one all recorded rows are
  from (`OneRelease`). They assume `OneAtATime`, that the constant set of
  tasks has at most one member: the code does not prevent a second refresh, and
  the run `gtfs_race` shows what happens then. The invariant `SInv` says which
  file the task fills at each place of the import, what that file has by then
  (`Filling`), and that without a cut-short import the ZIP on disk is the one
  that was imported (`ZipImported`).
* `WatchesProofs`: `TypeCorrect`; `HitsAreFresh`, by the invariant that data is
  never older than the stamp it has or will get; `BackoffIsCoherent` and
  `BackoffIsShown`, by the invariant that a cycle with a backoff not over is
  past its trips fetch, the only success that clears the error.
* `ConfigFlowProofs`, for any schedule and number of releases and entries:
  `TypeCorrect`, by `Typed`, which adds what each form offers and which answers
  are there by then; on top of it `KeysKnown` (inductive as it stands),
  `ImportsComeFirst`, by `Imported` (the poll ends only when the bundles are
  there, and what is there was imported), and `WatchesAreReachable`, by `Hops`
  (a hop is recorded on the form that validated it; a later release adds to the
  releases it may have been true in and takes none away); `FiltersAreServed`,
  by what the platform and line forms leave in the answers; and
  `TrackersAreLinked`, by what holds of a watch that was picked, which may be
  removed, and whose identity may be reused only once nothing refers to it.
  Lemmas say what the queries answer and what the forms' helpers do, so that an
  action needs no more than the form it shows.
* `EntryLifecycleProofs`, for any number of entries of each kind and any
  options: `TypeCorrect`, `HandlesAreHeld`, `OptionsAreApplied`,
  `LimiterIsThere`, `OneEntityForEachTrip`. `IInv` gives each kind of entry one
  condition that relates its state to what it has in memory, to its option and
  to its place among the listed entries (`WatchOK`, `TrackerOK`, `RouteOK`);
  the last part is what `LimiterThere` needs, since hass.data goes only when
  nothing is listed. A route tracker's condition is that the known trips are
  those ever listed, and have an entity each. `OptionsApplied` alone is not
  inductive: between setup and the sensors the count, the stored count and the
  option agree two by two (`forward`). A lemma per kind (`OneWatch`, ...) says
  that after a step of one entry only its own condition is left to show.
  `FreshThere` counts: there are more coordinators than entries to refer to
  them.

* `DeparturesProofs`, for any schedule, clock, feeds and watches:
  `TypeCorrect`, `BoardsDepart`, `DestinationsAreServed`,
  `ConnectionsAreCatchable`, `LegsArePaired`, `NextAreShown`, `DeparturesStay`.
  The first half has no state: service days (`ServiceDayOf`, `DaysInOrder`,
  `OneServiceDay`), what a branch selects (`BranchRow`), that the filter lets
  through only trips that go on (`SelectionServes`; the last row of a trip is
  found by well-founded induction over the rows, `LastExists`), that what a
  covered import keeps of either service day is what is due (`CoveredKept`,
  `BranchIsDue`) and a branch's rows the earliest of it (`FirstsAreEarliest`),
  and from these the two that carry the theorems: `AnswerIsNext` (an answer is
  dealt out to what comes next of both days) and `AnswerPersists` (a later
  answer still has what an earlier one had, but for trips past 27:00;
  `BranchPersists` has it within a service day, `DaysPass` over 03:00). The
  second half is the inductive invariant: `Finds` says of the rows gathered at
  each statement that they fit by some database seen so far and, if there was
  but one, that they are what its branches may give; `Journeys` says of the
  legs and entries made so far what the properties say of a board, and `Ready`
  ties a second query to its first leg. `Grows` is what later statements,
  imports and errors may do to a cycle; a lemma per predicate (`...Still`) says
  that it survives. Assumed: releases, trips and calls are finite, there is a
  first release, and `None` is no row, query or cycle.

The inductive invariants were checked by TLC on the instances of the runs
before they were proved.

Only model-checked: the liveness properties (`BudgetFlows`, `CatchesUp`,
`Heals`, `PollsAgain`, `WaitEnds`, `RetryEnds`, `TrackerCatchesUp`), as
fairness and `ENABLED` are out of this prover's reach. The runs that expect a
violation are counterexamples and need no proof.

## 5. Plan

No safety property of a run is without a theorem. What could be added are
properties that need a longer memory than one board, such as what two tasks
leave in `gtfs.db` together, proved for `GtfsRefresh` without `OneAtATime`.

## 6. Not modelled

The text matching, ordering and limits of the searches. The realtime parsers
project one message field by field. Sensors and binary sensors are views. The
geometry of the proximity filter, poll intervals and their stagger.
`async_migrate_entry`, and the service-type queries that nobody calls. Brand
images, pictograms, strings, scripts and tests have no behaviour.
`test_connection` keeps no state; `invalidate_cache` is never called.
