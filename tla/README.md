# Verification of the Gujarat CCTV integration platform

TLA+ models of the concurrent core of the platform, the TLC configurations that
check them on small instances, and TLAPS proofs of what matters most. Paths below
are relative to the repository.

## 1. The system, and where it is hard

The platform pulls video from cameras of several departments, reads number plates,
writes one *sighting* per plate read to PostgreSQL, matches sightings against a
watchlist, and pushes alerts to operators. Almost everything in it is either a
stateless request handler that runs one SQL transaction, or data processing with no
shared state. What is left is long-lived Python processes in which several threads
share unlocked objects. That is where these models look.

| Component (code) | State it keeps | Operations | Talks to | What must hold |
|---|---|---|---|---|
| **Camera thread** `services/anpr/capture.py`, `sampling.py`, `tracks.py`, `pipeline.py`, `worker.py` | reconnect backoff, media clock, the sampler's last look, open tracks, wall offset | `frames`, `_session`, `PtsClock.observe`, `should_analyse`, `observe`, `harvest`, `flush`, `_on_frame`, `_on_discontinuity` | cameras; sink | tracks of two scenes are never joined; nothing is stamped after it was there; a scene is looked at within the longest interval; a stop ends the thread |
| **Plate keys** `services/common/plates.py`, `confusion.py`, `services/anpr/vote.py`, `services/alerting/tiers.py` | none | `normalise`, `plate_key_variants`, `vote`, `match_plate` | camera thread, API, alert writer | a plate is stored under itself, and found again under what it is stored as |
| **Sighting sink** `services/anpr/sink.py` | buffer, its clock, loss counts per camera | `add`, `due`, `flush`, `_write`, `_lost`, `write_metrics` | called by every camera thread and by main; PostgreSQL; alert writer | no read disappears uncounted; no duplicate the threads make themselves; a waiting read is always flushed; nothing is left behind by a clean stop |
| **Vehicle linking** `services/anpr/linking.py` | `vehicle_uid` of each sighting | `choose`, `link_batch`, `relink` | sink, PostgreSQL | one plate is one vehicle; two plates are two |
| **Journeys** `services/journey/reconstruct.py` | none | `collapse_revisits`, `reconstruct` | API | no sighting is dropped; a journey is split exactly if one vehicle cannot have made it |
| **ANPR worker** `services/anpr/worker.py` | shard, stop event, camera threads, per-camera pipeline | `claim_shard`, `prewarm_models`, `run`, `_apply_boost`, `_maybe_escalate`, `main` | sink, escalation, capture | every camera has one worker; threads are joined before the last flush |
| **Self-escalation** `services/anpr/escalation.py` | semaphore and count of slots; rung, exhausted, holds per camera | `observe`, `_climb`, `_give_up`, `acquire`, `release`, `close` | worker | slots are never leaked or doubled; a heavy model is paid for; given-up cameras go back to light |
| **OCR boost** `services/api/routers/ocr_boost.py`, `services/anpr/ocr_boost.py` | table of boosts; the worker's copy of it, shared readers | `start_boost`, `clear_boost`, `BoostCache.wanted`, `report`, `SharedReaders` | operators, PostgreSQL, camera thread | the cap on boosts; what an operator is shown is so; a boost ends |
| **Alert writer** `services/alerting/writer.py` | suppression and corroboration dictionaries, shared by every flushing thread | `consider`, `_corroborating`, `_forget_stale` | runs inside the sink's transaction | alerts point at sightings; no wanted vehicle is missed; never a chain of colour alerts |
| **Alert hub** `services/api/routers/alerts.py` | clients, pump, cursor | `join`, `leave`, `_pump`, `_since` | PostgreSQL, consoles over websockets | nothing is pushed twice; the cursor skips no alert it owes; a dead socket stops nobody else's alerts |
| **Relay supervisor** `services/relay/relay.py` | `relays`, `exits`, `_stop` | `_ensure`, `_start`, `_touch`, `stop`, `reap`, `run_reaper`, `shutdown` | ffmpeg processes, MediaMTX, request threads | every ffmpeg can be found and stopped; none outlives the service; none pulls video nobody wants |
| **Health prober** `services/health/prober.py`, `status.py` | confirmations per camera | `cycle`, `_debounce`, `run` | `cameras`, which operators write too (`services/api/routers/cameras.py`) | one failure is not an outage; operators' decisions are not overwritten |
| **Deployment** `services/migrate/migrate.py`, `claim_shard`, `docker-compose.yml` | `schema_migrations`, advisory locks | `migrate`, `claim_shard`, `fetch_cameras`, `prewarm_models` | PostgreSQL | each migration once, in order, before any worker; every shard is read, by one worker |
| **Crop review server** `scripts/review_server.py` | label log, events, manifest | `choose_next`, `record`, `seed_from_manifest`, `apply_labels` | labellers' browsers, the disk | an acknowledged label survives a kill; disagreements are not resolved silently; the queue is worked off |
| **Watchlist cache** `services/alerting/watchlist.py` | entries, loaded-at | `entries`, `_reload` | alert writer | a database failure keeps the last good list |
| Request handlers, auth, adapters, face and attribute models, simulator, reports, web console | none, or one transaction each | | | out of scope, see section 8 |

`PROJECT.json` lists the same parts with their files and status, and 40 hazards at
their lines. The hard behaviours, in short:

* the sink has **no lock** and is called from every camera thread and from main, and
  its `flush` performs I/O in the middle;
* a dropped connection is **retried once**, in code that has already changed its
  in-memory state; an acknowledgement may be lost **after** the commit;
* an alert statement may fail **inside** the transaction that carries sightings, and an
  alert's time is the **start** of that transaction, which the push's cursor is compared with;
* two dictionaries are iterated by one thread while another writes them;
* a boost (chosen by an operator) and an escalation (chosen by a policy) replace **the
  same reader** of the same pipeline in the same frame, and the worker follows boosts
  from a **copy** of the table that is seconds old and survives failing refreshes;
* a camera's timestamps stand still, jump, go back, go missing or never come, and every
  **reconnect** starts the timeline again while the sampler and the open tracks stay;
* the prober writes, at the end of a sweep, statuses derived from rows it **read at its start**;
* shards are held by **database sessions**, which may drop under a live worker;
* shutdown joins threads with a **timeout** and then flushes what may still be in use;
* the relay's reaper decides on a relay it has seen **without the lock** and acts on the
  camera, and `stop` terminates a process it has already taken out of the table;
* the review server may be killed **in the middle of a line**, and is seeded from a
  manifest that its own labels have changed;
* a plate is **normalised again** at every place that is handed one.

### Granularity

The models use the interleavings CPython can produce, not those of an abstract
shared memory. The interpreter switches threads at calls, at the back edge of a loop,
and while a thread waits for I/O or a lock. `batch, self.pending, self.oldest_at =
self.pending, [], None` (sink.py) has no such point, so it is one step;
`failed_by_camera.get(c, 0) + 1` followed by the store has one, at the call, and is two.
Each module's header names its switch points. A dictionary comprehension
over a dictionary raises `RuntimeError` when another thread inserted a key since it
started, and does not when a value was replaced; it iterates over the object it
started on, even when the attribute has been rebound since.

Where processes meet in PostgreSQL, a step is a statement or a commit, whichever the
property can tell apart. The hub is an asyncio task: its shared state changes only where
something awaits. A camera thread owns everything of its camera but the stop event, so a
frame is one step in `CameraThread`; `Escalation` and `SightingSink` open the same frame
up where it touches what threads share.

## 2. Modules

| Module | Models | Role |
|---|---|---|
| `ReadLedger` | what the sink promises about each read | abstract specification |
| `SightingSink` | sink, camera threads and main of the worker | implements `ReadLedger` under `Fate` |
| `SightingSink_proofs` | | theorems of `SightingSink` |
| `Escalation` | policy, budget, boost and the swap of the models | |
| `Escalation_proofs` | | theorems of `Escalation`, and of `OcrBoost` |
| `AlertWriter` | `consider` and its dictionaries, inside the sink's transactions | |
| `AlertWriter_proofs` | | theorems of `AlertWriter` |
| `Relay` | the relay supervisor, its threads, and the processes it runs | |
| `Relay_proofs` | | theorems of `Relay` |
| `CameraThread` | sessions, timeline, sampler and tracks of one camera, and their cuts | |
| `CameraThread_proofs` | | theorems of `CameraThread` |
| `PlateKeys` | plate normalisation, search keys, votes and plate matching | functions; no state |
| `VehicleLinks` | the rules and the transactions that give sightings vehicle ids | |
| `VehicleLinks_proofs` | | theorems of `VehicleLinks`, and of `Journeys` |
| `Journeys` | visits, hops and legs of a plate's sightings | functions; no state |
| `OcrBoost` | a boost from the operator's request to the reader and back | |
| `AlertHub` | transactions that raise alerts, the hub's pump, the consoles' sockets | |
| `AlertHub_proofs` | | theorems of `AlertHub` |
| `Prober` | sweeps of the prober against the operators | |
| `Deployment` | migration runners, shards and workers | |
| `Deployment_proofs` | | theorems of `Deployment`, and of `Prober` and `ReviewQueue` |
| `ReviewQueue` | the label server, its files, its people, its kills | |
| `MCSink`, `MCEscalation`, `MCAlert`, `MCRelay`, `MCCamera`, `MCLinks`, `MCOcrBoost`, `MCHub`, `MCProber`, `MCDeploy`, `MCReview` | | instances for TLC; `MCAlert` composes `AlertWriter` with `PlateKeys`, and `MCLinks` checks `Journeys` too |

Definitions marked `Mutant:` are not of the code: each is a plausible bug in the
definition beside it, and `PROJECT.json` says which property notices it.

### SightingSink

`pending`, `oldestAt` and `failedBy` are the fields of `SightingSink`. `oldestAt` keeps
only what the code asks of it: `None`, younger than `BATCH_MAX_AGE_S`, or older. Each
thread has a program counter for `flush`: `flush` (called), `write` (first attempt),
`retry` (the single second one), `lost` and `count` (the loop of `_lost`). `batch` is
the local variable of `flush`. `phase` follows a camera thread through the `finally` of
`run` (last harvest, last flush) and main through its last flush.

| Action | Code |
|---|---|
| `Persist`, `Buffer` | `_persist` and `add`, with the flush of a full buffer |
| `CameraDue`, `MainLooks`, `MainDecides`, `MainTrips` | `due`, with and without a clock of the caller |
| `RollUp` | `write_metrics`: claim by `dict.pop`, then a write that may fail |
| `TakeBatch`, `FlushNothing` | the swap at the head of `flush` |
| `Commit`, `CommitAborted`, `Refuse`, `Drop`, `LoseAck` | how one attempt of `_write` may end |
| `CountRead`, `CountStore` | one row of `_lost` |
| `LastHarvest`, `LastFlush`, `Stop`, `MainJoined`, `MainExits` | shutdown |

`stored`, `swallowed`, `doubt`, `lost`, `reported` and `unreported` are not variables of
the program; they record what happened to the database and the counts. `MainTrips` is a
real transition: main's `due()` calls `time.monotonic()` between testing `oldest_at`
and subtracting it, and a camera thread that flushes in between leaves `None` there. The
`TypeError` ends the process. Properties that speak of a clean exit therefore
distinguish `exited` from `crashed`.

`ReadLedger` says that a read is unseen, then held, then settled for good as *stored*,
*lost* or *swallowed*. The refinement mapping `Fate` computes this from the sink's sets.
It gives a stored read precedence over a lost one, because a batch whose
acknowledgement was lost may be both: `SecondCopyOnlyInDoubt` says that this is the only
way.

### Escalation

One program counter per camera follows a frame: `frame` (before `_apply_boost`),
`harvest` (before `observe`), `acquired` (between the semaphore and the count),
`build`, `reset` (before the two halves of `_maybe_escalate`), `returning` and `leaving`
(between the halves of `release`), `ended`. `slots` is the semaphore, `held` the
counter under its lock: they are separate objects, so they change in separate steps.
Read rates, sample sizes and thresholds are reduced to the verdict they lead to, which
is a free choice. Builds and resets may fail, and a reset may fail after some stages.

### AlertWriter

A thread takes a batch, opens a transaction, and considers its rows in any order. `Check`
is the suppression test; `Insert` and `InsertFails` the statement it may lead to, in a
later step, because the thread waits for the database in between. `Scan` begins one of
the two comprehensions over `_corroborated`, `Look`/`LookAway` and `Forget`/`ForgetRaises`
end it. `iterating` are the threads in a comprehension over the *current* dictionary,
`upset` those under which a key was inserted. A comprehension may have seen the value at
its start or at its end for each key (`Seen`).

`poisoned` is PostgreSQL's *aborted* state of a transaction: further statements fail, and
`COMMIT` rolls back without an error. `raised` is history: every alert whose statement
succeeded, rolled back or not.

### Relay

Everything the code does under the supervisor's lock is one step; everything else is not.
`pc` says where each thread is: a request between its question to the media server and
the lock (`touch`, `start`), a thread in `stop` between the pop and the end of the process
(`terminate`, `wait`), the reaper in its pass (`pass`), between seeing a dead relay and
burying it (`bury`), between deciding on an idle one and stopping it (`drop`). `hand` is
the relay a thread in `stop` has popped.

| Action | Code |
|---|---|
| `Ask`, `Touch` | `_ensure`: `_paths`, the choice of the path, "already publishing" |
| `StartFindsOne`, `Start`, `StartFails` | `_start`, with the `Popen` that may raise |
| `StopRequest`, `Terminate`, `Waited` | `stop` |
| `ReapList` | `_paths`, the clock and `list(self.relays.items())` |
| `ReapDead`, `Bury` | a dead relay: its last words, then the lock, the pop and `_note_exit` |
| `ReapWatched`, `ReapSpares`, `ReapIdle`, `ReapStop`, `ReapEnds` | a live one, and the end of the pass |
| `Shutdown`, `ShutdownStops`, `Exits` | `shutdown` and the end of the lifespan |
| `Publish`, `Die`, `FeedChanges`, `Watch`, `Tick` | ffmpeg, other publishers, readers, time |

Monotonic times are kept as ages: `idle`, since `last_reader_at`, and `elapsed`, since the
pass read its clock; the code's `now - last_reader_at` is `idle - elapsed`, negative when
a touch is newer than the pass. Ages saturate just above what any comparison can tell
apart. `started_at` and `readers_seen` are left out: `last_reader_at` starts at
`started_at` and only grows, so the grace for a relay that has not been watched spares
none that the idle test would not. `exits` only grows in the model; the code also trims it
to a minute, which keeps `DeathsCountedOnce`, an upper bound. The two seconds a request
waits for its path change nothing and are folded into its last step. A camera's path has
the form `<<camera, "own">>`, or `"web"` for the re-encoded copy; a codec is only whether
a browser can play it. `uvicorn` answers the requests it has before it ends the lifespan,
so `Shutdown` waits for the requests to be done. After `Exits` only processes go on.

`astray` is history: processes the reaper popped alive because it buries by camera. The
other properties name it so that they still say something about every other schedule.

### CameraThread

One camera from `LiveCapture.frames` to `_persist`. `clock`, `sampler` and `tracks` have the
fields of `PtsClock`, `AdaptiveSampler` and `TrackRegistry`; the operators of the same names
(`Observe`, `Takes`, `Seen`, `Harvested`) are their methods as functions.

| Action | Code |
|---|---|
| `Connect`, `NoEndpoint`, `SessionEnds`, `Wake` | `frames`, `_connect`, the end of `_session`, `Backoff` and its wait |
| `BackoffOverflows` | `2**attempt` beyond a float: the generator ends, and with it the thread |
| `Frame` | a frame to its end: `observe`, `_on_frame`, `_on_discontinuity`, `should_analyse`, `process`, `harvest` |
| `FrameFails`, `AnalysisFails` | a frame dropped by the handler in `run`, before or after its cut was served |
| `Stopping`, `Stop` | the event, and `run`'s `finally` |

`scene`, `timeline` and `sawAt` of a track, `unseen` and `excused` are history: when and in
which scene the vehicle really was, and how much media time has gone by unanalysed.
`written` is what the last step handed to the sink.

### PlateKeys

Plates are sequences of characters, and the definitions are the functions of the code:
`Normalise` with its parts (`Clean`, `SplitMiddle`, `CorrectState`, `Bharat`), `KeyVariants`,
`Vote`, `Distance`, `Closest`. The confusion tables are the prior's, merged with a derived
one, as `merge` does. The properties are about what the uses of one key have to do with each
other: a sighting is found from the key that is shown (`FoundAsShown`), a registration's key
is itself, and so are its misreads into the other class of character
(`PlatesKeepTheirKey`), and a track votes for a plate that more than half of its weight is
behind in every slot although no frame read it (`VoteRecovers`). They are assumptions of
`MCAlert`, where which read matches which watchlist entry is computed with them
(`MatchedByPlate`); TLC evaluates them before it explores the alerts.

### VehicleLinks

A transaction links the sightings of one batch (`Write`, `LinkOne`, `Commit`, `Fail`: `_write`
and `link_batch`) or those of a window it has cleared (`Relink`). `View` is what its queries
see: what is committed and what it wrote itself. `Matching`, `Before` and `Candidates` are the
query: its `WHERE`, `ORDER BY distance NULLS FIRST` and `LIMIT`, which leave open which of equally
distant rows are returned. `Plausible`, `ByPlate`, `ByLook` and `Chosen` are the three rules, on
the rows returned. `orderly`, `crowded` and `redone` are history: the rules give one id per plate
only when sightings are linked one after the other, in order of time, and when no link is made
in a crowd, `Fetch` others that resemble the new sighting at least as much as every earlier one
with its plate (`InCrowd`). What happens in a crowd is in section 4.

### Journeys

`Journey` is `reconstruct`: `Visits` merges sightings, `Hops` compares neighbouring visits,
`Legs` cuts where a hop is not `plausible`. The code's loops are `Collected`: what has been
gathered after each turn (`Merged` is a turn of `collapse_revisits`). Two properties, assumptions
of `MCLinks` on small trails and theorems for all of them, say what the parts have to do with
each other. `NothingDropped` is the promise of the endpoint.
`SplitByClones` is what makes the detector mean something: although it compares neighbouring
visits only, and leaves the time in view out, a journey is in one leg exactly if every two of
its sightings could be one vehicle's. It holds because hops are judged on the straight line; on
the distance of a road that is a detour it fails. (The comment at
`services/api/routers/journey.py:143-146` says they are judged on the road.)

### OcrBoost

| Action | Code |
|---|---|
| `Choose`, `Lock`, `Count`, `Insert` | `start_boost`: its cameras, the advisory lock, the cap, the rows |
| `Clear`, `Expire` | `clear_boost`, `expires_at` |
| `Age`, `Refresh`, `RefreshFails` | `BoostCache.wanted` |
| `BoostBegins`, `BoostFails`, `BoostEnds`, `RetryAllowed` | `_apply_boost`, `SharedReaders`, `report` |
| `Restart` | the worker's process |

`earlier` is history: the boosts whose outcome a process that has ended has reported.

### AlertHub

`Begin`, `Commit` and `Rollback` are the sink's transactions, as the hub sees them: a batch of
alerts with one `raised_at`, the start of the transaction, which another may share. The pump
stops when nobody is connected and keeps its cursor; `Join`, `Drop` and `Leave` are the sockets,
of which the hub learns late. A round of the pump has the steps between which it awaits:

| Action | Code |
|---|---|
| `Query`, `QueryFails` | `_since`, in a thread: the snapshot the database answers from |
| `NothingFresh`, `Deliver` | the event loop has the answer: the cursor moves, `list(self._clients)` is taken |
| `Send`, `SendLost` | one `send_json` |

Transactions commit and sockets come and go between any two of them. `due` is history: what was
there to be found while the socket was connected, which an alert is that commits beyond the
cursor while no query's answer is on its way, or that a query sees. One that commits while an answer is on
its way is due with the next query, if the cursor has not passed it by then (section 4).
`cut` is history too: the alerts a query left out because of its `LIMIT` although it returned
others of their time.

### Prober

`Read`, `Sample`, `Debounce`, `Write` and `SweepFails` are a sweep; `Create`, `Decommission`,
`Ask`/`Recommission` (a check and a write, two statements) and `StreamChanges` the operators.
`said` and `streak` are history: what the samples alone would justify. `returned` are the
cameras that came into service during the sweep, whose row may be older than that.

### Deployment

`Bootstrap` .. `CommitOne` are `migrate`, one step per statement; `Boot`, `Try`, `Taken`, `Fetch`,
`Warm` and `Warmed` the start of `main`. `RunnerFails`, `Crash`, `SessionDrops` and `WarmFails` are
the faults, `Register` the operators. A worker does not start before a runner is done
(`docker-compose.yml`); workers are started again when they end, a runner by whoever wants
the platform up. `lapsed` is history: workers
that go on without the session that holds their shard.

### ReviewQueue

`log` and `torn` are `labels.jsonl`, `events` and `served` the `Corpus` in memory. `Advance`,
`AskAgain` and `Open` put a crop on a page, `Answer` and `SkipCrop` send what its labeller
says, `Record` writes and replies. `Start` seeds the log and loads it, `SeedKilled` and
`ServerKilled` are kills in the middle of a line or between any two steps, and `Apply` folds
the log into the manifest. `word` is history: the last answer that was acknowledged.

## 3. Runs

| Run | Instance | Shows | States |
|---|---|---|---|
| `sink` | 2 cameras, 2 reads of one of them, `BatchSize` 2 | all sink invariants, refinement of `ReadLedger`, and that every held read is settled | 74,819 |
| `sink_vanish` | same | a batch can disappear without being counted (finding) | |
| `escalation` | 2 cameras, 1 slot, 1 boost reader | slot accounting, heavy models, boosts | 28,911 |
| `alerts` | 2 threads, 4 reads, 2 entries, 2 cameras, clock to 1, 1 fault; plates of `MCAlert` | alert and suppression invariants, and the three properties of `PlateKeys` | 609,796 |
| `relay` | 1 camera with both paths, 2 requests, 2 processes | accounting of processes, stops, exits and shutdown, and that pulls end | 212,470 |
| `camera` | 1 track id, timestamps 0..2 with 0 for none, 2 ticks, 2 units of media time | scenes apart, stamps not late, the longest gap, and that a stop ends the thread | 92,325 |
| `prober` | 2 cameras, 2 confirmations, 2 requests to recommission, 5 steps of operators | statuses follow samples, and settle | 342,100 |
| `boost` | 2 cameras, 2 requests, 3 rows, a cap of 1 | the cap, true outcomes, and that readers return | 21,594 |
| `hub` | 3 alerts in batches of any size, 2 sockets, `LIMIT` 2 | nothing twice, nothing due skipped, everything due is sent | 152,456 |
| `links` | 3 sightings, 2 plates, 2 looks, the first two too far apart, and two scenes of 4, `Fetch` 2, 2 processes; trails of up to 4 sightings on 5 cameras | one plate one vehicle, and what it takes to fuse two; the two properties of `Journeys` | 844,836 |
| `deploy` | 2 runners, 2 migrations, 2 workers, 2 shards, 2 faults | the schema before the workers, one worker per camera, every shard read | 86,452 |
| `review` | 3 crops, 1 verified, 1 below the floor, 2 labellers, 2 answers, 1 kill, 1 step out of turn | what a kill may cost, disputes, and that the queue drains | 939,141 |

Every property of a passing run has a mutant in `PROJECT.json` under which TLC finds it
violated. `WithinBudget`, `DeathsCountedOnce` and the `TypeOK` of every module with state follow from
proved invariants (section 5) and are not checked again. The remaining `.cfg` files are run by hand (section 4).

### Bounds, and why they are enough

* **Sink.** Two reads of one camera are the least with which two threads can be in
  `_lost` for the same key at once (the lost update), with which the buffer fills, and
  with which it can be part full and aged. The second camera is a thread that flushes
  others' reads. Nothing in the sink counts beyond a read, so no bound is needed: the
  state space is finite by itself.
* **Escalation.** Two cameras and one slot make every case of the semaphore: granted,
  refused, returned and granted to another. The default reader is not a learned one, or
  the OCR rung could never be built. No bound is needed here either.
* **Alerts.** `MaxTime` 1 with windows of 1 (plate, corroboration) and 2 (appearance) lets the
  first two hold and expire; the third holds for the retry of a rolled-back appearance
  alert, and no second read could meet its end. `MaxFaults` 1 is one failed statement or one dropped
  connection; the batch lost after a second drop is in `SightingSink` instead, where
  faults are unbounded. Three plate reads and an unreadable one, of two entries, give a
  repeated match, an insertion of a new key into a dictionary that is not empty, and an
  appearance match with and without corroboration. Threads, and the two reads of the
  same vehicle, are interchangeable.
* **Relay.** All state is per camera, but for the reaper's pass and shutdown, which go
  through the cameras one by one; one camera gives them everything that can change under
  them. Two processes are the least with which one replaces another, two requests the
  least with which one stops or replaces what the other has found. `IdleTimeout` 0 and
  `MaxPass` 0 make a unit of time longer than both: a relay is idle once time has passed
  since it was touched, and time does not pass during a pass, so no touch is newer than
  the pass's clock. The safety properties are proved for every value of both.

* **Camera.** Three timestamps include every comparison `observe` makes with `Regression` 0
  and `Jump` 1: standing still, a step, a leap either way, and none. `ProbeFrames` 2 lets a
  stream turn out to be untimed. Two ticks are two sessions with a wait between them, and
  one that is healthy. The tracker's reuse of an id across a cut needs one id. Media time and
  wall time are counted in busy intervals, with an idle interval of 2 and a longest gap of 3.
  `LastExponent` 0 brings the overflow of the backoff, which takes a thousand failures, within
  reach: nothing else depends on the number of attempts.
* **Prober.** With two confirmations a count can be complete, interrupted, or carried over a
  sweep that failed. Five steps onboard a camera, retire it, bring it back, and change its
  stream on the way.
* **Boost.** A cap of 1 is at its limit with the first boost; two requests race for it and
  replace each other; a third row is a second boost after a first has ended.
* **Hub.** Three alerts and a `LIMIT` of 2 are the least with which a query leaves a row for the
  next one, returns two of different times, and cuts one off from another of its time. Three
  are also the least of which one becomes visible between two that are newer.
* **Links.** Three sightings are the least for a chain: two that would not be linked, and one
  that is linked to both. A fourth has three others of which its query returns two: in one scene
  two look-alikes hide its plate, in the other the plate comes first and only the order makes
  the query return it. The linkers are interchangeable.
* **Deployment.** Two faults are a dropped session and a crash, or a failed migration and a
  crash in its second attempt.
* **Review.** One crop for the queue, one for the re-check and one below the floor; with
  `RecheckEvery` 2 both kinds of turn come up. Two answers can agree or not. One kill may tear
  one line.
* **Plates.** `MCRaws` has states of letters and of digits, valid, repairable and neither, with
  middles of every length; `MCPlates` one- and two-digit RTOs with every length of series, and
  marks of the Bharat series; `MCTracks` every track of up to three of six reads at two
  confidences. The definitions agree with the Python functions on several thousand random
  strings, tracks and pairs.

`CHECK_DEADLOCK FALSE` is set only for `AlertWriter`, which ends when its reads and its
clock do. The other specifications never stop or have an explicit final step.

### Fairness

`FairSpec` of `SightingSink` assumes weak fairness of each thread's `flush` (the
scheduler runs a thread that can run, and an attempt at the database ends: a dead
connection is an error), of main's turn of its loop and its exit, and of time. It does not
assume that a camera ever delivers a frame, which is the point of `EveryReadSettles`:
main alone must settle what a silent camera left in the buffer. It does not assume that
anything is successful.

`FairSpec` of `Relay` assumes that the reaper's loop, a thread inside `stop` and a shutdown
that has begun go on when they can, and that time passes: strongly, because the model's
clock waits for a pass to end, and real time for nothing. It assumes of requests, readers,
other publishers and ffmpeg nothing at all, and the media server may be unreachable at
every question. `PullsEnd` is therefore the reaper's own doing.

`CameraThread` assumes that its thread goes on: reads and connects have timeouts, waits are
on the stop event. `Prober` assumes that the loop goes on and that not every sweep fails from
some point on. `OcrBoost` assumes that the copy grows old, that some refresh succeeds, and that
a camera with a fresh copy has a frame now and then (strongly, because a copy may grow old
before a frame comes). `AlertHub` assumes that the event loop goes on, and that from no point on every query fails. `Deployment` assumes that workers
are run and restarted (`restart: unless-stopped`) and that PostgreSQL gives the warm lock to
somebody who waits for it; of the runners, which are not (`restart: "no"`), it assumes nothing;
faults are bounded. `ReviewQueue` assumes that the server is
started again, and that people go on with the crops they are given. None assumes that a request,
a console, an operator or a camera does anything.

## 4. Where the code and its comments disagree

One disagreement has a run. `sink_vanish`: an alert statement that fails is swallowed by
`consider` so that it would not "roll back the sightings themselves" (writer.py:159-161), but
in PostgreSQL it aborts the transaction. The `COMMIT` is then a `ROLLBACK` without an error,
and `flush` counts the batch as written.

The others are kept as configurations to run by hand, `tlc -config X.cfg M`; TLC's
counterexample is the schedule. Each property quotes the comment it states. TLC stops at the
first violation: where a configuration has several properties, comment out the one it has
shown to see the next.

| `.cfg` (module) | Property | What the code does |
|---|---|---|
| `SinkReport` (`MCSink`) | `LossStaysReported` | `write_metrics` pops a camera's losses before writing them (sink.py:552), and the count is gone if that write fails; sink.py:550-551 promises "exactly once" |
| `EscalationGivenUp` (`MCEscalation`) | `GivenUpReadsLight` | a boost that ends on the frame after `__reset__` restores the reader it had saved, the heavy one (worker.py:503), on a camera that has returned its slot and "goes back to light" (escalation.py:28-30) |
| `AlertDocs` (`MCAlert`) | `NoAlertLost` | the suppression window opens before the commit (writer.py:213): the retry of a rolled-back transaction suppresses its own alert; writer.py:143-144 ranks that "far worse than repeating one" |
| `AlertDocs` (`MCAlert`) | `NeverRaisesUpward` | `_forget_stale` iterates `_corroborated` outside any `try` (writer.py:240); `RuntimeError` reaches `flush`, which does not retry it. writer.py:156: "Never raises upward" |
| `RelayOrphan` (`MCRelay`) | `NoneLeftBehind` | the reaper sees a dead relay, a request replaces it, and `relays.pop(camera_id)` (relay.py:414) takes the replacement: its ffmpeg is in no table, and outlives the service (against relay.py:458-460) |
| `CameraDocs` (`MCCamera`) | `NeverBlind` | a reconnect restarts media time at zero, and the sampler compares it with the last look of the session before (sampling.py:75): no frame is analysed until the new timeline catches up; sampling.py:42-43: "Never go longer than this without looking" |
| `CameraDocs` (`MCCamera`) | `SeenInThePast` | tracks left open by a session that ended are stamped with the next session's offset (worker.py:417), which may be in the future; worker.py:626-628 promises the vehicle's own last-seen instant |
| `CameraDocs` (`MCCamera`) | `ReadsForever` | the attempt counter is not capped (capture.py:238): after 1024 failures in a row `2**attempt * 1.0` raises `OverflowError`, and the camera's thread ends; capture.py:430: "across reconnects, forever" |
| `ProberBack` (`MCProber`) | `BackMeansSampled` | a camera retired and brought back during one sweep is given the status it had before (prober.py:418), not one of a probe (cameras.py:626-627) |
| `BoostUnreported` (`MCOcrBoost`) | `OutcomeIsReported` | an outcome whose write fails is not written again (ocr_boost.py:47): the boost is shown pending while it runs; worker.py:494-495: "written back to the boost row either way" |
| `HubMissed` (`MCHub`) | `NothingMissed` | `raised_at` is the start of the transaction: one that is still open when a newer alert is polled falls behind the cursor and is never pushed (alerts.py:318, against 3-6) |
| `HubMissed` (`MCHub`) | `NothingPassed` | so does one that commits after the query was answered and before the cursor moves (alerts.py:312, 318), although it is committed, beyond the cursor, and every console is connected |
| `HubMissed` (`MCHub`) | `NothingCut` | the alerts of a transaction share `raised_at`, and `raised_at > cursor ORDER BY raised_at LIMIT 200` (alerts.py:329) does not come back to those cut off from others of their time |
| `HubMissed` (`MCHub`) | `PumpOutlivesBlips` | the pump's very first query is outside its `try` (alerts.py:306): a failure ends the task, and the consoles that are there are pushed nothing until another one joins; alerts.py:313: "a blip must not kill the pump" |
| `LinksTwoPlates` (`MCLinks`) | `OnePlatePerVehicle` | the rule compares a sighting with single sightings of the vehicle (linking.py:8-12): an unread one in between joins two plates |
| `LinksTwoPlates` (`MCLinks`) | `PlateDecides` | `ORDER BY distance NULLS FIRST LIMIT 50` (linking.py:120-121): fifty look-alikes in the window come before a sighting with the same plate whose vector is farther, which is not fetched; its plate gets a second id, even in one transaction and in order of time. linking.py:8: "a readable plate seen in the window -> that sighting's id" |
| `DeployUnread` (`MCDeploy`) | `AllRead` | a worker does not notice that the session with its shard has dropped (worker.py:693): the shard is read twice and another one by nobody, against "for the life of the process" |
| `ReviewDocs` (`MCReview`) | `CostsItself` | a line torn by a kill has no newline, and the next acknowledged label is glued to it: both are lost at the next start; review_server.py:47-49: "at most itself" |
| `ReviewDocs` (`MCReview`) | `OpinionsAreGiven` | in a corpus nobody had verified before, what reviewers label and somebody applies is seeded at the next start as another labeller's opinion (review_server.py:338-353), who agrees with them |
| `PlateDocs` (`MCAlert`) | `PlatesApart` | `GJ 8 HAB 1234` is ten characters long with a third and fourth that coerce to `BH`, and is stored as the Bharat mark `61BH4812BA`, valid; plates.py:6-8 exists to prevent two plates with one key. A Bharat mark with one letter (`_BH_RE` allows it) is never recognised: `_try_bh` wants ten characters |
| `PlateDocs` (`MCAlert`) | `GuessesStayGuesses` | two digits in the state slot are not repaired (plates.py:240-245), but their key is letters, and `match_plate` normalises it again: `IA062026`, from a burnt-in date, matches a watched `LA062026` exactly |

The last two have no state; TLC reports that the invariant is equal to `FALSE`.

Three more things the relay's model shows contradict no sentence of the code. The reaper is a
daemon thread, and the process may end while it is between the pop of an idle relay and its
`terminate` (the second half of `NothingServedAfterExit`). A dead relay that a request replaces
before the reaper sees it is missing from `exits`. And a camera whose feed a browser cannot
play, and which only the relay itself publishes, is answered with the relay of its own path for
ever: `_start` finds one that is alive and does not look which path it serves
(`StartFindsOne`).

## 5. What is proved

Every safety property of a module with state that a run checks, the refinement of `ReadLedger`,
and the two properties of `Journeys`: for any sets of cameras, reads, threads, requests,
entries and readers, any trails, any batch size, number of slots, windows, timeouts and number
of faults. The assumptions are the named `ASSUME` of each module (`SinkAssumption`,
`EscalationAssumption`, `AlertAssumption`, `RelayAssumption`, `HubAssumption`,
`DeploymentAssumption`, `LinkAssumption`, `CameraAssumption`, `JourneyAssumption`,
`BoostAssumption`, `ProberAssumption`, `ReviewAssumption`), which type the constants and say
that the "none" values are not ordinary ones; TLC evaluates them on every run. The last three
are hypotheses of their theorems, which are about instances of the modules (`Boost!`, `Probe!`
and `Review!`). Three say more. `JourneyAssumption` has the rows of a trail in order of time,
as the endpoint passes them; the speed limit is positive and times are whole. The four
durations and intervals of `CameraAssumption` are positive, and `BusyGap <= IdleGap`: the
sampler of every configuration in the repository looks at a busy scene no less often than at an
idle one, and `LooksOften` would not hold of one that did not. `DeploymentAssumption` has every
camera in a shard, as `shard_of` does with the digest of its id, modulo their number.

**SightingSink** (`Invariance`, then `TypeCorrect`, `ReadsAccounted`,
`TakenByOne`, `CopiedOnlyInDoubt`, `ClockRuns`,
`LossSeen`, `StopsClean`, `Implementation`). The invariant the properties follow from,
`IInv`, adds to them:
`BatchInHand` (a thread has a batch exactly while it is writing or counting it, and the
row being counted is in it), that `doubt` is within `stored`, and `ShutdownOrder` (a
closed camera thread has nothing unfinished, and after main's last flush only abandoned
threads can still hold reads). `HeldOnce` and `SecondCopyOnlyInDoubt` are needed for each
other: a read cannot be given to two threads because it was in only one place before, and
cannot be settled twice because whoever settles it was alone in holding it.
`LossLeavesTrace` survives the lost update of two racing `_lost` because the stored value
is a sum plus one and never 0, whatever was read. The refinement needs `IInv` too: that a
step of `Commit` moves only reads whose fate is *held* is `SecondCopyOnlyInDoubt`.

**Escalation** (`EscalationInvariant`, then `EscalationTyped`, `SlotsExact`, `BudgetKept`,
`HeavyHoldsSlot`, `BoostsEnd`, and the action property `LearnedReadersKept`).
`BudgetExact` is inductive only with `SlotByPlace`, which
ties `holds` to the program counter (a thread between the halves of `release` still holds,
one between the halves of `acquire` does not yet). `BudgetKept` follows from the
semaphore never being negative. `BoostsEnd` needs `OwnReader`: the reader saved under a
boost is never a boosted one.

**AlertWriter** (`AlertInvariant`, then `AlertsTyped`, `NoDanglingAlert`, `NoChainOfLooks`,
`SuppressionJustified`, `WantedAnswered`). `IInv` has three layers, each inductive over
those before it. `Typed` ties the row at hand, the rows left and the alerts of the open
transaction to the batch (`OfBatch`), so that a commit stores the sighting of every alert
it carries. `Justified` says that whatever either dictionary contains, or a comprehension
has read of one, was put there by an alert that was raised (`Remembered`); no order of
scans, inserts and replacements can add anything else. `Complete` says that a transaction
that can still commit has an answer for every wanted plate it is done with
(`BatchAnswered`): a failed statement leaves one unanswered, and poisons the transaction
in the same step.

**Relay** (`RelayInvariant`, then `RelayTyped`, `NoPullForgotten`, `OneStopEach`,
`ShutdownEmpties`, `DeathsCounted`). `Hands` ties the relay a thread has popped to its
program counter, `Born` says that the table has every relay under its own camera (without
which a pop could leave a second entry behind), `Draining` that after `_stop` is set nobody
adds to the table and shutdown's list covers what is in it. `DeathsCountedOnce` is not
inductive: `ExitsSpent` is, which counts only the dead the reaper will not come across
again, neither in the table nor in its pass; a burial adds exactly one to them.

**AlertHub** (`HubInvariant`, then `HubTyped`, `NothingPushedTwice`, `CursorSkipsNone`).
`SentBehind` and `SentOnce` carry both properties: what was sent to a client, or is about to
be, is behind the cursor, and nobody in the audience of a round has been sent any of it. A
query returns only what is beyond the cursor, so a round cannot repeat another; a socket that
drops in the middle of one keeps its place in the audience and leaves `clients` late, which is
why both sets are in the invariant. `RowsFirst` speaks of the time between a query and the move
of the cursor: whatever is due then and was not returned is later than every row that was, or cut.
Nothing is assumed of the times: batches may share them, and commit whenever they like.

**Deployment** (`DeploymentInvariant`, then `DeploymentTyped`, `MigratedOnce`, `CamerasApart`).
`RunnersRead` says that what a runner has read is applied for good and, of a runner that has
recorded its row, that nobody else has committed it; `RunnersApart`, that two transactions in
flight are at different versions, which is the primary key of `schema_migrations` at work.
That versions come in order needs the least pending version to exist, by well-foundedness of
`<`. `ClaimsHeld` ties a worker's cameras to a shard and the shard's lock to the worker until
its session drops.

**VehicleLinks** (`LinksInvariant`, then `LinksTyped`, `PlateKeepsId`, `PlatesFusedByUnread`).
The rules look at what the transaction sees, so the invariant says of the view of every open
transaction (`Ids`) what the properties say of the committed ids: `OneEach`, `Mixed`, and
`Rooted`, that an id is that of the sighting it was made for, without which a new id could be
one that is in use. Two views must not disagree once both commit. In order, only one open
transaction has made links (`LinkedAlone`); out of order and without `relink`, no two write
or will write the same sighting (`LinkedOnce`). That the nearest candidate with the plate has
the id of all others is where `SamePlateOneVehicle` could fail: one on either side may be further
apart than the window. In order both are earlier, so the farther is within the window of the nearer.
And the query may return none of them. `PlateFetched` says that it does so only in a crowd: the
rows it returned instead all come before every one with the plate, and there are `Fetch` of them.

**Journeys** (in `VehicleLinks_proofs`: `SightingsKept` and `ClonesFound`). The model's loops are
functions given by recursion on a number, and the installed provers cannot use the library's
induction theorems. `Induction` is therefore derived for sets of numbers, from the
well-foundedness of `<`; `Recursion` and `Counting` follow from it, that recursion does define a
function and that what every turn of a loop keeps holds at its end. `SightingsKept` has the rows of
the visits (`VisitsHold`) and those of the legs (`LegsHold`) grow by one row, or one visit, a turn.
`ClonesFound` needs more than neighbours: `Fits` names, for each sighting, the visit it lies in,
with the visits' ends being sightings themselves. Visits of a trail in order are then one after the
other (`FitsSuccessive`), drives that are possible make one that is (`DrivableBoth`, by the
triangle inequality on the line, and `Chain`, by induction on how far two visits are apart), so
sightings of different visits agree exactly if all hops do (`RowsAsHops`), and no impossible hop is
one leg (`OneLeg`). What a routing engine says is nowhere used: that is why it may be anything.

**CameraThread** (`CameraInvariant`, then `CameraTyped`, `NoTrackJoinsScenes`,
`NobodyStampedLate`, `LooksInTime`). Three layers over a clock that is `Settled` (it has a last
timestamp and an anchor exactly if the stream is timed). `SceneOK`: the first frame of a session
meets open tracks only with a cut pending. `StampOK`: all open tracks of a timeline would be stamped
with one offset, the clock's, and no observation moves that forward. `LookOK`: the media
time since the last look is the elapsed time less the sampler's, so that a gap can be read off
the two numbers the code has.

**OcrBoost** (in `Escalation_proofs`: `BoostInvariant`, then `BoostsCapped`, `OutcomesTrue`).
The cap is checked by one statement and broken, if at all, by another: `OneStarts` says that
between them the request is the only one past the advisory lock and that its cameras still fit,
whatever is cleared or runs out meanwhile. `RowsInOrder` makes the ids of an insert new, so that
no row of another camera is overwritten. `OutcomeIsTrue` needs `RowsFollowed`: a thread that
follows an open boost has it from the copy, so that the boost it leaves for another is over.

**Prober** (in `Deployment_proofs`: `ProberInvariant`, then the action property
`StatusesFollowSamples`). `CountIsStreak` bounds the count in memory by the run of equal samples;
a sweep that fails after counting keeps both. `VerdictsJustified` holds of what is about to be
written, and `RowsRead` says where a verdict that only repeats the row can come from: the
status itself, or a camera that came into service during the sweep.

**ReviewQueue** (in `Deployment_proofs`: `ReviewInvariant`, then `KillsCostOneEach` and the
action property `DisagreementsStand`). A torn line costs nothing until the next label is glued
to it, so `KillsCost` counts it as a label already lost. `Unkilled` says that before the first
kill the log is what people have said and what the manifest began with, and that the manifest
has changed only where somebody spoke: otherwise an apply could turn a dispute, or an older
answer, into the sheets' word.

### What is only model-checked

Liveness under fairness is out of the prover's reach: `EveryReadSettles`, `PullsEnd`, `StopEnds`,
`StatusSettles`, `ReaderReturns`, `PushReaches`, `FleetCovers` and `QueueDrains`. So are the
properties of `PlateKeys`: they quantify over tables of look-alike characters and the shapes of
plates, and its definitions filter and fold strings of characters (`SelectSeq`, `FoldLeft`) about
which the library has no theorem the provers can use.

## 6. Plan

1. An abstract specification of the relay (a camera is pulled or it is not), which the
   supervisor implements but for the reaper's race.
2. The watchlist cache, whose refresh by several threads may put an older list in place of a
   newer one; candidate selection and the relay fallback of the worker.

## 7. Abstractions to keep in mind

* **Sink.** No publisher (production passes none) and no `record_tamper` (one independent
  insert); `_link` is in `VehicleLinks`, on rows that are already durable. An exception in the
  `finally` of `run` before `close()` is not modelled, nor is SIGKILL: everything in memory is
  then gone, and the code promises nothing.
* **Escalation.** `EscalationPolicy` with `budget=None` (used by tests) is not modelled.
* **Alerts.** `_recent` is never pruned in the model; the code prunes it beyond 4096 pairs, and
  only of entries older than every window. The active watchlist entries are constant. Which
  reads match on vehicle attributes is data; for plates it is computed.
* **Plates.** `FoundAsShown` is of plates embossed once: `_clean` strips each of its tokens
  once, so the key of a string that begins with `INDIND` and a mark still begins with `IND`,
  and a search for that key looks for the mark alone. Confidences are exact, in hundredths; the
  code adds floats, which can break a tie the other way. A `standalone` table, the derivation
  of a table from glyphs, the trigram search after an exact one without rows, and the
  confidence a vote reports are left out.
* **Camera.** Wall and monotonic time are one clock. A join that takes too long and a stall are
  an end of the session; the ladder of endpoints is whether one opens, and the paths of
  proxied cameras are read before the registry is. The environment FFmpeg reads its options
  from is left out. A harvest at the speed of the sampler and one at that of the frames are
  the same step.
* **Links.** Distances are on a line, and which pairs cannot have been driven, or are of
  different kinds, is one relation. `Fetch` stands for the `LIMIT` of 50.
* **Journeys.** Cameras are on a line, in whole units of at least a metre and ticks: the tolerance
  of a float's last bit, and the hops of less than a metre that are never implausible, are
  hops of no distance. The confidence figure is left out.
* **Boost.** Times show only in what they end. Escalation of the same reader is in `Escalation`.
* **Hub.** `Limit` stands for the `LIMIT` of 200. What the code passes over is not owed: an
  alert that is not committed when the query that moves the cursor past its time is answered, one
  cut off by the limit from others of its time, and all that comes while the first query of
  the process, for the time, has failed. Section 4 shows each.
* **Prober.** A sample is the verdict `assess` gives it; what a probe measures is left out.
* **Deployment.** A changed checksum stops a runner before it does anything, and is left out.
  A runner waits for another one's migration when it executes its own, a little earlier than
  the insert of its row would make it wait; the insert fails either way.
* **Review.** No triage mode and no `rename_labeller`; one page for each labeller. Writing the
  manifest is one step, as is an answer after the reveal (the code counts it as blind).
  Nothing reserves a crop for whom it was handed to. A skipped crop is handed out again. A
  server that is stopped with an interrupt counts as one killed between two steps.

## 8. Not modelled

Image processing, model inference, parsing of external catalogues, external routing,
reports, presentation and video generators, acceptance scripts and the browser console have
no state that interleaves and nothing a model of this kind would tell apart; they are most of
the lines of the repository. Request handlers are one transaction each; those whose
transactions meet somebody else's are in `Prober`, `OcrBoost`, `Relay` and `AlertHub`. The
database schema is declarative: the constraints the code relies on are in the actions that
write. `PROJECT.json` gives the reason part by part.
