# Formal models of the SafeLens DEIMv2 worker

TLA+ specifications of the worker in `src/`, the TLC configurations that check
them on small instances, and TLAPS proofs about them for every instance.

The worker is one Python process: a FastAPI application on one asyncio event
loop, a handful of thread pools, module-level dictionaries as its only storage,
and one GPU. Nothing but model checkpoints is persisted; a restart begins from an
empty process, and what it finds on the volume is the subject of `Detectors`. What is hard about it is the meeting of
the event loop with threads it cannot stop (`asyncio.to_thread`,
`ThreadPoolExecutor`, abandoned `threading.Thread`s), state that is read before
an `await` or outside a lock and used after it, and several small caches, caps,
timeouts and back-offs that act on each other.

## 1. Inventory

Each part, the state it keeps, its operations, and what makes it correct. The
last column names the module, or says why there is none.

| part (source) | state | operations | correct when | modelled by |
|---|---|---|---|---|
| WebSocket streaming (`ws_vision.py`) | per connection: latest-frame slot, `closed`, inference task, four counters; process: `_INFER_LOCK`, `_SESSIONS`, totals | accept, receive frame, infer in a thread, send, tear down, shut down | every frame counted once; newest frame wins; the lock is never left behind; the inferences of connected clients never overlap; teardown ends | `WsStream`, `FrameStream`, proofs in `WsStreamProofs` |
| Model life cycle (`server.py`, `vision_backend.py`) | `_STATE` (cold, loading, ready, error), `_BACKEND_STATE` | trigger a warmup, load with fallback, diagnostic load, `/warmup?wait=true`, `ready_watcher` | one load at a time; ready means a model is in memory; ready is not undone by a late thread; pollers answer | `ModelWarmup`, proofs in `ModelWarmupProofs` |
| YOLO26 model cache (`yolo26_loader.py`) | models, failed tasks, `loaded`, `_LOAD_LOCK`, working directory | `load()`, `ensure_task()`, download of a bare id | a lazy model is tried once; `loaded` implies the detector; the directory is put back | `YoloLoader`, proofs in `YoloLoaderProofs` |
| Temporal async reasoning (`temporal_reasoning/async_reasoning.py`, `gpu_vision/concurrency.py`) | `_INFLIGHT`, `_PENDING`, `_LAST_TRIGGER_MS`, thread pool, GPU slots, reasoner state | `maybe_trigger`, `_run_job`, resubmission | one job per session within the cap; slots exact; the announced state true and finite | `AsyncReasoner`, proofs in `AsyncReasonerProofs` |
| Agent jobs and approvals (`agentic_cpu/`) | `_JOBS`, `_PENDING` count, pool, approval store, action log | draft routes, `submit_and_wait`, `_worker` with timeout, preview, execute | the counter is exact; outcomes are final; only offered drafts are executed; `/detect` is served | `AgentJobs`, `DraftTicket`, proofs in `AgentJobsProofs` |
| Build Mode sessions (`build_blueprint.py`) | `BUILD_SESSIONS`: frames, mask, plan, selection | start, lock, frame, finish, replay, expiry, eviction | caps; numbering; one asset name per session; plan follows the gestures | `BuildSession`, `Recording`, proofs in `BuildSessionProofs` |
| VLM risk reasoner (`risk/vlm_reasoner.py`) | draft cache, last run, last error, `_INFLIGHT`, adapter | `maybe_trigger`, `_run_and_cache`, `reason_sync`, `reason_async`, sweep | one job per session; a good draft is not lost to a failure; back-off kept; late answers harmless | `VlmReasoner`, `AnswerBox`, proofs in `VlmReasonerProofs` |
| Session memory (`temporal_reasoning/session_memory.py`) | per session: history per track id, scene context, corrections | update, touch, set, expire, evict | bounded; a history is of one object; corrections of the right object | `TemporalMemory`, `DetectPipeline`, proofs in `DetectProofs` |
| Label memory (`risk/semantic_memory.py`), focus (`risk/primary_risk_focus.py`) | per session: a label per track; a focus per hazard and track; both with an expiry | update, expire, evict, apply, filter | a label is shown on the object it was said of; the filter keeps the primary risk and never hides ORANGE or RED | `SceneMemory`, `DetectPipeline`, proofs in `DetectProofs` |
| Tracker (`risk/tracking.py`) | tracks per session, next id | match, create, age, drop, sweep, evict | an id names one object while the session lives; caps kept | `Tracker`, `DetectPipeline`, proofs in `DetectProofs` |
| Risk engine and matrix (`risk/risk_engine.py`, `risk/risk_matrix.py`, `risk/scene_graph.py`) | none (rules over the entities) | rules R01..R15, score, band, profile validation | more objects never lower the level; every score has one band | `Geometry`, `RiskRules`, `RuleChecks`, proofs in `DetectProofs` |
| `/detect` pipeline (`server.py`) | none of its own | authenticate, validate, configure, infer, track, reason, remember, filter, colour | the composition: fresh drafts on their own tracks, no alert hidden, context only next to its primary risk | `RequestPath`, `DetectPipeline` |
| Triggers, edge risks, corrections (rest of `temporal_reasoning/`) | none | decide a trigger, find edges, correct | a real hazard is never corrected away (it is: section 6) | `TemporalMemory`, `DetectPipeline` |
| Configuration, guards, security, runtime (`config_resolver.py`, `worker_*.py`) | accepting flag, degradation word | resolve settings, check secret and sizes, map errors to statuses | the environment never raises; the secret guards its routes; ready means risks | `RequestPath`, `RuleChecks`, the secret in `DetectProofs`; `accepting` is in `WsStream` |
| Detectors and loaders (`edgecrafter_loader.py`, `deimv2_infer.py`, `official_deimv2_loader.py`, mask code of `yolo26_loader.py`) | checkpoints on the volume, models, `sys.path` | download, load, retry, normalise | a checkpoint is whole or absent, unless a short download went unseen; each model built by its own engine; boxes in the frame | `Detectors`, `RuleChecks`, the EdgeCrafter loads in `DetectProofs`; tensor code is out of TLC's reach |
| External reasoners and scanners (`risk/gemini_reasoner.py`, `risk/grounding_dino_scanner.py`, `risk/open_vocab_scanner.py`) | last scan per session | call with retries, find the JSON in an answer, throttle | no failure is told as an answer; scans spaced | `AnswerText`, `RuleChecks`; HTTP, the privacy blur and the boxes of the scanner are not modelled |
| Segmentation, plan context (`build_segmentation.py`, `plan_context.py`) | SAM2 model | pick tasks, segment a crop, name its parts, warn | a failed model never costs a contour; a warning is never cut off | `BlueprintRules`, `RuleChecks`; pixel work is not modelled |
| Agents, tools, LLM (`agentic_cpu/agents`, `tools`, `llm.py`) | none | draft a text | wording | opaque in `AgentJobs`: may return, raise or hang |
| Schemas, bootstrap, scripts, tests | none | data classes, start-up | | not modelled |

How the parts interact:

- Client -> event loop: HTTP and WebSocket handlers. Between two `await`s a
  handler is atomic, so in every module such a stretch is one action.
- `/detect` runs its inference *on* the event loop (`WsStream!loopBusy`); the
  draft routes of the agents sleep on it (`AgentJobs!request`); the diagnostic
  load runs on it (`ModelWarmup!loop`). While one of these runs nobody else's
  handler moves.
- Threads: warmup threads, inference threads behind `to_thread`, the pools of the
  reasoner and of the agents. They interleave with the loop and each other at
  every lock and every shared read or write.
- A frame of `/detect` passes the tracker, the risk engine, the reasoner's cache,
  the temporal memory, the label memory and the focus filter, in this order, on
  one session id; each store has its own cap, its own life time and its own
  sweep. A frame of a stream passes only the tracker. Answers and jobs come back
  later from other threads. `DetectPipeline` is this composition.
- `ready` in `WsStream` is the status that `ModelWarmup` computes; `load` in
  `ModelWarmup` is what `YoloLoader` does for the yolo26 backend; the reasoner
  state of `AsyncReasoner` lives in the session memory and is read by `/detect`.

The hazards, each at its line, are in `PROJECT.json` with the properties that
watch them.

## 2. Modules

### `FrameStream` and `WsStream`

`FrameStream` is the abstract specification: what a client of `/ws/vision` is
promised, without mailbox, lock, task or thread. The client offers numbered
frames; the server answers strictly newer ones, skipping as it likes, and
nothing once it is closed.

`WsStream` is the code. One session object per connection:

| variable | code |
|---|---|
| `conn` | progress of `run()` |
| `slot` | `_LatestFrameSlot._frame` |
| `infer`, `hand` | where `infer_loop()` is, and the frame it took |
| `cancel` | `task.cancel()` was called and is not delivered |
| `thread` | the `asyncio.to_thread` worker, which cancellation does not reach |
| `received`, `processed`, `dropped`, `errors` | the session's counters |
| `lock`, `waiters` | `_INFER_LOCK` and its FIFO queue |
| `registry`, `totals` | `_SESSIONS`, `_GLOBAL["totals"]` |
| `ready`, `accepting`, `loopBusy` | model status, runtime flag, `/detect` |

Actions: `Reject`, `Accept`, `Start` for `run()`; `ReceiveFrame`,
`ReceiveBadFrame`, `ReceiveOther`, `ReceiveEnds` for `recv_loop()`; `TakeFrame`,
`DiscardFrame`, `GetTimeout`, `Acquire`, `InferenceOk`, `InferenceRaised`,
`SendVision` for `infer_loop()`; `DeliverCancel`, `Retire` for the `finally`;
`ThreadFinish` for the worker thread; `BackgroundSendFails` for the metrics and
ready-watcher tasks; `Shutdown`; `DetectBegin`, `DetectEnd`; and the
environment, `PeerGone` and `ModelStatusChange`. `failed`, `lost` and
`answered` are history: no action reads them.

Left out: the sliding windows of the fps figures and the contents of messages,
which decide nothing.

### `ModelWarmup`

`status` is `_STATE["status"]`; `loader[l]` is where each load is, from
"spawned" (the thread started, the status not yet read again) through the
requested and the fallback backend; `loaded`, `active`, `fallbackOn` are the
backend state. `poller` holds the `ready_watcher`s (`Watchers`) and the
`/warmup?wait=true` requests (`Waiters`), `patience` their remaining looks.
`Trigger` is `_start_warmup_background()`, whose check and thread start are apart
from the thread's own second check (`ThreadEnters`); this is the race the module
is about. `DebugBegin` .. `DebugEnd` is `POST /debug/model-load`, which loads on
the event loop next to any warmup thread.

### `YoloLoader`

`pc` follows each thread through `load()` or `ensure_task()` and `_load_one()`,
one step per access to the shared directory, lock or cache. A load takes the tasks
of `YOLO26_TASKS` in whatever order they are listed, the detector at any place
among them. `overlap` and `stray` are history.

### `AsyncReasoner`

`caller` is the `maybe_trigger()` call of the event loop, cut where it leaves
`_LOCK`; `at[w]`, `job[w]` are the pool threads in `_run_job()`. `recent`,
`pending` and `state` abstract time stamps to the side of their limit they are
on; `IntervalPasses`, `PendingAges`, `FailureAges` and `MemoryForgets` are time.

### `DraftTicket` and `AgentJobs`

`DraftTicket` is the abstract specification of one draft request, without queue,
thread, timeout or store: it is refused or opened, ends once, may be forgotten at
any time; its client is told once, and the truth of that moment; only a draft the
client was told of goes on offer, and only what is on offer is executed.

`status`, `stored`, `count` are the job store; `working`, `verdict`, `agent`
the pool thread, what it saw when it stopped waiting, and the watched thread it
may have abandoned; `request` is the draft route on the event loop; `store`,
`executed` the approvals. `Execute` asks every draft for an approval, as the code
comes to: drafts require it by default, and the types the registered agents make
are all in `APPROVAL_REQUIRED_ACTIONS`.

`Ticket(j)` is `DraftTicket` with `outcome` from the job store (`Outcome`), `told`
from the answer of the route, `offered` from the approval store. `EveryJobIsATicket`
says that each job implements it.

### `Recording` and `BuildSession`

`Recording` is the abstract specification of one Build session: a sequence of
frames that only grows, up to a cap, numbered from 0, of one object that is named
once.

`live` is the set of sessions kept and `created` the order in which they were
started, by which the oldest is evicted. `frames`, `asset`, `plan` are what a
session records; `request` is each keyframe,
cut at its one `await`. `Patient` sessions have a client that sends a keyframe
after the answer to the last; the others overlap them. What is recorded for an
impatient client after the await rests on what was read before it.
The default `frameId` and `sourceAssetId` are modelled; a client may send its
own and number them as it likes.

`Tape(s)` is `Recording` with `tape` from `frames` and `object` from `asset`;
`EveryWaitingClientRecords` says that the session of each patient client implements
it, across masks made off the loop, rejected frames, evictions and expiry. For an
overlapping client it does not hold (section 6).

`PlanFollowsGestures` restates the plan's index, which the code keeps frame by
frame, as a function of the whole history `gestures`.

### `AnswerBox` and `VlmReasoner`

`AnswerBox` is the abstract specification of one session of the reasoner, without
pool, queue, timer or cache: questions are asked one at a time, each is answered
once and then settled, what is shown is the answer to the newest question but that
a failure takes the place of no success, and it may be forgotten at any time.

`cache` is `_CACHE`, a draft with the number of the job it answers; `runAge`,
`errorAge` are the ages of `_LAST_RUN_MS` and `_LAST_ERROR_MS`, each up to the
limit it is compared with. `Trigger` and `ServeOnly` are `maybe_trigger()`, whole:
the sweep first, then the guards. A call on the event loop cannot meet another
between the lock and the submission, and no thread works for a session that is
not in flight, so it is one action. `WorkerTakes`, `Answer` or `TimeOut`, `Store`,
`Final` are `_run_and_cache()`; `Tick` is time. `Swept` is the set of outcomes
`_sweep()` can have: drafts of one age in ticks may differ in milliseconds.
`started`, `failedAge`, `forgotten` are history. What an abandoned
`reason_sync()` thread still writes goes into the label and focus memories
(`DetectPipeline!LateAnswer`); it never reaches the cache.

`Box(s)` is `AnswerBox` with `asked` from `started`, `phase` from the place of the
session's job (`BoxPhase`) and `shown` from `cache` (`Shown`). `EverySessionIsABox`
says that each session implements it.

### `DetectPipeline` and the modules it is built of

`Geometry` <- `RiskRules` <- `Tracker` <- `TemporalMemory` <- `SceneMemory` <-
`DetectPipeline` -> `RequestPath`: each extends the one before, and all but the
last hold no state, only the functions the code applies to it.

- `Geometry` has boxes in hundredths of the frame, in which all thresholds of the
  code are exact.
- `RiskRules` is `evaluate_rules()`, scoring and `validate_profile()`. One class
  stands for each word list of the rules.
- `Tracker` is `update()` of one session (`Candidates`, `Match`, `Assigned`,
  `Tracked`) and the store (`SweptStore`, `WithRoom`), which the session memory
  repeats. `Match` is defined by what the greedy loop achieves; `RuleChecks`
  compares it with the loop. Ids are numbers; the code sorts them as strings,
  which is the same up to `trk_9`.
- `TemporalMemory` has the histories, the edge risks, the eight triggers and the
  corrections of the mock and of the model.
- `SceneMemory` has labels, focus, drafts, `_build_scene_risks()` and the colours. A
  draft is linked by the first of its ids that is there, which is the lowest: the
  engine sorts them (`risk_engine.py:361`) and a box has one (`vlm_reasoner.py:642`).
- `RequestPath` has the shared secret, the guards, the settings each backend gets,
  and the words of the answer (degradation, reasoner state, readiness).

| variable of `DetectPipeline` | code |
|---|---|
| `setup` | the environment: reasoner off, mock or model; risk engine on, off or with a broken matrix; whether entities carry track ids; which of the label memory and the focus filter are `applied`, by default none (shadow mode) |
| `tracker`, `memory` | `_SESSIONS` of `tracking.py` and of `session_memory.py` |
| `labels`, `focus` | the stores of `semantic_memory.py`, `primary_risk_focus.py` |
| `draft`, `asked`, `late` | `_CACHE`, the running question, the threads abandoned at their timeout |
| `jobs` | the running temporal job and the pending frame |
| `reply` | what `/detect` answered in this step |
| `life`, `given`, `mixed` | history: no action reads them |

`Detect` is the whole handler after the inference: one action, for it does not
await between the tracking and the answer. `StreamFrame` is the stream's risk
hook. `Answer`, `GiveUp`, `LateAnswer` are the ends of a question; `LateAnswer`
also stands for what `POST /reason` leaves. The thread of a question holds the
engine's own list of risks, to which the handler appends the edge risks a moment
later (`vlm_reasoner.py:234`, `temporal_reasoning/__init__.py:79`): `Ask` has it read
the list before or after. `JobStarts` and `JobEnds` are `_run_job()`, whose first
write of the reasoner state may begin or sweep a memory as its last one may;
`Tick` is time. Whether a question or job is refused is open here:
`VlmReasoner` and `AsyncReasoner` say when.

The tracker and the temporal memory each read the time, a moment apart: at its limit
the memory may find the session expired where the tracker does not, and the other way
round (`MemoryRooms`).

`mixed` marks a session whose tracker was evicted while other stores still know
its ids, which got an answer later than `SlowAnswer`, or whose memory was kept for
that moment in which the tracker had let it go (`Overstayed`). In such a session an
answer may meet other objects under its ids. That happens as written, so the
properties about identity except it; without either they hold.

`SessionTTL` is the tracker's limit of an idle session, `MemoryTTL` that of the
temporal memory: the same number unless `TEMPORAL_MEMORY_TTL_MS` is set
(`session_memory.py:58-60`).

### `BlueprintRules`, `AnswerText`, `Detectors`, `RuleChecks`

Pure parts. The words of an answer and the details of profiles and rules matter to
the assumptions below and the theorems about rules, and to no run's property beyond
the hazards and levels they come to. `RuleChecks` extends them and states as assumptions, which
TLC evaluates at the start of `MCDetect`, what they compute against reference
definitions over small inputs:

| assumption | says |
|---|---|
| `MatchIsTheLoop`, `LookupFindsOwnTrack` | the matching is the code's loop; a risk finds the track of its own entity unless two boxes are equal |
| `ObjectsNeverCalm` | one more object never lowers the level of a frame, although some rules withhold findings |
| `BandsPartScores`, `StandardMatrixValid` | an accepted profile gives each score one band |
| `SecretGuardsRoutes`, `EnvironmentNeverRaises` | only the bearer of the secret passes; no environment stops a detector |
| `AppStateIdempotent`, `TerminalSurvives`, `ReadyMeansRisks` | status words are stable, failures are not downgraded, a ready worker answers in full |
| `ObjectFoundAfterProse`, `OkNeedsAnswer`, `ScansSpaced` | against a reference scanner of braces; "ok" only for an answer; throttled scans |
| `TasksAsAsked`, `ContourSurvives`, `WarningPointShown` | tasks of a mode; a contour survives failing models; a warning survives the cap |
| `TornOnlyUnseen`, `EnginesOfTheirOwn`, `DeimServesItsModel` | after every history of two loads, restarts and broken downloads; only a download that ends short unseen leaves a torn checkpoint |
| `BoxesInFrame`, `FlatPosesDecode`, `FilterBinds`, `ContoursBounded` | normalisation of what detectors give |

## 3. Runs

Twelve runs, two of which expect a violation; every property of a passing run is
broken by a mutant of a mapped
definition (`mutants`).

| run | instance | shows |
|---|---|---|
| `MCWsStream` | 2 connections, 2 frames each, symmetric | counters, lock, newest frame, totals, refinement of `FrameStream` |
| `WsStreamLive` | 2 connections, 1 frame and 1 bad one each, `FairSpec` | teardown completes, no frame is stuck |
| `WsStreamSerialized` | 2 connections, 1 frame each | *violation*: inference is not serialized |
| `ModelWarmup` | 2 warmup threads, watcher, waiter, fallback on, `FairSpec` | one load, ready serves and stays, loading ends, pollers answer |
| `YoloLoader` | 2 loads, 1 inference thread, 2 lazy tasks, any order, `FairSpec` | tried once, detector present, directory restored, lock released |
| `MCAsyncReasoner` | 3 sessions, 2 threads, 1 GPU slot, symmetric | jobs accounted and capped, slots exact, state truthful |
| `ReasonerLive` | 2 sessions, 2 threads, 1 slot, `FairSpec` | pending frames settle, announced work ends |
| `AgentJobs` | 3 requests, 1 pool thread, stores for 2, `FairSpec` | counter exact, refinement of `DraftTicket`, only offered drafts, jobs end, `/detect` served |
| `MCBuildSession` | 2 sessions (one patient), 3 keyframes, 2 tasks, room for 1 session, 2 frames | frame cap and numbering, refinement of `Recording`, plan |
| `VlmReasoner` | 2 sessions, cache of 1, 2 pool threads, 3 jobs each, `FairSpec` | one job per session, refinement of `AnswerBox`, back-off kept, jobs leave the pool |
| `MCDetect` | 1 caller, 2 streams, tracker and memory for 1 session, 6 configurations, 4 frames of 2 objects at most, 2-3 frames, 2 ticks | ids not reused, histories, labels and drafts of their track, alerts shown, context justified; and `RuleChecks` |
| `LiveCorrections` | the same with the mock reasoner | *violation*: a person is corrected away |

An operator no action uses, just before one it resembles, is that one with a
plausible mistake: the mutated form the property must notice.

Why the bounds are enough to make the interesting cases happen:

- Two connections are the fewest that compete for `_INFER_LOCK`, and with two
  frames each a frame is replaced in the slot while another is in hand. The
  proofs (section 5) lift both bounds.
- Two warmup threads are the fewest that pass the first check together; the
  diagnostic load makes three loaders. `Patience = 1` lets a poller sleep once
  and give up.
- Three reasoner sessions exceed a pool of two, and two threads exceed one GPU
  slot, so cap and slot both refuse. For liveness two sessions
  already fight for the slot.
- Three agent requests exceed the queue cap and both stores (2), so refusals and
  evictions happen, also of a job that is still running.
- Two build sessions exceed a store of one; three keyframes exceed the frame cap
  of two, and show a pinch, its release and the next pinch, which reaches the
  last of the three steps; two tasks switch the plan in the middle. `EveryN = 2` makes keyframes
  alternate between reuse and segmentation.

- Two reasoner sessions exceed a cache of one, so both reasons to sweep happen.
  Three jobs per session are a good draft, a failure that leaves it in place, and
  the retry. The limits keep the order of the defaults (interval <= cache lifetime
  < back-off < four lifetimes).

- In `MCDetect` a stream may take the only place of the tracker or of the memory,
  so evictions of one store and not the other happen; two ticks pass the limits of
  drafts, sessions, labels and focus in their deployed order. A tick is 10 to 15 s
  of the deployed times: linked drafts (8 s) and unmatched ones (5 s) die within
  one, the cache (10 s) lives one, sessions (30 s) and labels (15 s) die in the
  second. The focus (3.5 s) is given two ticks, more than deployed, so that it meets
  later frames. `SlowAnswer = 1`: an answer in time (2.5 s) kept in the cache (10 s)
  ends before its session does. Three frames show an object, lose it and see
  another. The frames put the same two objects in either order of the detector and
  objects at two edges; `MaxMissed = 0` drops what one frame misses.
- The configurations are those the environment gives: reasoner off, mock, or a
  model; engine on, off, broken. One has `ids`, the way the tests call the label and
  focus memories, and applies both: as deployed, entities carry no track id, both
  stay empty on the reading side (section 6), and neither is applied.

`CHECK_DEADLOCK FALSE` is set where the system comes to rest: when every load is
over, or when the bounded clients have sent everything.

## 4. Fairness

- `WsStream`: strong fairness of each session's own loop steps, because asyncio
  runs ready callbacks in FIFO order and a step that is enabled again and again
  between `/detect` requests is run; weak fairness of worker threads and of
  `/detect`, because an inference returns. Clients, shutdown and loader owe
  nothing.
- `ModelWarmup`: threads run, a load ends (well or not), and the loop comes back
  to a sleeping poller between diagnostic loads.
- `YoloLoader`: strong fairness per thread: threads are preemptive and a lock
  that keeps being released is given to every waiter.
- `AsyncReasoner`: pool threads run and the model call ends; time owes nothing.
- `AgentJobs`: pool threads run and both timeouts pass. The agents owe nothing;
  an agent that hangs for ever must not keep its job, the queue or `/detect`.

- `VlmReasoner`: pool threads run and the timeout passes; the model owes no answer.

- `DetectPipeline` states none: its properties are safety.

No fairness is assumed of a client, of an expiry or of a shutdown.

## 5. Proofs

Checked by TLAPS for every value of the constants under the named assumptions
of the modules (`NoSessionAssumption`, `BoundsAssumption`, ...).

**`WsStreamProofs`**: `Spec => []Invariant` where `Invariant` is the conjunction
of `TypeOK`, `Lifecycle`, `EndingIsClosed`, `LockDiscipline`, `HandFull`,
`FrameAccounting`, `LiveInferenceExclusive`, `NewestFramePending`,
`AnsweredBehind` and `RegistryExact`. The properties are not inductive one by
one. That the lock is held by the task that awaits its thread is preserved by a
cancellation only if a task is cancelled once, by its own teardown, while
it has not ended (`Lifecycle`), and only if a withdrawn waiter occurs once in the
queue (the `IsInjective` conjunct of `LockDiscipline`, with lemmas about removing
one element of a sequence). Accounting needs `HandFull`, which ties the
frame in hand to the task's place; newest-frame-wins needs `AnsweredBehind`;
exclusion needs `Lifecycle` and `LockDiscipline`. Each conjunct has its step lemma,
one leaf per action. From the invariant follow `TypeCorrect`,
`AccountingCorrect`, `LockCorrect`, `ExclusionCorrect`, `NewestCorrect`,
`RegistryCorrect`, `RetirementCorrect`, and `StreamsImplemented`: each session
implements `FrameStream` (initial states map to initial states, each step to a
step or a stutter), which needs `EndingIsClosed` because a teardown must not be
seen to reopen the stream.
`TotalsCorrect` (`TotalsExact`) is about a sum over the retired sessions. The sum is
the size of a set, `Tally`: the pairs of a session and a number up to its counter.
A retired session's counter no longer moves, so the set stays
(`TallyUnchanged`), and the session that retires adds elements of its own
(`TallyGrows`), as many as the code adds to the totals.

**`ModelWarmupProofs`**: `Spec => []Invariant` with
`Invariant == TypeOK /\ OneWarmupLoads /\ ReadyServes /\ LoadIsAnnounced /\
LoadLeavesBackend`. `OneWarmupLoads` is not inductive: a second thread is kept
out because the first has set the status to "loading", and that holds while it
loads only because nobody but a loader overwrites it (`LoadIsAnnounced`).
`ReadyServes` needs that a load that ended well has left an active backend in
memory (`LoadLeavesBackend`). The action property `ReadyNeverReloads` follows
from the same invariant.

**`VlmReasonerProofs`**: `Spec => []Invariant` with
`Invariant == TypeOK /\ JobsInFlight /\ JobsDistinct /\ ErrorsRemembered`. That a
stored answer is to the newest question (`DraftsCorrect`) needs that a session has
one job at most and is in flight while it has one; the two hold each other up,
since the job that ends takes its session out of flight. `BackoffCorrect` needs that the age the code remembers of
a failure is the true one until a sweep (`ErrorsRemembered`). `InflightCorrect`
adds that a session in flight has a job (`InFlightHasJob`), and counts.
`BoxesImplemented` is the refinement of `AnswerBox`, each action a step of the box of
its session and a stutter of the others': that an answer is told of the question
asked last is `JobsInFlight` again, and a session moves only with its own job
(`PhaseRests`). `NoneAssumption` says that `None` is no job, no draft of the cache and
no draft as it is shown.

**`AgentJobsProofs`**: `Spec => []Invariant` with
`Invariant == TypeOK /\ LoopWaits /\ JobsMoveOn /\ SuccessIsTheAgents /\
CountExact /\ OnlyOfferedDrafts`. `CountExact` says how many places of the queue
are taken, and a place must be given back once: a job is in the queue once or with
one thread (`JobsMoveOn`), also when the store has evicted it. That a job is
created once, by the request the loop is at, is `LoopWaits`. `OutcomesCorrect` is an
action property of the same invariant: whoever settles a job finds it running.
`DraftsCorrect` needs `SuccessIsTheAgents`: a thread takes an agent for finished only
if it is, also when the agent ends just after its timeout.
`TicketsImplemented` is the refinement of `DraftTicket`. It needs one invariant more,
`Opened`: a job in the store, or at which the loop waits, has been opened, so that an
eviction or an answer never meets a request that has no job. A draft that another
pushes out of the approval store is dropped (`TicketDrops`), and never the one just
offered (`NewestHasLast`).

**`AsyncReasonerProofs`**: `Spec => []Invariant` with
`Invariant == TypeOK /\ CallsAndWorkers /\ OnePlaceEach /\ CapKept /\ SlotsExact /\
AnnouncedIsPending /\ StateTruthful`. A session in flight is in exactly one of three
places: being submitted by the event loop, queued, or run by one thread
(`OnePlaceEach`). `JobsAccounted` follows. The hard case is the end of a job, which
resubmits the pending frame: it is admitted again because the session has just left
its own place under the cap (`CapKept`), and the state announces work then only if
a fresh frame waits (`AnnouncedIsPending`). `SlotsCorrect` counts the threads that
hold a GPU slot, through every way a job can end.

**`YoloLoaderProofs`**: `Spec => []Invariant` with
`Invariant == TypeOK /\ LockHeld /\ DetInPlace /\ TriesExact /\ OneMover`. A lazy
task is constructed at most once because the lock is held exactly within
`_load_one()` for a lazy task (`LockHeld`) and its holder found no outcome when it
entered, which nobody can have written since (`TriesExact`); `DetInPlace` gives the
required model of a loaded backend. The working directory is the process's: as long
as moves do not overlap there is one mover, it remembers where it came from
(`OneMover`), and so `WorkingDirCorrect`.

**`BuildSessionProofs`**: `Spec => []Invariant` with `Invariant == TypeOK /\
OneInFlight /\ FramesCappedInOrder /\ OneAssetPerSession /\ PlanRemembers /\
PlanFollowsGestures /\ SessionsCapped`. What a keyframe read before its `await` is
still so after it, for a patient client, because it is the only one in flight and no
other handler writes frames or the mask (`OneInFlight`); an eviction in between takes
the session out of the store but not out of the handler's hands. `PlanCorrect`
relates the plan's index to the number of pinches in the whole history: one more
gesture adds at most one pinch (`PinchesOfMore`), and the index moves with it up to
the last step (`GestureMovesPlan`), given what the plan remembers of the gesture
before (`PlanRemembers`). No induction over the history is needed, since the count
is the cardinality of a set of places. `TypeCorrect` also states the cap on sessions,
`MAX_SESSIONS`.
`RecordingsImplemented` is the refinement of `Recording`: the keyframe that comes back
from its `await` finds the frames and the name as it left them, so it appends the
next number and names the object only if it has no name. `AssetCorrect` follows the
same way.

**`DetectProofs`** has four layers.

The tracker and the caps: `Spec => [](Invariant /\ StoresKept)` with
`Invariant == StoresMade /\ GivenBelowNext /\ CapsKept` for the tracker and
`StoresKept == MemoriesKept /\ LabelsKept /\ JobsKept /\ BoundsKept` for the rest. `IdsNeverReused` is about
two states and needs a fact about all earlier ones: every id ever given in this
life of the session is below the next one (`GivenBelowNext`). That a frame keeps
it needs that the entities which get room are the first ones and get consecutive
places (`NewbornPlaces`, by the pigeonhole principle), and that a track is
matched only if the session has it (`MatchIsOfCandidates`). `TypeCorrect` is the
cap of every store: sweep and eviction make the room they promise (`RoomIsMade`,
for the tracker and the temporal memory alike), a history keeps its last rows
(`HistoryGrows`), labels stay under their cap (`OpinionKeepsLabels`), one frame at
most waits behind a running job (`QueuesStayShort`). It assumes of frames only
that they are finite sequences of entities.

What the stores say: `Spec => []Said` (`SaidHolds`). Labels, focus, drafts, the open
question and the abandoned ones each name tracks of some life of the session's
tracker. No store knows whether the tracker has begun anew since; what keeps them
honest is time. `Current(k, l, n, age)` says that what was asked `age` ticks ago is
about the life the session is in, or that `age` is past the limit of an idle
session. An entry and the tracker age in the same step, a frame makes the tracker
younger, and a life ends only by expiry or by an eviction, which marks the session
as mixed. So every step carries `Current` over (`Carried`), and `Said` is the
conjunction over the five stores, each with the delay of its answer counted in.

What a frame shows, from `Said`:

- `AlertsCorrect` (`AlertsNotHidden`) holds without any condition.
- `LabelsCorrect`, `SuppressionCorrect`, `DraftsFreshCorrect` assume `AnswersExpire`:
  the life of an entry and the delay of an answer that is not slow fit into the
  limit of an idle session. As deployed they do: labels live longest, 15 s of the
  30 s of a session, and an answer in time takes 2.5 s, so that one may come up to
  15 s late before it is slow. The code compares none of these settings. `MCDetect`
  has the limits at equality.
- `HistoriesCorrect` (`HistoryOfOneTrack`) assumes `MemoriesExpire`: the temporal
  memory is kept no longer than the tracker. Unless `TEMPORAL_MEMORY_TTL_MS` is set
  they are equal, and section 6 has what happens above it. A frame at the very limit,
  where the two clocks may differ, marks the session as mixed. Its invariant is
  `MemoriesSaid`: the rows under a track id are of one life (`OneTrack`), which is
  the tracker's as long as the memory has not expired (`RowsCurrent`).

Rules without state, for every input. What holds at every place of a sequence, or at
every step of a history, is shown at the least place where it would fail
(`LeastNatural`, from the well-foundedness of the natural numbers):

- `ProfilesPartScores`: the bands of a profile the loader accepts, of any number and
  over any scale, part the scores, and each score is given its band.
- `ObjectsOnlyRaise`: one more object never lowers the level of a frame of any number
  of objects. A rule that withholds a finding has told of the same hazard or of fire
  instead (`EscalatingGrows`), which the matrix puts no lower (`GraverFindings`).
- `SecretGuards`: with a secret set, only who presents it first passes, except to a
  public path, and no request that is too long.
- `EdgeCrafterLoads`: over any history of loads, broken downloads, failed builds and
  restarts, a file under a checkpoint's name is torn only if a download ended short
  unseen, and a loaded worker has
  both models, the detector built by the other task's engine exactly when the load
  that completed the worker followed one that failed on the pose model (`MixedUp`).
  `Load` is one call; two at once on one volume are not in it (section 6).

`TypeOK` of all eight specifications is proved; of these only `MCDetect` also
checks it in a run, for the caps it is about, and adding it to the other `.cfg`
files finds no violation. The same goes for `DraftsAdvance`, `OutcomeFinal` and
`OneAssetPerSession`, which are theorems too; their runs check the refinement, which
says more. Every inductive invariant, `Said` and `MemoriesSaid`
included, also holds in TLC on the instances of section 3, and `MCDetect` satisfies
`AnswersExpire` and `MemoriesExpire`.

Only model-checked:

- all liveness (`FairSpec`), which is out of the prover's reach;
- what `RuleChecks` compares with reference definitions over bounded inputs, but for the
  four rules above;
- the two violation runs, whose properties the code does not have.

No module uses a RECURSIVE operator.

## 6. Where the code and what it says of itself part

Checked by a violation run and listed under `findings`:

- `WsStreamSerialized`: `ws_vision.py:40-42` says inference is serialized
  process-wide. Cancelling a session's task releases `_INFER_LOCK` while its
  thread still infers. What does hold is `LiveInferenceExclusive`: inferences of
  connected clients do not overlap.
- `LiveCorrections`: `semantic_corrections.py:12-13` says real hazards are never
  suppressed by a scene hint. `mock_corrections()` gives entity i the id of the i-th
  track, while tracks are sorted by id: with the bus listed where the person's
  track stands, the suppressed bus carries the person's `track_id`.

Seen while modelling and visible in the modules, without a run of their own:

- A graceful shutdown sets `closed` at once, so `safe_send()` discards the result
  of an inference in flight, although `server.py:332-333` speaks of draining it
  (`WsStream!Shutdown`, `SendVision`).
- A poller that triggers a warmup may read the error of the load before, since the
  new thread has not yet set "loading" (`ModelWarmup!TriggerAndPoll`, `Poll`); and
  `WARMUP_TIMEOUT_S` marks nothing as failed, unlike `README.md:411`.
- An agent job that outlives the two seconds of `submit_and_wait()` is answered 202
  and its draft is never registered, so the approval documented in
  `docs/agentic_cpu_inside_runpod.md:44,63-64` answers `action_not_found`
  (`AgentJobs!Answer`).
- The cap of 240 frames (`README.md:162-163`) is tested before the `await` and the
  frame appended after it: overlapping keyframes exceed it. For a patient client
  `FramesCappedInOrder` holds.
- The pending frame of a session starts a job the moment the previous one ends,
  past the rate limit of `docs/temporal_reasoning_integration.md:37` and the
  pause after a failure of `async_reasoning.py:57` (`AsyncReasoner!Finally`).
- The draft routes sleep on the event loop for up to two seconds, although
  `router.py:4-5` says no route can block `/detect`; `DetectIsServed` is what
  holds (`AgentJobs!StopPolling`, `DetectServed`).
- `finish` sets a flag no handler reads: keyframes sent later are recorded
  (`BuildSession!FinishSession`).
- `yolo26_loader.py:260`: `load()` takes no lock for the detector and `os.chdir()`
  belongs to the process, so two loads may download weights outside the cache
  (`YoloLoader`'s `stray`).
- `vlm_reasoner.py:96` promises a minimum wait after a failure. A failure keeps an
  older good draft with its old time, and the sweep of that draft forgets the
  failure with it; `BackoffUnlessForgotten` is what holds.
- A poll-only frame (`do_not_start_new_reasoning_job`) gets the draft without
  `_cached_at_ms` (`vlm_reasoner.py:164-172`), so the limits on linked and
  unmatched drafts (`server.py:935-939`) pass it by (`DetectPipeline!Served`).
- With `TEMPORAL_MEMORY_TTL_MS` above `SESSION_TTL_MS` the temporal memory outlives
  the tracker, whose ids begin at 1 again: the history under an id is then of two
  objects (`MemoriesExpire` in `DetectProofs`; TLC finds it in `MCDetect` with
  `MemoryTTL = 3`). No code compares the two settings.
- Answers slower than a session's life, and evictions of the tracker alone, bring
  labels, focus and histories of one object to another (`mixed`). A late answer also
  overwrites newer labels (`vlm_reasoner.py:302`).
- The loop that drops the histories of unseen tracks looks for empty ones, and none
  is (`session_memory.py:179-184`; `TemporalMemory!Remembered`). Frames without
  tracks keep histories under e0, e1, ..., the place in the frame, which mix objects.
- A broken matrix raises after the tracker took the frame.
- Edge risks are appended after the scene risks are built: they never are in
  `scene_risks`, unlike the comment at `server.py:1294`, yet they support a focus, so
  that context is dimmed next to a primary risk that has no colour.
- As deployed, entities carry no `track_id`, so the label and focus memories are
  written and never read; the box fallback for labels finds no stored box; a focus
  keyed by a detection suppresses its own risk (`primary_risk_focus.py:470` against
  `496-499`; not modelled).
- The stamping by box colours neighbours within 0.12 (`server.py:1105-1108`); equal
  boxes make a risk name another entity's track (`RuleChecks!LookupFindsOwnTrack`).
- The 500 answer says "detect_only" without setting it (`server.py:1370-1380`); the
  degradation word is that of the last request.
- A malformed `YOLO_CONF` hides a well-formed `YOLO26_CONF` (`RequestPath!EnvGeneric`);
  EdgeCrafter ignores the request's `img_size`.
- A double quote in the prose before an object hides it from `_json_candidates()`,
  although `vlm_reasoner.py:1000` says nothing but the lack of a balanced object
  does. More than four `box_updates` are a schema error.
- A failed scan uses up its interval, and the times of scans are never dropped.
- `crop_analysis()` loses the parts it has when the mask fails, and takes the most
  confident mask where its docstring says the largest; a SAM2 being built counts as
  loaded, so a second thread falls back meanwhile; the pose filter of
  `mode_tasks()` (`yolo26_loader.py:100-105`) never bites; the word "ic" makes
  "plastic" electronics; a mask of at most 120 points has up to 239.
- `urlretrieve` notices a short download only by the length the server declared. One
  without a length that ends short is renamed into place and found ready by every later
  start (`edgecrafter_loader.py:137-154`; `TornOnlyUnseen`).
- A pose model that fails to build leaves its subtree first on `sys.path`, and the
  next load builds the detector with it, unlike `edgecrafter_loader.py:12-15`. Two
  loads at once (warmup and `/debug/model-load`, or two workers on one volume) share
  one `.part` file: the first rename publishes what the other still writes, the
  second one fails. The DEIMv2 fallback publishes `_model` before it is on its
  device: a failed move leaves a "ready" model that the official path serves.

## 7. Plan

Done, in the order of importance to the worker: streaming (with a refinement),
model life cycle, model cache, background reasoning, agent jobs, build sessions,
the VLM reasoner, the `/detect` pipeline over tracker, risk engine, temporal and
scene memories, request path and configuration, text of answers, blueprint rules,
the other detectors. The safety properties the passing runs check are all proved, and
so are the four refinements (`FrameStream`, `AnswerBox`, `DraftTicket`, `Recording`).

Next, proofs: the matching as the code's loop (`MatchIsTheLoop`) and the scanner of
braces (`ObjectFoundAfterProse`), once written without folds.

Next, models: two EdgeCrafter loads at once, and a focus keyed by a detection.

Not modelled: tensor and pixel code, prompts and image encoding, HTTP clients and
the privacy blur (data no property here tells apart, or I/O); the wording of
labels, reasons and instructions; latency windows and fps figures, which decide
nothing; the informational routes; `bootstrap.py`, schemas, scripts, tests and
deployment files, which keep no state of the worker.

## 8. Running

    tlc -workers 2 -config MCWsStream.cfg MCWsStream
    tlc -workers 2 -config MCDetect.cfg MCDetect
    tlapm WsStreamProofs.tla

`PROJECT.json` lists components, runs, mutants, the lines each definition
stands for, findings, hazards and theorems.
