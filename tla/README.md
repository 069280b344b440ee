# Overlord11: specifications and proofs

TLA+ modules that model the parts of Overlord11 in which several things happen
at once: the life of a job between its REST handlers, its worker and its runner
thread, the turns of a run, its provider calls, the execution of the tool calls
of one model response and what they leave on record, the job records with their
file and their stream of events, and what the handlers remember of logins, keys,
selections and provider health. TLC checks them on small instances, TLAPS proves
theorems about instances of any size.
`PROJECT.json` says, for each definition, which lines of `src/` it models.

## The system

| component | state | operations | with whom |
|---|---|---|---|
| Job API (`backend/api/jobs.py`) | none of its own | create, clone, retry, restart, start, stop, pause, resume, delete | calls the store and the bridge, on the asyncio loop |
| Session store (`backend/core/session_store.py`) | the job records, `jobs.json` | create, update, delete, append_event, persist, load | handlers, workers, runner threads (event callback) |
| Engine bridge (`backend/core/engine_bridge.py`) | queue, completion events, conflict registry, stop events and stop files, workers | smart_enqueue, worker loop, wait for dependencies, run_job, signal_stop | workers share the loop with the handlers and hand runs to threads |
| Conflict detector (`backend/core/conflict_detector.py`) | none | extract domains, detect_conflicts | called by smart_enqueue |
| Engine runner (`engine/runner.py`) | the turn loop of one run | provider call, rate-limit wait, tools, completion guards | a thread; reads the stop event; its event callback writes to the store |
| Provider bridge (`engine/orchestrator_bridge.py`, `engine/rate_limit.py`) | provider order, cooldowns, sticky choice | call with fallback | called by the runner |
| Tool execution (`engine/dependency_analyzer.py`, `engine/parallel_executor.py`, `engine/tool_executor.py`) | waves, pool, results, `os.environ` | partition, execute_all, execute | called by the runner; threads per wave |
| Tool gateway (`tool_gateway/`) | counters of rejected calls | parse, normalise, validate, execute | called by the tool executor |
| Command tool (`tool_gateway/tools/shell_runner.py`) | a process group per command | start, watch, terminate, kill, collect output | the thread of its call; reads the stop file named in `os.environ` |
| Session, events, healing, cache (`engine/session_manager.py`, `event_stream.py`, `self_healing.py`, `tool_cache.py`) | log files, event list, cache entries | append, emit, lookup | tool threads; the cache is used by nobody |
| Artifacts (`backend/api/artifacts.py`) | the files of a session | list, choose the primary output | reads what runs and tools have written |
| SSE broadcaster (`backend/core/event_stream.py`, `backend/api/events.py`) | subscriber queues | subscribe, publish | published to from runner threads and from the loop |
| Authentication (`backend/auth/auth.py`, `backend/api/auth.py`) | users, sessions, login counters | login, logout, validate, purge | every request |
| Settings and health (`backend/api/setup.py`, `providers.py`, `health.py`) | `.env`, `os.environ`, `config.json`, `.webui_prefs.json`, `.setup_complete`, a health cache | save keys, select, complete, reset, check | read by the next run's bridge |
| Server (`backend/main.py`) | | load, start and stop the workers | |
| Other endpoints, tools, front end, launchers | files | | |

What is hard to test in it, and therefore what the properties are about:

* The handlers and the workers interleave at awaits, the runner threads
  anywhere. A handler writes a job's record and its stop event; the runner's
  event callback reads and writes that record without either knowing.
* A worker waits for prerequisites while it holds one of N slots, on events that
  outlive the runs they were made for.
* Everything about a run (stop event, stop file, completion event, entry of the
  conflict registry) is found by job id, and a job can be started again while
  its last run is winding down.
* The server may die at any time and finds its jobs in a file.
* The calls of a wave share `os.environ`, counters and the session's log, and a
  STOP finds calls at every stage. So do the calls of several jobs.
* A command must end when its time is up or its job is stopped, whatever its
  processes do.
* Handlers that touch no job write several files, and keep in memory what time,
  a logout or a restart takes away.

`PROJECT.json` lists these hazards at the lines where they bite.

## The modules

| module | what it is |
|---|---|
| `JobBridge` | jobs, handlers, registry, workers and runner threads: one state machine |
| `GatedJobs` | the abstract specification of what the bridge promises about a job and its prerequisites |
| `MCJobBridge` | instances for TLC: the worlds of the runs |
| `JobBridgeProofs` | what holds for any clients: types, nobody is stranded, only a halted job is enqueued again, runs are `RunThread`s; and where jobs are STARTed once: one run per job, stops arrive and stay |
| `JobBridgeGateProofs` | where prerequisites and registry can be relied on: the gate, the refinement of `GatedJobs`, exclusion by resource, waiting workers are woken |
| `RunThread` | the abstract specification of a run: the thread the bridge waits for |
| `RunnerLoop` | the turn loop of `EngineRunner.run`, from answers and results to the verdict |
| `MCRunnerLoop` | the policies, answers and tool calls of its run |
| `RunnerLoopProofs` | verdicts, evidence and retries for any limits, the refinement of `RunThread`, and what bounds the length of a run |
| `ProviderFallback` | a run's provider calls: probes, fallback over models and providers, cooldowns, the sticky model |
| `MCProviderFallback` | the providers and configurations of its run |
| `ProviderFallbackProofs` | its safety properties for any providers, models and configurations, and what bounds the length of a call |
| `JobStore` | the job records, `jobs.json`, its writers and crashes, and a subscriber's queue |
| `MCJobStore` | which job a run is of, and the faults |
| `JobStoreProofs` | the safety properties of `JobStore` for any jobs, runs and limits |
| `ToolWaves` | partition, waves, pool, environment and results of one batch of tool calls |
| `MCToolWaves` | the calls TLC makes batches of |
| `ToolWavesProofs` | the safety properties of `ToolWaves` for any batch, tools and pool, and why a batch ends |
| `ToolCalls` | one call from its start to its result: environment, gateway, counters, process; for the calls of all jobs |
| `SessionFiles` | extends `ToolCalls` with what a call and a run leave on record, and the choice of the primary output |
| `MCSessionFiles` | the tools, requests and waves of its runs |
| `SessionFilesProofs` | the safety properties of both for any jobs, calls, tools and waves |
| `Console` | logins and sessions, keys, the selection, the wizard, the health cache; time and restarts |
| `MCConsole` | the users and providers of its run |
| `ConsoleProofs` | its safety properties for any users, tokens, limits and lives |

### JobBridge

One action per handler; what the code does between two awaits is one step.
`WorkerTake` is the way from `queue.get()` to the next await, through
`_run_job_with_deps`, the first half of `_wait_for_dependencies` and, for a job
with no prerequisites, `run_job`. `DepsSatisfied`, `DepsFailed` and `DepTimeout`
are what can follow the wait, `RunEnd` what follows the await of the run, the
`finally` of `_worker_loop` included (`Leave`). The thread of worker `w` is in
`pc[w]` while the worker awaits it: every stop check, and each read and each
write of the event callback, is a step (`ThreadAgentStart` reads RATE_LIMITED,
`ThreadUnlimit` writes RUNNING later). `reg` stands for `_job_stop_events` and
`_job_stop_files`: it says whose run they belong to; `Stale` is a registration
that no run will use, left by an `EngineRunner` whose constructor raised.
`ServerRestart` is both a shutdown and a crash followed by `load()`.

`CreateJob` takes any ids as prerequisites, as the code does: of jobs, of jobs
that were deleted, and the `Strangers`, which are ids that no job has. The gate
makes an event for each that nobody sets, and the worker waits for its hour; to
the code an id of no job and one of a deleted job are the same, so `Init` has
the strangers deleted. The stop marker of a job is written and removed by
`WriteStopFile` and `UnlinkStopFile`, which an OSError may keep from doing it
("file_error"); the event is set first and in any case. With "error" the thread
may raise before and within its turns and, when they are over, in the files it
still writes.

What is abstract: a prompt is the set of resource domains it mentions; a turn of
the runner is one step that may end the run, go on, or hit 429s from every
provider; the file of the store is in step with its records. The semaphore of
the worker loop counts as many permits as there are workers, so it never blocks.
The cap of 1000 completion events is not reached. `MaxQueue` bounds the queue:
in the worlds without a second START no queue ever holds more than the jobs.

`Ops` names what clients and environment do in an instance, so that a property
that needs an assumption says which. With every client allowed `NoJobStranded`
holds: no job is live without a run (`LiveJobHasRun`), none is queued with nobody
to run it (`QueuedJobIsScheduled`), the registry leaks nothing
(`ActiveJobIsScheduled`), and every run is a `RunThread`
(`RunsImplementRunThread`, the specification that `RunnerLoop` implements too:
`RunPhase` maps the places of a thread to its phases). `OnlyHaltedRequeued` is
what the refusals of START are for: of two STARTs of a job that was put aside,
or of the START of one that was not, only one enqueues it; a job that is on the
queue or in hand gets there again only when it was paused, limited or stopped,
or has failed, which START allows. `RunIsStoppable` is that
what is registered is the run in progress and no other run's marker stops its
tools (`SignalReachesRun`), and that a run whose job is PAUSED
or stopped by the user was told (`StopIsTold`), file or no file. `WaitersAreWoken` is
`NoPoolStall`, as long as there is a job some worker can go on or sits out the
hour of an id of no job (`WaitsForNobody`), and
`WaitedForIsScheduled`, for a prerequisite that is a job somebody will set the
event. The gate holds when nobody re-queues or deletes a job and there are either no
STOPs or no 429s; exclusion by resource when, besides, every job enters by
`smart_enqueue` (START and RESTART do not ask the registry, and a job waiting
for its START is not in it). Workers are woken when no job is created to wait
for a START and none is STARTed again.

### RunnerLoop

`pc` is the place in the loop: its head, the provider call, the cooldown, the
stop check after a call without a response, the tools, their results, the stop
check of a turn's end. Each look at the stop event is a step, since `Stop` may
come from another thread at any time. `End` is every way out: it also does what
the code after the loop does (a run out of turns becomes `failed` and gets a
reason). The verdict is the code's three variables. An answer is the set of the
features that the completion guards look for in its text, so that each guard is
a condition on a set; whether a prompt is trivial, what file it requires, and
the policies are in `conf`. `Result` is one pair of the loop over the results;
`batch` keeps the calls looked at, all different after `_canonicalize_and_dedupe`.
The required file may appear or vanish whenever tools run. The length of a
cooldown is left out: `Wake` may come at any time, at once when the run is told
to stop. `Raise` is an exception that `run` does not catch: the session's files
are written unguarded before a call, after it, between results and, when the
verdict is there already, in `log_product_output`, `write_job_summary` and
`close`. Such a run has no verdict, whatever it had come to.

It implements `RunThread`, whose phases are those that the thread of a worker
goes through in `JobBridge`. There `FairSpec` assumes that a run that comes to
its turn again and again ends: `EndsUnlessLimited` is the reason.

### ToolWaves

`Place` is one round of the greedy loop, `OpenWave` one of the loop over the
waves with its stop check, `CallStart` a thread of the pool (or, for a lone
call, the thread of `execute_all`) that takes the oldest call. A call then goes
through the look for the stop file, the saving of the old context, its export,
the tool, the restore and the log: `os.environ` is shared, so each is a step.
`Stop` is `signal_stop` from the loop's thread, first the event, then the file
(which it may fail to write). A call is its tool and its paths. All keys of the
context go together as one value: `job`, `other` (left by a run before) or
`unset`. The runs of other jobs in the same process are in `ToolCalls`.

### ToolCalls and SessionFiles

`ToolCalls` goes into one call, and takes the calls of several jobs together.
`pc` is the place in `ToolExecutor.execute`: the stop check, the saving and the
setting of the context, the gateway, the tool, the restore. The gateway is
`Normalized` (aliases in their order, a lone value wrapped into a list) and
`Issues` (required, unknown and ill-typed arguments) over arguments that are a
type each. A rejected call adds one to the total of its job and then to each of
its fields: `ReadCount`, `AddOne` and `WriteCount`, since nothing locks the
dictionaries. A command is a process group, of which the leader and one child
that holds its pipe matter: `Wait` is a round of `_wait_for_process`,
`StopProcess` and `TimeOut` its ways out, `Kill` what follows SIGTERM, and
`GiveUpOutput` the end of `communicate` on a pipe that somebody still holds. A
process may ignore SIGTERM and end at any time or never.

`SessionFiles` is `_execute_one` around it: announce the call, execute, write the
trace, append to the log, rewrite `events.json`, announce the result. The write
is three steps (`DumpLog` looks at the list, `OpenLog` empties the file,
`WriteLog` fills it) without a lock, so that threads may leave an older list, or
the one over the other (`Overlays`). `WriteFails` may strike any of them.
`Finish` is the end of the run, write by write: the last answer (`WriteAnswer`),
the summary and the first step of `close` (`CloseSession`), and the log as a
whole, twice (`SaveLog`). `EndFails` is a failure of any of them: the run raises,
and leaves a session whose log is old, empty or in part, even one that is closed.
Then the user looks: `Files` is what `_collect_artifacts` lists, `Buckets` the
tests of `_output_rank` in their order and `PrimaryOutputs` what is chosen.

What is abstract: the three variables of a context are one; the trace number and
the path made of it are one step, as they are under the interpreter's lock; a
resumed session is one whose `events.json` is found (`Found`); one wave of calls
is looked at. A second run of a job in the same folder, the timeline file, the
Windows branch and commands without captured output are left out.

### Console

None of these handlers awaits, so each is one step of the loop (they would not
be on a thread pool: all are `async def`). What matters lies between requests.
`Tick` is the passing of time: sessions have ticks left, failed logins and the
cache have ages, which saturate where nothing depends on them. `Restart` loses
what is in memory and reads `.env` again, which does not override what the
server's own environment has (`StartEnviron`). A PUT of the selection writes
`.webui_prefs.json` for the UI and `config.json` for the engine;
`UpdateSelectionFails` stops it at any point, `SaveKeyFails` leaves `.env` empty.
`NetChanges` is a provider that comes or goes. `owed`, `acked` and `quiet` are
there for the properties: the login a token was issued for and whether another
session of its user was logged out since, the selection last
acknowledged, the time since anything the health tells of has changed.

What is abstract: passwords are right or wrong; a check of a provider finds it
healthy or not; the validation of a key before it is saved changes nothing. A
server run with authentication switched off, and `settings.json`, which is
written and read by nobody, are left out.

### ProviderFallback

One bridge serves one run; `NewRun` is the constructor of the next. `Call` is
the runner's `call_provider_streaming`, or `call_provider` when nothing streams.
`Probe` is a round of `_diagnose_providers`, which only the first call of a run
makes. A pass then goes along the providers (`SkipProvider`, `TryProvider`,
`GiveUpProvider`) and along the models of each (`Answer`, `Refuse`). The two
passes are written twice in the code; they differ in one condition, in
`AllLimited`, in the providers they know how to ask (`Dispatched`), and in that a
streamed text reaches the user piece by piece, before it is known to be an
answer: `Token` is its first piece, `shown` the models of which there is one.
`EndPass` goes from streaming to the other pass or ends the call.
`shared` stands for the two class attributes that every bridge copies when it is
made, `sticky` and `supported` for the copies. `answers`, `offers` and
`lastAnswer` are not in the code: they record what happened for the properties.

What is abstract: a call that raises and one that returns a blank text are one
kind of refusal, a 429 is the other; times are left out, so `cooldowns` is a set
of providers; which models follow the first ones is a matter of scores, and any
order will do. No provider is named twice in the order (`ConfsAssumption`).
Runs that call at the same time are not in the module.

What the code does here differs from what is said of it in places that no run
of ours is about. `_test_provider_health` knows three providers, so `nvidia_nim`
never passes its probe and is never asked, although `config.json` has it,
`_dispatch` (but not `_dispatch_streaming`) knows it and `ONBOARDING.md:295` has
it in the order. The docstring of `_get_model_fallback_order` puts the user's
model "first, always" and the comment at its end the sticky one, as the code
does by default; `LastAnswersFirst` takes no side: what answered last is asked
before all others but the user's. A provider
that fails its one probe, be it by a 429, is out for the whole run, and so is
one whose key is entered after the run has looked for it. A text that breaks off
stays on the user's screen and the next model's follows it; an error that the
provider sends inside the stream is skipped like any line that is no text, so
the piece before it counts as the answer. What `LimitedMeansLimited` shows is
that the wait for a cooldown never follows such a piece in the same pass.

### JobStore

Every operation of the store changes the records under the lock (`Changed`),
takes a snapshot under the lock (`TakeSnapshot`) and writes it without the lock.
`write_text` empties the file when it opens it (`OpenFile`) and fills it later
(`WriteFile`), so a crash in between leaves no document at all (`Torn`). Two
threads that write at the same time do so each at its own position: `mixed`
says whose writing has overlapped another's, and what such a writer leaves may
be its snapshot or a mixture that does not parse. An OSError is swallowed
(`IOError`), but not that of making the directory (`NoDirectory`), with which the
caller fails too. The loop is one thread, on which every handler and worker persists
before it does anything else; the event callbacks run on a thread per run.
`Restart` is a crash followed by `load()`: a file that does not parse is taken
for none; one that is not even UTF-8 stops the server from starting, because
`load` does not catch UnicodeDecodeError.

`AppendEvent`, the steps of persist, `Publish` and `PutEvent` are the event
callback in its order. The loop announces most of the changes it makes, and
without a change that a job waits (`Broadcast`); what it announces (`Status`) is
in no record. `asyncio.Queue.put_nowait` looks whether the queue is
full and then puts; with publishers on several threads nothing keeps these
together, and the loop is one of them. There is
one subscriber, to the events of all jobs. The updates of a status that a callback makes
are in `JobBridge`, not here.

`clean` says that no other operation overlapped the last one and that it could
write. It is there for the properties: with it, and only with it, the file can
be relied upon.

## What the runs check

| run | module | question | distinct states |
|---|---|---|---|
| `any_client` | MCJobBridge | two jobs, two workers, every client operation and 429s: nobody is stranded, and only a job that was halted is enqueued again | 3.1 million |
| `gate` | MCJobBridge | three jobs and an id of no job, a port and a soft-exclusive domain, two workers, restarts of the server, failures: the gate, jobs on one resource exclude each other, waiting workers are woken, `GatedJobs` is implemented | 405 thousand |
| `settle` | MCJobBridge | two jobs and an id of no job, stop files that fail: stops arrive, and every job that was queued ends, whatever is stopped, paused, resumed, restarted or deleted | 227 thousand |
| `bad_gate` | MCJobBridge | the gate after STOP and START of a prerequisite: violated | |
| `waves` | MCToolWaves | every batch of up to three calls, pool of two, STOP at any time | 304 thousand |
| `bad_order` | MCToolWaves | calls that conflict run in the order the model made them: violated | |
| `calls` | MCSessionFiles | two rejected calls of a wave, a command beside another job's call, a call alone; stops, timeouts, stubborn processes, failed writes, of the session's end too: counts, shells, the record, and that every call returns | 740 thousand |
| `bad_context` | MCSessionFiles | a tool sees the context of its own job while another job's call runs: violated | |
| `turns` | MCRunnerLoop | two turns (four with a required file), seven answers, four calls: every verdict is consistent and has its evidence, a stop is heard, the run ends unless 429s never do, `RunThread` is implemented | 469 thousand |
| `providers` | MCProviderFallback | three providers, two calls, one run or two, texts that break off: when the runner is told to wait, whom a failing call has asked, who is asked before whom, and that a call ends | 396 thousand |
| `store` | MCJobStore | two runs, three jobs, one change or announcement by the loop, two events a run, failed writes, crashes: what was shown is in the record, what was written alone is in the file and comes back, the queue is bounded | 1.3 million |
| `console` | MCConsole | two users, two tokens, two providers, any requests, failures, ticks and restarts: tokens, the selection, the health cache | 516 thousand |

The bounds. Two jobs are the fewest that can gate one another and two workers
the fewest that can pass each other; with three jobs a chain of prerequisites is
longer than the pool, and a conflict can be found both with a running and with a
waiting job; one id of no job is enough to be waited for in vain, alone or
beside a job. Three calls are the fewest in which a call is displaced to a later
wave and leaves its old one to the next; five kinds of calls let each rule of
`_conflicts` apply alone, and a pool of two is smaller than a wave of three. Two
turns are the fewest in which tools run and an answer rests on them; one retry
for a tool and the two for the file then exhaust every budget in every order;
two calls of `write_file` tell a repeated failure from another one. Two runs and
the loop are three writers of one file and three publishers; a queue of one is
full at once, and two of them are the fewest that can both find it empty. Two
calls are the fewest in which something is remembered, by the same run or by the
next; the three providers are one whose probe lists models, one whose probe does
not and one that neither the probe nor the streaming pass knows, and two models
of one are the fewest of which some may be limited and some not. Two calls that
are rejected for a field they share are the fewest that can lose a count or
overlay a log; a command of one job and a call of another are the fewest that
can take each other's context. Two tokens of one user, or of two, tell a logout
from an expiry; two failed logins are a limit that can be reached and fall out
of the window; a cache that lives two ticks can be fresh, ageing and stale.
`CHECK_DEADLOCK FALSE`: a system with all jobs ended and no ids left is idle, a
batch that has returned takes no more steps, and a server that did not come up
again does nothing, when all calls are made and all keys entered there is
nothing left to do, and a recorded wave is over. Symmetry is used for safety
runs only, and for the model values of jobs and workers, runs and their jobs,
tokens and users.

Fairness (`FairSpec`). In `JobBridge` the loop runs what is ready and threads
are scheduled (weak fairness of each worker's steps), and a run that comes to
its turn again and again ends at last (strong fairness of `CallEnds`): the loop
counter of `EngineRunner.run` bounds its turns, and a provider that is asked
again and again after its cooldown answers. The one hour timeout comes for a
worker that waits for an id of no job (`HourIsOver`); for other waits it is not
relied on, so `QueuedJobsSettle` shows that those end without it. Clients and
faults owe nothing. PAUSE ends a run here, though `jobs.py:229` has the job park,
so `QueuedJobsSettle` asks only for what would hold of parked jobs as well: that
every job ends if none is left PAUSED for ever. In
`ToolWaves` the executor and the pool's threads run and tools return: the tools
have timeouts of their own. `Stop` owes nothing. In `RunnerLoop` the thread runs:
a provider call returns or raises, a cooldown ends, tools return. In
`ProviderFallback` a call goes on: every HTTP request has a timeout. In
`SessionFiles` some thread goes on as long as one can (weak fairness of all
threads' steps together, since no thread waits for another), and the time of a
command passes; nothing is asked of its processes. `Console` has no liveness:
nobody owes a request.

### Where the code and its documentation disagree

* `bad_gate`. Job 2 waits for job 1. Job 1 is stopped while it is queued: its
  worker skips it and sets its event. START puts it back to QUEUED. The event is
  still set and job 1 is no longer FAILED, so job 2 runs
  (`engine_bridge.py:377-382`), against `engine_bridge.py:12-14`.
* `bad_order`. Of glob, write_file a, read_file a the read joins the glob in
  wave 1 and runs before the write (`dependency_analyzer.py:171-179`).
  `SerialAfterEarlier` is the half of the order that does hold.
* `bad_context`. Job A's call saves an empty context and sets its own, job B's
  call then sets B's: A's tool works in B's workspace, a command of A's reads
  B's stop file, and when it restores, B's tool finds nothing
  (`tool_executor.py:132-146`), against `parallel_executor.py:18` and `:217`.

The modules state further properties that hold in no run here, with the world
that breaks them. `PausedParks` with pause: PAUSE stops the run
(`jobs.py:223-237`), the run's result is then written over PAUSED
(`engine_bridge.py:567-572`), the job fails and RESUME finds nothing to resume,
while `jobs.py:229` has the job park. `QuietFileIsCurrent` of `JobStore`: a run
takes its snapshot, a handler takes a newer one and writes it, then the run
writes the older one (`session_store.py:247-257`, against
`session_store.py:107-109`); `LoneOperationIsSaved` is what does hold.
`RunIsStoppable` with stop and requeue (registrations are popped by job id,
`engine_bridge.py:560`, so the end of an old run removes those of the new one);
`StoppedStaysFailed` with stop and rate_limit (the callback writes RATE_LIMITED
over a stop, `engine_bridge.py:483`); `AtMostOneRun` with stop and requeue (the
old entry or run of a job that was stopped is still there when START enqueues
it); `WaitedForIsScheduled` with manual (a job waits for one that waits for its
START, and stopping a job that was never started sets no event, so its dependents
wait for the hour); `NoPoolStall` with server_restart and requeue (two failed
jobs, of which the second waits for the first, are STARTed in the other order:
a pool of one is full of a job that waits for the one behind it on the queue);
`ConflictingJobsExclude` with manual and start;
`QueuedJobsSettle` with requeue (clients that alternate STOP and START of a
prerequisite starve its dependent); `RunningSeesContext` of `ToolWaves` (two
calls of a wave: the one that ends first takes the context from the other, and
the one that ends last puts it back for good).

What else was met on the way, and is in the models where they reach it:

* A prerequisite need not be a job: `jobs.py:105` takes any id, and a job that
  names a mistyped or deleted one holds a worker for an hour and then fails. So
  does one whose prerequisite had ended and was deleted, on a server that was
  restarted since (`engine_bridge.py:350-357`).
* A run whose last writes fail raises after its verdict: a job that was answered
  fails, and its session may be closed with a log that is old or torn
  (`session_manager.py:53-57`).
* Output of a command that is no text in the server's encoding makes
  `communicate` raise, which ends the call as a failed one.
* Counts of rejected calls may be lost when threads of a wave count at one time,
  so a field may have more than the total. After overlapping calls of one job
  its own context may stay behind in `os.environ`, or a tool may run in the
  server's own directory. A command whose context was taken away does not notice
  its STOP (`shell_runner.py:187`); its timeout still ends it.
* When the leader of a command's group has ended, `_terminate_process_tree` does
  nothing, so a child that holds the pipe survives and only the wait for its
  output is given up. A command that timed out or was stopped is returned as a
  success with a note, not as the TIMEOUT error that `shell_runner.py:52` announces.
* `events.json` may be behind or torn between two waves, although
  `parallel_executor.py:21-22` has an internal lock for it; `close` writes it as a
  whole, if it can. A job that is run again uses its old folder, whose log starts empty.
* With a required type `json` the engine's own log files come first, contrary to
  the docstring of `get_primary_output`. The alias `url` of the image grabber is
  not wrapped into the list that `urls` must be, so such a call is rejected.
* `setup.py:86` has health checks "immediately pick up" a key; they do when they
  are forced, or when five minutes are over. `nvidia_nim` has no health check.
* Logging out ends every session of the user (`api/auth.py:144-154`). Its
  comment and `docs/wiki.md:157` ("Revoke all sessions for user") say so, its
  docstring (`api/auth.py:134`) speaks of the current one.
  `TokensSpeakForLogins` takes no side: it asks nothing of a login whose user
  has logged out elsewhere. A success clears the failures of a client whoever
  they were for.
* A PUT of the selection that fails after its first file leaves the UI telling
  another selection than the engine uses. A write of `.env` that fails after
  opening loses all the keys, at the next start. A key in the server's own
  environment comes back in place of the one saved, at the next start.
* By reading only: at the cap of 1000 completion events the gate can evict the
  event of one ended prerequisite while it makes that of the next
  (`engine_bridge.py:297-303`), and then waits for its hour.

## What is proved

All theorems are about `Spec`, with any number of jobs, workers, calls, domains
and tools, under the named assumptions on the constants only.

`JobBridgeProofs`. `TypeCorrect`: the type invariant, inductive as it stands.
`OnlyHaltedAreRequeued`: in every world, since a QUEUED job that is on the queue
or in hand is marked as started (`StartableIsFree`), so that START refuses it.
`NobodyStranded`, and of its three parts `LiveJobsRun`, `QueuedJobsScheduled`
and `ActiveJobsScheduled`: in every world. The three parts are inductive
together with `TypeOK`; the steps that need care are those in which a job
changes hands, because `Scheduled` (on the queue or held) is what has to
survive: `WorkerTake` takes an entry off the queue as it takes the job in hand,
`Leave` lets a job go whose status has just become terminal.
`BridgeRunsAreThreads` goes through the actions: the thread's own steps are
steps of `RunThread`, those of handlers set its stop or leave it alone
(`RunUnmoved`), and what another worker does does not touch it
(`OthersUnmoved`). So what `RunnerImplementsThread` proves of the loop in the
runner is what the bridge assumes of it.

For clients that START a job once (`StartedOnce`):
`StartedOnceRunsOnce` rests on `StartableIsFree`: a QUEUED job that START would
accept is neither on the queue nor held. `StartedOnceIsStoppable` adds that what is
registered belongs to the worker that holds the job (`RegisteredRuns`), that
a handler which writes PAUSED or a stop signals it in the same step (`RunInv`),
and that a job which is still to be run has no stop file that could fail to be
removed (`BegunOnce`).
`StopIsFinal` needs besides that without 429s no thread is in the callback that
overwrites a status (`Unlimited`).

`JobBridgeGateProofs`. `GateHolds` and `BridgeImplementsGate` (in `GateWorld`:
`StartedOnce`, no DELETE, and not both STOP and 429s) rest on `Unlimited` and on
two more facts: the phase of a run fits the status of its job (`StatusFits`); a
completion event that is set belongs to a job that has ended for good
(`SetMeansEnded`). The last is what `bad_gate` breaks. The refinement maps
RUNNING, PAUSED and RATE_LIMITED to running; each step of the bridge is a step of
`GatedJobs` or leaves its variables alone.

`ConflictsExclude` (in `SequencedWorld`) rests on `Sequenced`: the registry knows
every job that is on the queue or held, and of two such jobs with a resource in
common one is a prerequisite of the other. If both ran, that one would be
COMPLETED for the other's gate (`GateHolds`) while its own run is in progress.

`WaitsAreForScheduled` (where no job is put aside: `NoneAside`) rests on
`WaitInv`: an event that exists and is not set is that of a job that is
scheduled or that is in no record (`ClearScheduled`), and there is an event for
whatever is waited for (`WaitSeen`). `WaitersWoken` (`StartedOnce` besides) adds
`InOrder`: there is an age of the jobs, the order of their creation, that grows
along the queue, that is lower in the workers' hands than on the queue, and
lower in a prerequisite than in its dependent. The oldest job in hand (there is
one, by `LeastNatural`) then waits for no job. The age is a bound variable of
the invariant: neither the code nor the model has it. `Workers # {}` is assumed:
nothing in the code keeps `max_concurrent_jobs` above zero, and without a worker
every job stays queued.

`ToolWavesProofs`. The plan: calls of one wave do not conflict, no wave below a
used one is empty, and so a serial call, which fits no used wave, gets one above
all others (`PlanInv`). The run: what is below the wave in progress has ended,
what is above has not begun (`RunInv`). Hence `NothingOverlaps`, `SerialWaits`
and `SerialContext`; `CallsAnswered` adds where outcomes come from
(`OutcomeInv`). Of what makes a batch end the prover can do two parts.
`ExecutorNeverStuck`: in every state a call can be placed, started or continued,
or the plan or the wave is complete; the oldest call left over always starts a
wave (`LeastNatural`, `WavesLow`). `BatchesEnd`: `Work`, the set of what was done,
is a subset of a finite set and every step of executor and calls makes it larger.
The rest, that what can be done is done, is the fairness of `Terminates`.

`RunnerLoopProofs`. `VerdictInv` says that before its last step a run has the
initial verdict, and that one whose providers failed it has a reason or was told
to stop; it makes `VerdictsConsistent` and `CompletionNeedsEvidence` inductive.
`OutputRetriesFree` needs only that a run without a required file is never sent
back for one. `RunnerImplementsThread` follows action by action: a step of the
loop within a turn is a stutter of `RunThread`. The limits are any numbers, with
at least one turn (`BoundsAssumption`). `TurnsRunOut`: `Budget` counts the steps
that the turns left allow, and every step of the run spends some of it but the
one into a cooldown (`SendsToWait`), after which the same turn comes again. A run
that was told to stop enters none, so what remains of it is bounded; this is the
safety half of `EndsUnlessLimited` and `StopIsHeard`. It assumes that a response
has finitely many calls.

`JobStoreProofs`. `SavedInv`: while `clean` holds, one thread at most is
persisting, its snapshot is what the records are, and no writing overlaps; it
gives `LoneOperationsSaved` and `RestartKeeps`. `StreamedEventsStored` rests on
`ShownInv`: the event that a thread is to publish is in the record already, and
a job id is never given twice. `QueueBounded` counts the threads between the
look and the put, the loop among them. `AbsentAssumption` and `TornAssumption`
say that `Absent` is no record and `Torn` no document.

`ProviderFallbackProofs`. `WalkInv`: the providers before the place of the walk
are attempted or out of the question (`Past`), and those attempted are `Settled`:
what they offer is what was asked of them, and they are on cooldown exactly if
nothing but 429s came. `AskInv` says what `Settled` will follow from, while the
models of one provider are being asked, and `EndInv` keeps it after the call:
with it `LimitedOnlyIfLimited` and `NobodyIsPassedOver` are immediate, the former
with `ShownInv`: a text that was begun belongs to the model being asked, or to
one that failed in another way than by a 429.
`LastAnswerFirst` rests on `StickyInv`: the bridge in use and the class
both hold what answered last. Assumed are the types of the configurations, that
an order names everyone configured and nobody twice, and finitely many models.
`CallsGoOn` is that `_get_model_fallback_order` always has an order to give: what
goes first (`Lead`) never names a model twice or one that is not on offer, and
finitely many others can follow (`SomeOrder`). `CallsEnd`: a turn of a provider is
at most two steps for each of its models, a pass a turn for each provider, and a
call its probes and two passes; every step spends some of this `Budget`. They are
the safety half of `CallEnds`.

`SessionFilesProofs`. `ProcessInv`: a command's thread leaves its process only
when it has seen the leader end or has killed it, whence `ShellsEnd`. `CountInv`:
a thread that holds a value read of a counter has not been counted by it yet, so
values, counts and reports stay below the number of calls rejected so far, other
threads' losses notwithstanding (`CountsBounded`). `EntryInv`: where a call is
tells whether its entry is in the log, its trace numbered, its events announced,
and no step takes an entry out; a session that was closed and then written has
the whole log in its file (`SavedInv`).
With the order of the tests in `Buckets` that is `RecordComplete`.
Assumed are finitely many calls, and that the entries made by the session itself
are not calls.

`ConsoleProofs`. `TypeOK` is inductive and has the login limit in it: a failure
is recorded only below the limit. `TokensSpeak`: the session of a token has as
many ticks left as its login has not used, unless it ended with another session
of its user (`SessionInv`). `AckedSelectionUsed` is inductive. `HealthRecent`: a
cache that is younger than the last change is what a check would find.

Only model-checked: liveness (`QueuedJobsSettle`, `Terminates`, `StopIsHeard`,
`EndsUnlessLimited`, `CallEnds`, `CallsReturn`), which is beyond the prover. Every
invariant and every other action property of a run is proved, for the worlds
named above.

Proved but checked by no run of its own: `AtMostOneRun`, `WaitedForIsScheduled`,
`OutputRetriesAreFree`, `StoppedStaysFailed`, `RunsImplementRunThread`,
`NeverStuck`, `WorkGrows`, `CallGoesOn` and the two `BudgetIsSpent`. TLC found each
of the last five, and `RunsImplementRunThread` with it, to hold on the instance of
its module's run before it was proved.

## What is not modelled

* The cap of the completion events: `JobBridge` never reaches it (see above).
* Runs that call providers at the same time and share what they remember, and
  the scores that order a provider's models.
* `engine/tool_cache.py`: nothing in the repository uses it.
* HTTP requests and the tools other than commands and file writing; the regular
  expressions that find domains in a prompt and tool calls in a response; the
  templates, statistics and read-only endpoints, screenshots and downloads, the
  front end, the launchers and `scripts/`: they hold no state that others depend
  on.

A new question is asked by extending the instance of a run above where that is
possible, and by a run of its own only where it is not.
