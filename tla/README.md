# A TLA+ model of EvoScientist

EvoScientist is a research agent: a graph of language-model steps and tools that
runs on a local langgraph server, started from a terminal or from chat channels,
with background workers that keep its memory. Most of its code is prompts,
rendering and adapters to services. This project models the part that is
concurrent: what happens between threads, tasks, processes and the server when
calls fail, come late or interleave.

Contents: [inventory](#inventory), [modules](#modules), [runs](#runs),
[proofs](#proofs), [what is not modelled](#what-is-not-modelled), [plan](#plan).
All paths are relative to `src/EvoScientist/`.

## Inventory

| Component | State it keeps | Operations | Hard behaviour |
|---|---|---|---|
| Background runs, `gateway/background_runs.py` | none of its own; a thread and a run on the server | launch, watch, clean up | requests that fail after they were carried out, give-up while the run works, watchers that die with the process |
| Memory pipeline, `middleware/memory_lifecycle.py`, `memory/launch.py`, `memory/worker_activity.py`, `memory/scheduler.py` | active runs and linkers, counted files, counters, pending batches, two locks | launch a worker at the end of a turn, credit its files, batch them, launch a linker, show the status, wait for idle | overlapping workers, check outside the lock, a second lock inside a drain, batches that nobody drains |
| Observation store, `memory/observations/` | markdown files under digest names | record, search, link | one writer at a time (file lock), otherwise data |
| Bus and consumer, `channels/bus/`, `channels/consumer.py` | two bounded queues, a pool of workers, chat locks, sessions, pending replies | enqueue, handle, stream, ask, approve, stop | a worker waiting for a reply that another worker must deliver, shutdown with queued messages, sessions created twice |
| Decisions, `channels/interaction.py` | pending replies, session grants | ask, approve, auto-approve, time out | a reply racing its timeout, configuration changed while a human thinks |
| Channel framework, `channels/base.py`, `channels/channel_manager.py`, `channels/middleware.py`, `channels/retry.py` | channel tasks, health, dedup and rate windows | start, stop, restart, send with retry | restart during stop, duplicates |
| Transports, `channels/*/` | connections to services | receive, send | third-party I/O |
| CLI bridge, `cli/channel.py`, `cli/channel_sends.py` | queue of channel requests, waiting futures | hand a message to the terminal's turn and back | timeouts across threads |
| Graph gateway, `gateway/server.py`, `gateway/composite.py` | stream position | stream, resume, cancel | reconnects, duplicate events |
| Completion notices, `cli/async_notifier.py`, poller and turn close of `cli/interactive.py` | runs in flight and enqueued, a queue per conversation, the idle reader's switch, the turn lock | read a thread's tasks, poll their runs, enqueue, drain, tell the agent | two readers over one task table, a conversation switched between two awaits, a run replaced by its revision, a switch left off |
| Background processes, `background.py`, `middleware/background.py` | process registry, marks of what was told | start, poll, stop | a notice given twice or never |
| Agent middleware, `middleware/` | counters in the graph state | retry, fall back, repair the history, goal and rubric loops | budgets, loops that must end |
| Proactive service, `proactive/`, its callers in `cli/commands.py` | armed threads, the cron's id and thread, candidates last sent; on the server flags, crons, records of what was judged | arm, disarm, pause, adopt, restore, mirror, reconcile, poll, apply; tick, gate, decide | every step a call that may fail with or without effect, ticks and other sessions in between, restarts of serve and of the server that lose different things |
| Schedules, `cron/`, `langgraph_dev/server_crons.py` | the server's cron table | list, create, delete | paging over a table that changes |
| Local server, `langgraph_dev/` | start lock, PID file and sidecar, lock of the data folder | find, start, reuse, kill as stale, stop | processes of one user that start, stop and crash at once; a start that is slow, a server that stalls, a record that names another's server |
| Sessions, `sessions.py` | checkpoint database | list, resume, delete | mostly queries |
| Deployment, `deploy/` | the server it owns, the launcher's handle and its `stop()` flag, busy probe | launch, attach, stop, update when idle | `stop()` on another thread in the middle of a launch, an exit that stops the server without the lock, a probe that is stale when acted on |
| Configuration, `config/` | settings file | read, merge, write | concurrent writers |
| Terminal interface, models, tools, skills, setup | | | rendering, tables, third-party calls |

How they interact. A turn of the agent runs on the server or in the terminal
process; its middleware calls the memory pipeline when it ends. The pipeline
submits memory workers and linkers as *background runs*, and learns of their end
through hooks that a watcher thread calls. Workers write files; nobody sends the
pipeline a message about them, it compares two listings of the directory.
Channels put messages on the bus, the consumer's workers turn each into a turn of
the agent, and a turn that needs a human sends a prompt back and waits for a
later message of the same chat. Every session, the web UI launcher, `EvoSci deploy`
and the desktop app look for the same local server before they do anything else, and
start it when none answers; they know of each other only through the lock and the
record on disk. An async task runs on that server too; the terminal learns of its end
by reading the conversation's task table and polling its run. Serve and the cron of its
proactive pushes never talk to each other: serve writes the candidates into the cron's
input and flags into the threads' metadata, the cron leaves decisions in its own thread,
and serve's poll picks them up.

What makes them correct:

- *background runs*: a run the caller was told of ends, for the caller, once, with
  a word that agrees with the server; a thread is not deleted under a working run;
  a failed launch leaves nothing behind;
- *memory pipeline*: every file a watched worker wrote is credited, to one worker
  only; what is credited reaches a linker, and once; counters come back to zero;
  nothing waits when everything has come to rest;
- *linker status*: never idle while a linker is at work, idle afterwards;
- *consumer*: the turns of one chat are apart and in order, and two senders never
  share a thread; a prompt that waits gets the chat's next message and an ended one
  gets none; a turn leaves no parked approval for the next unless closing it failed or
  the turn was cancelled; a stop returns and drops nothing that was queued before it;
  every message is settled;
- *local server*: nobody ends a server that another process is starting; one that was
  handed over is the recorded one; a launch that was stopped leaves none; the lock
  comes free;
- *completion notices*: one notice per run, in the conversation that launched the
  task, and no end of a run goes unheard in a conversation that is used;
- *proactive pushes*: the same words get one push at most, a conversation that is off or
  was left gets none, and while one is armed serve comes back to one cron that works;
- *decisions*: what the configuration refused stays refused, a rejection is never
  dropped, nothing dangerous runs that nobody approved.

## Modules

**`RunLifecycle`** is the abstract promise of a background run: dropped, or
tracked and then ended by one of `on_finished`, `on_aborted`, `on_status_unknown`,
`on_watcher_start_failed`, with `on_finished` said only of a successful run. It has
the caller's actions (`Prepare`, `Drop`, `Track`, `Finish`, `Abort`, `LoseSight`,
`Unwatched`) and the server's (`Settle`). It is used twice: `BackgroundRuns`
implements it, and the memory modules are built on its actions, so they assume of
a background run exactly what the other module shows.

**`BackgroundRuns`** is `gateway/background_runs.py`. One action per call that
leaves the process: `CheckServer`, `CreateThread`, `CallBeforeRun`, `CreateRun`,
`CallStarted`, `SpawnWatcher` of the launcher; `Connect`, `PollStatus`,
`PollFails`, `CallTerminalHook`, `CallUnknownHook` of the watcher; `ListFirst`,
`ListSecond`, `CancelMany`, `DeleteThread` of `_delete_thread`. `pc` is where the
one or the other is: they never act at the same time on one run. The server
(`StartRun`, `EndRun`, `AcceptLateRun`) is external code, modelled from what the
client relies on: deleting a thread removes a run that is still queued and leaves
one that executes alone. `Faults[l]` is the set of calls that may raise in launch
`l`, and what the cleanup promises is stated for the launches whose cleanup calls
get through. A failed
`runs.create` may have been carried out, or be carried out later
(`inflight`). `ProcessExit` stops every thread of the client at any point.

**`MemoryPipeline`** composes four files. `pc[t]` follows one turn: the agent's
thread through `after_agent` (`SkipWorker`, `PrepareWorker`, `LaunchRaises`,
`WorkerStarted`), then the watcher's through the hook (`WorkerPopped`,
`SnapshotOutputs`, `CreditOutputs`, the three critical and uncritical sections of
`mark_memory_worker_finished`), then either through the scheduler
(`RecordWorker` or `FlushReady`, `TakeReady` per key, `Unlock`, `StartLinker`,
`LinkerLaunched`). `disk`, `author` and `direct` are the observation files;
`author` and `direct` are observers and no guard of the code reads them. A batch
key is reduced to its project: the turns share one memory directory, as the
workspaces of one process do by default.

**`LinkerActivity`** is the other half of `worker_activity.py`: what the status
bar is told of linkers, from the start of `_launch_ready` to the ending hook, and
the total of linked relations. `links[l]` are the relations linker `l` wrote.

**`InboundConsumer`** is `channels/consumer.py` with the bus in front and
`PendingReplyRegistry` (`channels/interaction.py`) inside. All its tasks share one
event loop, so an action runs from one `await` to the next. `Consume`, `PutWork` and
`LoopEnds` are `run()`; `TakeReply`, `TakeTurn`, `ThreadCreated`, `AcquireLock` a
worker up to the chat's lock; `Unprompted`, `Prompt`, `HearApproval`, `HearAnswer`,
`MissApproval`, `MissAnswer`, `OutOfBudget`, `StreamOver`, `Closed` the rounds of
`_stream_with_hitl`; `Stop`, `WorkerExits`, `DrainTimesOut`, `CancelWorker`,
`Stopped` are `stop()`. A reply is data only so far as the code branches on it, so
`HearApproval` chooses among approval, approval of all, rejection and unrecognised
text, which is refed. `line` is for each chat the waiting order that its
`asyncio.Lock` keeps.

**`MessageDelivery`** is what the consumer promises its channels: messages are `Accept`ed
and wait; the foremost of them is taken by a worker (`Take`) or handed to a turn of the
same chat that has no unheard reply (`Answer`); a reply is heard (`Hear`) or becomes the
worker's next message (`Refeed`), and a turn may `Finish` only without one. A stop may
let go of one message, of those that came too late (`Drop`) and of what its turns had.
`InboundConsumer` implements it with `Backlog`, the messages of bus, loop and queue
together, for what waits, and `Unheard`, the message in a worker's future or else its
`refeed`, for the replies. Registry, locks, timeouts, budgets and thread creation are
steps the channels do not see.

**`ApprovalPolicy`** is who decides about tool calls: `Verdict` and `Snapshot` are
the policy of `interaction.py` and `backends.py`, `Approve` and `Decline` the
person, `CallTools` and `CarryOut` the graph. Each call to the graph, the one that
begins a turn and every resume, is assembled from the configuration live then
(`Assemble`, `stream/events.py`): it is suppressed under `auto_approve`, and it may take
the chat's grant along. `_hitl_when` (`Skips`) reads both, before a pause and again when
it is resumed: a call that skips runs its tools unasked, and a resume that skips drops
its decisions, rejections included. What then refuses dangerous commands is the sandbox
(`Guarded`, `_effective_guard_dangerous`), in suppressed calls only. `Toggle` changes the
configuration between any two of these steps; a configuration that does not load ends
the turn (`ResumeFails`). `asked` and `decider` are observers.

**`DevServer`** is `langgraph_dev/manager.py` with what `deploy/` and the entry
points of the CLI do to it, one process per client. `kind[c]` is the call client `c`
makes: a `session`'s `ensure_langgraph_dev`, the web UI `launcher`, `deploy`, the
desktop `app` (`deploy --json`), `stop` or `service_stop`. `TakeLock` and
`LockTimesOut` are the start lock; `FindServer`, `ProbeStale`, `KillStale`,
`WaitForPort`, `CheckHome`, `Spawn`, `WritePidFile`, `WriteSidecar`, `PollHealth` the
start, split wherever another process may act in between; `Halt`, `WipePidFile`,
`WipeSidecar` are `stop_langgraph_dev`; `FinishLaunch`, `StopLaunch`, `EndDeploy`,
`InterruptStart` and `StopRecorded` what each caller adds. The server processes
(`TakeHome`, `Listen`, `Answer`, `Stall`, `Exit`) take the data folder's lock, then
the port, and may lose either, stall, or exit at any moment. `Crash` kills a client
and with it frees its lock. PIDs are not reused.

**`CompletionNotices`** is `cli/async_notifier.py` with the poller and the turn close
of `cli/interactive.py`. `prompt` and `poller` are two coroutines of one event loop, so
an action runs from one `await` to the next. `ReadState`, `Look`, the `Poll...` actions
and `Recheck` are the reader (`enqueue_completions_from_state`), whose loop over the
tasks is one operator, `GoOn`; `IdleTick`, `Drain`, `DrainAgain`, `Dedup` the poller;
`Ask`, `TakeTurn`, `EndTurn`, `TurnRaises` turns, in which the agent may `Launch`,
`Check`, `Revise` and `Commit` its tasks. `Switch` is `/new` and `/resume`, which the
prompt or a channel may run between any two of them. `told` is an observer.

**`ProactivePushes`** is `proactive/serve.py`, driven as `cli/commands.py` drives it,
with the ticks of `proactive/graph.py`, `service.py` and `gate.py`. Serve does one thing
at a time, so what it is about to do is a program: `calls`, a sequence of calls, each a
sequence of steps. Each step is one action, and nearly each is one request to the server
(`Arm`, `Disarm`, `Pause`, `Adopt`, `MirrorCandidates`, `DropCrons`, `NewCronThread`,
`RetireCronThreads`, `CreateCron`, `CheckCron`, `AppendPush`, ...), which may fail
(`Raise`), carried out or not. A step that raises ends its call, and the next call is
made all the same, as `_serve_proactive_call` has it; the one handler, that of a first
arm, is the step `undo`. `Message`, `ProactiveOn`, `ProactiveOff`, `NewSession`, `Resume`
and the poll begin programs. A cron is named by its thread. `TickStarts`, `ShadowEnds`
and `TickFails` are the cron's ticks, split where a shadow turn runs; `OtherSession` is a
turn from elsewhere; `Killed`, `Start`, `Restore` and `ServerRestarts`, with file
persistence or without, are the restarts. Idle time, quiet hours, a busy thread and
the backoff of failed shadow turns are a gate that may reject; the age of a decision and
of a cron thread are choices. `quiet` is an observer.

The `MC...` modules hold the constants' values for TLC.

| State of the model | State of the code |
|---|---|
| `BackgroundRuns!hooks` | the sequence of calls `_call_hook` made |
| `BackgroundRuns!failures` | `failures` in `watch_background_run_sync` |
| `BackgroundRuns!listed` | whether `run_ids` is non-empty in `_cancel_thread_runs` |
| `MemoryPipeline!active`, `counted`, `recorded` | `_active_runs`, `_counted_observation_files`, `_observations_recorded` |
| `MemoryPipeline!before`, `delta` | `before_outputs`, the local `observation_files`, then `new_observation_files` |
| `MemoryPipeline!pending`, `lock`, `todo`, `batches` | `MemoryScheduler._pending`, `_lock`, the rest of the loop in `_ready_batches_locked`, the contexts passed to `_launch_ready` |
| `InboundConsumer!queue`, `slot`, `future`, `sessions` | `_work_queue`, `PendingReplyRegistry._pending` and its futures, `_sessions` |
| `InboundConsumer!parked` | threads whose checkpoint is left at an interrupt |
| `InboundConsumer!left` | none, an observer: the parked threads whose pause a failed close or a cancelled worker has left |
| `ApprovalPolicy!carry`, `rejections` | `approve_all_carry`, `policy_rejections` |
| `ApprovalPolicy!call` | `hitl_suppressed` (by the configuration it was derived from) and `hitl_approve_all` of the run's config |
| `DevServer!lock`, `pidFile`, `sidecar` | `RUNTIME.lock_file`, `RUNTIME.pid_file`, the ownership sidecar beside it |
| `DevServer!proc` | the manager's `_PROCESS`, a launcher's handle, or the PID that `stop_recorded_server` read |
| `DevServer!cancelled` | the launcher's stop flag |
| `CompletionNotices!inFlight`, `enqueued`, `armed` | `_reader_in_flight`, `_reader_enqueued_task_ids`, `_idle_reader_active_seen` |
| `CompletionNotices!queued`, `turn`, `task` | `_notifications_by_thread`, `turn_lock`, the `async_tasks` of every conversation's state |
| `ProactivePushes!cronId`, `cronThread`, `mirrored`, `restored` | `_cron_id`, `_cron_thread_id`, `_mirrored`, `restored_thread_id` of `ProactiveServe` |
| `ProactivePushes!head` | the thread's newest message and, since the last that is none, its pushes |
| `ProactivePushes!flag`, `kept` | `proactive` in the thread's metadata, and in its newest checkpoint (`latest_origin_checkpoints`) |
| `ProactivePushes!record`, `tick` | `evaluated` and the not yet applied `decisions` of a cron thread; its run |
| `launches`, `LinkerActivity!active`, `linked` | `_linker_launches_in_progress`, `_active_linker_runs`, `_relations_linked` |

## Runs

| Run | Bounds | What it shows |
|---|---|---|
| `background_runs` | 2 launches, up to 3 failed polls; every call of the first may fail, of the second every one but those its cleanup stands on | the hooks' order and truth, refinement of `RunLifecycle`, no thread deleted under a working run; no stray run and no thread left where the cleanup gets through; every tracked run ends for its caller |
| `memory_pipeline` | 2 turns in 2 projects, 1 observation, a watcher may lose sight | crediting, conservation and single delivery of observations, nothing overlooked, nothing stranded, and what is queued is offered in the end |
| `linker_activity` | 2 linkers, 2 relations | the status has no gap and comes back to idle |
| `linker_overlap` | the same | expected violation, see below |
| `inbound_consumer` | 5 messages, 2 senders of whom one writes in both of 2 chats, 3 workers, queue of 2, 3 rounds of which 1 human, closing may fail, `stop()` at any moment | serial turns in order, reachable prompts, no fresh turn on a parked approval but for the pauses `left` and the sender's other chat |
| `inbound_consumer_stop` | 3 messages, 2 senders, 2 workers, queue of 2, 2 rounds, thread creation and closing may fail, `stop()` at any moment | every message is settled unless `stop()` is called; it returns and drops nothing it owes; refinement of `MessageDelivery` |
| `consumer_replies`, `consumer_sessions` | 3 messages of one chat, 2 workers | expected violations, see below |
| `dev_server` | 4 clients: a session that may be killed, a launcher that may be stopped, a `deploy` or the app, a service stop; 3 server processes | boots in peace, recorded servers, no orphaned launch, a lock that comes free |
| `completion_notices` | 2 conversations, 1 task with 1 revision, reads, polls and turns that fail | one notice per run, in the right conversation, and every end heard |
| `proactive_pushes` | 2 conversations, one of them shared; 1 message each, 2 commands, 1 fault, 2 restarts, 5 cron threads | one push per message, none where it is quiet, one working cron in the end |
| `approval_policy` | 2 chats, 10 batches of up to 2 requests, 4 configurations | refusals stand, no resume runs what it did not approve, counts match, nothing dangerous unasked, although `auto_approve` and the grant skip pauses |

Why the bounds are enough. Launches share nothing but the process, so two of them
show that there is no coupling and one would do for the rest. Three failed polls
leave room for a reset in between. Overlap of workers, of drains and of linkers is
between two; a second project is there to have a drain that asks twice. One observation
is enough for the pipeline: a batch overwritten by an empty one shows what a second
observation would, and what the run says of safety is proved for any number. The
consumer needs a third message of a chat to have a turn, its reply and one that
waits, another chat to compete for workers, and a queue shorter than the messages
to be blocked by. The numbers of the code (5 workers, a queue of 50, 50 human
rounds of 1000) are scaled down to the least that still leaves each
limit both reached and not. Batches longer than two add no new mix of verdicts. For
the server each kind of caller is there once, and a third process is the one that a
third starter may spawn after two that were lost. For the notices one task that is
revised once has both the run the reader polls and the one that replaced it; a second
conversation is there to switch to. For the pushes two conversations are the one that was
restored and the one serve starts on; one fault and two restarts, of serve, the server or
both, are combined freely, and each of them can leave one cron thread behind, which is
why there is room for five.

Fairness. Threads are scheduled (`WF` on each client's next step, one that must not
be read as "a poll succeeds": in `BackgroundRuns` a poll failure is never what
fairness forces); a run of the server ends, which its recursion limit ensures
(`launch.py`, `recursion_limit`). Nothing is assumed of agents: no one must write.
The liveness of a tracked run excepts the exit of the process, which ends daemon
threads without a hook.

In the consumer, tasks that can run do; a stream yields, ends or is cut off by
`inference_timeout`; a prompt is answered or times out (`ASK_USER_TIMEOUT`,
`HITL_APPROVAL_TIMEOUT`); `stop()` waits `drain_timeout` at most. No channel has to
publish and nobody has to stop. Waiting for a lock has no timeout, and none is
assumed: that locks come free is part of what `EverythingSettles` shows.

In `DevServer` a call that is under way goes on: every wait of it has a deadline
(`_FILE_LOCK_TIMEOUT`, the port's 60 s, `LOCK_WAIT`, the health poll's timeout).
Nobody has to make a call, to stop a launcher or to end a deploy, and a server may
stay stalled for good.

In `CompletionNotices` the poller goes on with what it began, and what it tries again
and again (a read, a poll, the turn lock, a tick) gets through once. Of the prompt only
this is assumed, that its polls do not all fail: nobody has to type. `EndsReachTheAgent`
therefore has a premise, `Attended`: the conversation stays on screen and has a turn
typed in it now and then. Without such turns it is not true of the code. The idle
reader can be left switched off by a read that began before a task was launched, by a
channel's turn that raised, or by one whose closing read was of the conversation
switched to meanwhile; it is the closing read of the next typed turn that switches it
on again.

In `ProactivePushes` serve goes on with what it is doing and comes to its poll again and
again (`SF`, because a message or a command that is under way disables it); a poll that is
throttled after failures comes later, not never. Nobody has to write, no tick has to
succeed, and restarts and faults are bounded, without which nothing could be promised.

What the properties leave out because the code does not keep it. The end of a
`deploy`, its `atexit` stop, does not take the start lock
(`deploy/server.py:258`), so it can wipe the record of a server that a session has
started since; `ServersStayRecorded` excepts it by name (`OwnerEnds`), and a starter
killed with its server on the way (`LeftBehind`). Ctrl+C in the middle of `deploy`'s
start leaves the server, which is `InterruptStart` to `aborted`. A server that stalls is
taken for stale and killed by the next start, runs and all; `BootsInPeace` speaks of
servers that are still being started. A run that is interrupted by a revision whose
record is not committed yet when the reader looks twice is told as interrupted. And a
batch of notices whose turn raises is gone: `EndsReachTheAgent` counts a notice as told
when its turn starts. A request of a launch that the server carries out after the cleanup
has listed the runs leaves a run or a thread nobody deletes; `NoStrayRun` and
`NoThreadLeft` except launches whose `Faults` have such requests. A credited file is filed
under the project of the worker that counted it, which need not be its author's. A sender
who writes in two chats may have two turns at once on one thread, and the second may
start while the first is at an approval; `OneTurnPerThread` and `FreshTurnsNotParked`
say that this is the only way, beside the pauses that a failed close or a cancelled
worker leaves. And under `auto_approve` no call pauses, so `delete` and `schedule_task`
(`HITL_ALWAYS_PROMPT_TOOLS`) run unasked: the properties of `ApprovalPolicy` speak of
what was refused or is dangerous.

Of the pushes: `/proactive off` writes the thread's metadata only, so a restart of the
server without persistence forgets it, and if serve is restarted as well before the next
turn it arms the conversation again from a checkpoint that still says `on`
(`ServerRestarts` drops these conversations from `quiet`). When the reply to `crons.create` is
lost, serve holds no id of a cron that works; its poll then finds nothing wrong and does
not mirror the candidates, though an origin may have appeared since, which is the case
the poll's own comment names (`proactive/serve.py:582`). `Served` excepts it. And between
the head that `_apply` reads and the write another session may have its say: the push then
follows words it does not know, still one push after them.

**Findings.** Three runs show the code at odds with a sentence of its own.

`linker_overlap` states that the total of linked relations never
exceeds the relations there are ("Relation counts should reflect actual metadata
updates.", `tests/test_observation_memory.py:921`). Two linkers that overlap both
count a relation that either wrote: `mark_observation_linker_finished` adds
everything between its two snapshots and, unlike `mark_memory_worker_finished`,
keeps no set of what was counted.

`consumer_replies`: "if a prompt is waiting on this chat, hand it this message
instead of starting a fresh agent turn" (`channels/consumer.py:438`). Only a worker
that takes the message does so, and messages of the chat that came before it hold
workers at the chat's lock. When all workers are held, the reply waits in the queue
until the prompt has timed out, and then starts a turn.

`consumer_sessions`: "Get or create a thread ID for the given sender"
(`channels/consumer.py:313`). The server makes the thread between lookup and store,
so two first messages get two.

## Proofs

`BackgroundRunsProofs` proves for any set of launches, any bound on failed polls,
any faults of each launch and either setting of `delete_thread_on_finish`: the type
invariant (`TypeCorrect`), that endings agree with the server
(`EndingsAlwaysAgree`), that working threads are kept (`WorkingThreadsAlwaysKept`),
that no run strays (`NoRunStrays`) and that the module implements `RunLifecycle`
(`KeepsLifecycle`); and, if finished threads are to be deleted, that none is left
(`NoThreadRemains`). They rest on one
inductive invariant, `IInv`, which ties the program counter to the hook history:
alone, the statement "finished implies success" is not inductive, because nothing
in it says that a watcher about to call the hook has seen a status that can no
longer change. `IInv` adds that a run seen to end has ended, that a launch
before its run exists has none in flight, and which histories each place allows.
The refinement is proved by showing for each action which abstract action it is,
or that it stutters. For the cleanup, `Swept` says what each of its steps has achieved:
at the second listing a run that was not found is no longer pending, so that it is
found now or over; the cancel is reached only with something listed; and at the delete
nothing is at work. `Emptied` says the same of the thread.

`ApprovalPolicyProofs` proves for any chats, any batches and any configurations
the type invariant (`TypeCorrect`), `RefusedNeverRuns` (`RefusalsStand`),
`CountsMatch` (`CountsAlwaysMatch`) and `DecisionsHold` (`DecisionsAlwaysHold`). The one
assumption on configurations is that `dangerous_mode` comes with `auto_approve`, which
its settings enforce. None of the three is inductive: what runs is decided two steps
earlier. `Sound` says of one chat's turn what each place keeps: nothing has run before
the resume, a prompt keeps the refusals of the configuration it was asked under, and a
resume has a decision for each request, refuses those, and carries the grant only if the
grant decided. A resume under `auto_approve` has its decisions dropped, and `GuardCovers`
is why that loses no rejection: what any configuration of the session rejects is a
dangerous command, and those the sandbox refuses in every suppressed call. That is also
what breaks when the guard is only the flag of the construction (`Guarded_Floor`, the
mutant of `DecisionsHold`). Other lemmas say what `Answer`, `ApproveAll` and `Snapshot`
return for any batch. `DangerIsApproved` (`DangerAlwaysApproved`) needs to say also who
granted: `Danger` follows a dangerous call from the prompt, or from the chat's grant, to
the place where it runs, and `UnguardedDanger` says when the sandbox lets one through.

`MemoryPipelineProofs` proves for any finite sets of turns and observations and
any assignment of turns to projects the type invariant (`TypeCorrect`),
`CreditedOnce` (`CreditedAtMostOnce`), `RecordedBounded` (`RecordedAlwaysBounded`) and
`NoneLost` (`NoneEverLost`). `CreditedOnce` alone is not inductive: it says nothing
of a hook that has listed the directory and not counted yet. `CreditedCounted` adds
that what anybody else was credited with is among the counted files, which is why
cutting the delta against those, under the lock, is enough. `NoneLost` needs
`DrainsLocked` (a turn that drains holds the scheduler's lock) and `BatchesFresh` (no
key the drain has yet to look at has a batch that the next one would overwrite).
`NoneStray` is `NoneLost` with the places written out as a disjunction, so that a
step has a witness to name. `RecordedBounded` is such a strengthening too, and no
property of its own in a run.

Its second half follows a file on its way to a linker. `NothingOverlooked` (`NothingIsOverlooked`) needs `Submitting` and `Seen`: the snapshot
was taken before the run could write, and a run that was seen to end writes no more.
`LinkedOnce` (`LinkedAtMostOnce`) needs `Sent`: an observation of a worker waits in one
place, and what waits was counted. `NothingStranded` (`NothingStaysStranded`) needs
`QueueAwaited`: whatever is pending has a turn that is still to drain, whose drain has
yet to come to the key, or whose watcher lost sight.

`LinkerActivityProofs` proves for any linkers and relations the type invariant
(`TypeCorrect`), `NoIdleGap` (`RunningWithoutGap`) and `IdleInTheEnd`
(`IdleAfterwards`), from `Balanced` (the launch counter is the number of launches that
have begun and not returned) and `HooksAfterFinish`.

`InboundConsumerProofs` proves for any workers, chats, senders, arrivals, budgets and
settings of `CreateSuspends`, `CloseFails` and `MayStop`: `SerialPerChat`
(`TurnsOfAChatApart`), `PromptsReachable` (`RegistryAgrees`), `OneTurnPerThread`
(`ThreadsApart`) and `FreshTurnsNotParked` (`FreshTurnsStartClean`). `Moves` first
reduces every step to one of five things that may happen to a worker. `PromptsReachable`
is inductive only together with `SerialPerChat`: a slot that `register` overwrites would
belong to another turn of the chat. `OneTurnPerThread` says that turns which overlap on a
thread are of one sender in two chats: sessions are keyed by sender and locks by chat, so
these may overlap in the code, and two senders never do. It needs `OwnThreads`: a thread
belongs to the sender of the message that made it, even when a sender has been given two.
`FreshTurnsNotParked` names the three ways in which a turn can meet a parked approval: a
close that failed, a worker cancelled at its prompt (both in `left`), and the same
sender's turn in another chat, which is at its pause. `Tended` says that every other
parked thread has a worker that is still to close it. Neither theorem has an assumption
on who writes where, on stops or on closes.

Its second part is about order, on a second layer, `OInv`, above the first. `FeedOrder`
says that everything on its way keeps the order of the bus: what is queued is sorted,
the message in the loop's hand comes after it, and whatever a worker has in hand comes
before both, a reply to be refed included. `DrainOrder` adds that no message accepted before `stop()`
is behind a sentinel, from which `StopDrains` (`StoppingDrains`) follows, and needs
itself that the loop holds none of them; `Standing` that a worker stands in the line of
its chat exactly while it waits there, and once; `Budgets` that a turn which waits for a
human has a round left to go on with; `Capacity` that the queue stays within its bound.
Together they give the type invariant (`TypeCorrect`). Where thread ids are made up
locally nobody is suspended between queue and line (`OnlyWhereSuspended`), so each line
is sorted but for refed replies (`LineOrder`); that gives the action property
`TurnsInOrder` (`TurnsStartInOrder`). Where the server makes the threads it does not
hold: a message can overtake another that awaits its thread.

Its third part proves that the consumer implements `MessageDelivery`
(`MessagesDeliveredOnce`), again action by action. `FeedOrder` is what the mapping needs:
the head of the queue is the foremost of the backlog (`HeadLeaves`), and a message that
leaves the queue, the bus or a stopped loop's hand is in none of the other two
(`BusHeadLeaves`, `StopLets`), so it is gone once. `PromptsReachable` gives
that the slot `try_resolve` finds is that of a turn of the message's own chat. `Spare` is
added to both: an idle worker has no message, only a closing turn has one to refeed, and a
loop that does not wait for room holds none. Without its second part a refed message could
hide behind a reply that came after it.

`ProactivePushesProofs` proves for any conversations, any bounds on cron threads,
messages, faults, commands and restarts, and any conversations that other sessions
share: the type invariant (`TypeCorrect`), `OnePushPerMessage` (`PushedOncePerMessage`)
and the action property `QuietStaysQuiet` (`QuietUndisturbed`). The invariant has four
parts beside these. `Queue` says what a program of serve looks like: the steps that only
make sense after another one (`rotate`, `retire`, `create`, `append`) are never waiting,
they are next or nowhere, so nothing comes between them and what they follow but the
server and other sessions. `Due` says what holds when such a step is next: there is no
cron while one is being replaced, and a decision that is about to be written concerns an
armed thread without a push. `Unanswered` says that no decision, in a record, in a tick
at work or in serve's hands, was made on top of a push; that makes comparing heads in
`_apply` enough, since the first push of a message changes the head of every other
decision on it. `Quieted` says that what could arm a quiet conversation again is gone:
it is not armed, and its flag is off or paused, or lost together with what its
checkpoints kept. Only the front of a program is ever looked at; `Rest` and `Others` are
what remains of it, and the lemmas speak of programs through them rather than through
`Tail`: the SMT translation reads `Tail(s) \in Seq(S)` as if `s` itself were in `Seq(S)`,
so a fact of that form is given to it only where both are true.

`CompletionNoticesProofs` proves for any conversations, tasks and runs the type
invariant (`TypeCorrect`), `InjectedAtHome` (`AlwaysInjectedAtHome`) and `OncePerRun`
(`EnqueuedOnce`). The invariant is made of `Claimed` (no two readers await
the same run, and nobody has enqueued the one a reader awaits, which is why one check
before the `await` is enough), `Busy` (what a place says of the conversation and of the
batch), `Begun` (a task that has a home has had a run) and `InjectedAtHome`.

`DevServerProofs` proves for any clients, any assignment of calls to them, any server
processes and any clients that may crash: the type invariant (`TypeCorrect`),
`NoOrphanedLaunch` (`NoLaunchIsOrphaned`), `BootsInPeace` (`AllBootInPeace`) and
`ServersStayRecorded` (`AlwaysRecorded`). The first three rest on `Roles` (which call
may be where), `Locks` (who holds the start lock, and who always does while it stops a
server), `Handles` (which places have a server), `Apart` (no two starters have the
same) and `Buried` (whoever has stopped its server has no live one). `AlwaysRecorded`
needs a second layer, `Kept`, which holds until one of the excepted things has happened,
and none of those is ever undone. Its parts lean on each other: `Traced`, a live server
has a starter that is starting it, has handed it over or is about to stop it; so it is
its own server that answers a starter's health poll (`OwnAnswer`), so one handed over
listens (`Listens`) and holds the data folder, so nobody spawns, writes or wipes beside
it (`Alone`, `Stopping`), so the record its starter wrote (`Writes`) still names it
(`Named`).

Every safety invariant and action property that a passing run checks is so stated by a
theorem. Only model-checked is what must eventually happen (`TrackedRunsEnd`,
`PendingDrains`, `EverythingSettles`, `StopReturns`, `LockComesFree`,
`EndsReachTheAgent`, `CronServes`), because liveness under fairness is out of the
prover's reach. The other way round, `EndingsAgree`, `OneTurnPerThread`,
`RecordedBounded` and the type invariants of `BackgroundRuns`, `LinkerActivity` and
`ApprovalPolicy` are proved and left out of the runs.

## What is not modelled

`PROJECT.json` lists every component with its reason. Within the modelled ones:
the asyncio variants of launcher and watcher (the same steps; a task may in
addition be cancelled), profile files (counted like observations, linked to
nothing), more than one memory directory, observations without an id, and
`wait_for_memory_pipeline_idle`; media, typing notices, thinking and todo messages,
metrics and the bound of the bus (5000) of the consumer, the eviction of its sessions
(10 000) and of its chat locks (10 000), several pauses pending in one turn, a resume
that cannot be assembled and leaves its checkpoint parked, and the recovery by which the
next run on a parked thread clears it (`stream/events.py:1496`); of the decisions,
`auto_mode`, which does here what `auto_approve` does, a `dangerous_mode` that changes
(the agent is built with it), the guards of sub-agents, and served graphs, which know
no grant; of the notices, the mirror that reads ended background processes, `cancel_async_task`, a
record that is read in the middle of a launch, before it has a run, and the terminal
UI's own poller, which drains the same queue; of the server, its HTTP routes, the
registration of projects, a record that names a PID the system has given to another
program, a port or lock that another user's process holds, and the front-end of the
web UI; of the pushes, the move of serve to another workspace (`move_to`, `undo_leave`),
the fallback write under a graph without a unique last node, what a push says, and the
turns in which serve tells of ended tasks.

The rest of the code is for the larger part not of the kind a state model says
anything about: rendering (`cli/tui_interactive.py`, `stream/display.py`), command
tables, settings and their parsing, prompts, model tables, and adapters to some twenty
chat services.

## Plan

1. *(done)* `RunLifecycle`, `BackgroundRuns`, `MemoryPipeline`, `LinkerActivity`,
   `InboundConsumer`, `ApprovalPolicy`.
2. *(done)* `DevServer`: start, record and stop of the shared server;
   `CompletionNotices`: the two readers, the queue and the poller; `ProactivePushes`:
   serve's controller, the cron and the restarts.
3. *(done)* Proofs of every safety invariant and action property of these modules:
   `BackgroundRunsProofs`, `ApprovalPolicyProofs`, `MemoryPipelineProofs`,
   `LinkerActivityProofs`, `InboundConsumerProofs`, `CompletionNoticesProofs`,
   `DevServerProofs`, `ProactivePushesProofs`.
4. *(done)* `MessageDelivery`, and the proof that the consumer implements it.
   *(open)* An abstract specification of serve (each message at most one push) that
   `ProactivePushes` is shown to implement in the same way.
5. The eviction of chat locks; the waiter for an idle pipeline; background processes
   and their watcher threads; the channel manager and the inbound middleware; the CLI
   bridge.
6. Pure algorithms against reference definitions: history repair, model retry and
   fallback, goal and rubric loops, paging of schedules.
7. The move of serve to another workspace, the busy probe, the settings file.
