--------------------------- MODULE MemoryPipeline ---------------------------
(***************************************************************************)
(* From the end of an agent turn to the observation linker.  A turn records *)
(* observations itself, then launches a memory worker (memory_lifecycle.py, *)
(* launch.py); the worker's hooks credit what appeared on disk while it ran *)
(* (worker_activity.py) and hand it to the scheduler, which launches        *)
(* linkers once no worker is tracked (scheduler.py).  All turns share one   *)
(* memory directory, as the workspaces of one process do; the worker's run  *)
(* behaves as RunLifecycle says.                                            *)
(***************************************************************************)
EXTENDS Naturals, FiniteSets

CONSTANTS
    Turns,                      \* agent turns; each has a thread and at most one worker
    Observations,               \* observation files that may come to exist
    Projects,
    ProjectOf,                  \* the project of a turn, and of its worker's metadata
    None                        \* no turn

ASSUME MemoryPipelineAssumption ==
    /\ IsFiniteSet(Turns) /\ IsFiniteSet(Observations)
    /\ ProjectOf \in [Turns -> Projects]
    /\ None \notin Turns

VARIABLES
    phase, outcome,             \* the worker runs, as in RunLifecycle
    pc,                         \* next step of a turn's thread, later of its watcher's hook
    disk,                       \* observation files
    author,                     \* author[o]: the turn whose agent or worker wrote o
    direct,                     \* the observations written by an agent itself
    unqueued,                   \* recorded by the agent, callback not made yet
    submitted,                  \* turns whose run may be at work on the server
    before,                     \* before_outputs
    delta,                      \* outputs credited, or about to be credited
    active,                     \* _active_runs
    counted, recorded,          \* _counted_observation_files, _observations_recorded
    pending,                    \* MemoryScheduler._pending
    lock,                       \* holder of MemoryScheduler._lock
    todo,                       \* keys the drain under way has not looked at
    batches,                    \* drained batches not yet launched, by turn and key
    launches,                   \* _linker_launches_in_progress
    offered                     \* linker launches made, whatever became of them

runs == <<phase, outcome, submitted>>
files == <<disk, author, direct>>
activity == <<active, counted, recorded>>
scheduler == <<pending, lock, todo, batches>>
vars == <<runs, files, activity, scheduler, pc, unqueued, before, delta, launches, offered>>

Run == INSTANCE RunLifecycle WITH Runs <- Turns, exited <- FALSE

Steps == {"working", "flush", "launching", "watched", "popped", "snapshotted",
          "record", "draining", "linking", "in_launch", "done"}
Offers == [by : Turns, project : Projects, ids : SUBSET Observations]

TypeOK ==
    /\ phase \in [Turns -> Run!Phases]
    /\ outcome \in [Turns -> Run!Outcomes \cup {"none"}]
    /\ pc \in [Turns -> Steps]
    /\ disk \subseteq Observations /\ direct \subseteq disk
    /\ author \in [Observations -> Turns \cup {None}]
    /\ unqueued \in [Turns -> SUBSET Observations]
    /\ submitted \subseteq Turns /\ active \subseteq Turns
    /\ before \in [Turns -> SUBSET Observations]
    /\ delta \in [Turns -> SUBSET Observations]
    /\ counted \subseteq disk
    /\ recorded \in 0 .. Cardinality(Observations)
    /\ pending \in [Projects -> SUBSET Observations]
    /\ lock \in Turns \cup {None}
    /\ todo \subseteq Projects
    /\ batches \in [Turns -> [Projects -> SUBSET Observations]]
    /\ launches \in Nat
    /\ offered \subseteq Offers

Nothing == [p \in Projects |-> {}]

Init ==
    /\ Run!Init
    /\ pc = [t \in Turns |-> "working"]
    /\ disk = {} /\ direct = {}
    /\ author = [o \in Observations |-> None]
    /\ unqueued = [t \in Turns |-> {}]
    /\ submitted = {} /\ active = {}
    /\ before = [t \in Turns |-> {}]
    /\ delta = [t \in Turns |-> {}]
    /\ counted = {} /\ recorded = 0
    /\ pending = Nothing
    /\ lock = None
    /\ todo = {}
    /\ batches = [t \in Turns |-> Nothing]
    /\ launches = 0
    /\ offered = {}

-----------------------------------------------------------------------------
Go(t, from, to) == pc[t] = from /\ pc' = [pc EXCEPT ![t] = to]

\* A new file; its name is its content's digest, so one turn wrote it.
Write(t, o) ==
    /\ o \notin disk
    /\ disk' = disk \cup {o}
    /\ author' = [author EXCEPT ![o] = t]

\* record_observation of the agent: the file first, then the callback.
AgentWrites(t, o) ==
    /\ pc[t] = "working"
    /\ Write(t, o)
    /\ direct' = direct \cup {o}
    /\ unqueued' = [unqueued EXCEPT ![t] = @ \cup {o}]
    /\ UNCHANGED <<runs, activity, scheduler, pc, before, delta, launches, offered>>

Queue_Overwrites(project, ids) == pending' = [pending EXCEPT ![project] = ids]
Queue(project, ids) == pending' = [pending EXCEPT ![project] = @ \cup ids]

RecordObservationCreated(t, o) ==
    /\ o \in unqueued[t]
    /\ lock = None
    /\ Queue(ProjectOf[t], {o})
    /\ unqueued' = [unqueued EXCEPT ![t] = @ \ {o}]
    /\ UNCHANGED <<runs, files, activity, pc, before, delta, lock, todo, batches, launches, offered>>

-----------------------------------------------------------------------------
\* after_agent.  Nothing new, no context, no server, or no thread: flush only.
SkipWorker(t) ==
    /\ Go(t, "working", "flush")
    /\ unqueued[t] = {}
    /\ Run!Drop(t)
    /\ UNCHANGED <<submitted, files, activity, scheduler, unqueued, before, delta, launches, offered>>

\* on_before_run takes the snapshot before the run is submitted.
PrepareWorker(t) ==
    /\ Go(t, "working", "launching")
    /\ unqueued[t] = {}
    /\ Run!Prepare(t)
    /\ submitted' = submitted \cup {t}
    /\ before' = [before EXCEPT ![t] = disk]
    /\ UNCHANGED <<files, activity, scheduler, unqueued, delta, launches, offered>>

\* A launch that raised is flushed for; its run may be at work all the same.
LaunchRaises_NoFlush(t) ==
    /\ Go(t, "launching", "done")
    /\ Run!Drop(t)
    /\ UNCHANGED <<submitted, files, activity, scheduler, unqueued, before, delta, launches, offered>>

LaunchRaises(t) ==
    /\ Go(t, "launching", "flush")
    /\ Run!Drop(t)
    /\ UNCHANGED <<submitted, files, activity, scheduler, unqueued, before, delta, launches, offered>>

\* on_started: mark_memory_worker_started.
WorkerStarted_Snapshots(t) ==
    /\ Go(t, "launching", "watched")
    /\ Run!Track(t)
    /\ active' = active \cup {t}
    /\ before' = [before EXCEPT ![t] = disk]
    /\ UNCHANGED <<submitted, files, counted, recorded, scheduler, unqueued, delta, launches, offered>>

WorkerStarted(t) ==
    /\ Go(t, "launching", "watched")
    /\ Run!Track(t)
    /\ active' = active \cup {t}
    /\ UNCHANGED <<submitted, files, counted, recorded, scheduler, unqueued, before, delta, launches, offered>>

\* The worker at work on the server.
WorkerWrites(t, o) ==
    /\ t \in submitted /\ outcome[t] = "none"
    /\ Write(t, o)
    /\ UNCHANGED <<runs, activity, scheduler, direct, pc, unqueued, before, delta, launches, offered>>

WorkerSettles(t) ==
    /\ t \in submitted
    /\ Run!Settle(t)
    /\ UNCHANGED <<submitted, files, activity, scheduler, pc, unqueued, before, delta, launches, offered>>

-----------------------------------------------------------------------------
\* on_finished, on_aborted and on_watcher_start_failed: the worker is untracked
\* at once, and its outputs are looked at outside the lock.
WorkerPopped(t) ==
    /\ Go(t, "watched", "popped")
    /\ Run!Finish(t) \/ Run!Abort(t) \/ Run!Unwatched(t)
    /\ active' = active \ {t}
    /\ UNCHANGED <<submitted, files, counted, recorded, scheduler, unqueued, before, delta, launches, offered>>

\* on_status_unknown: forget_memory_worker, and nothing else.
ForgetWorker(t) ==
    /\ Go(t, "watched", "done")
    /\ Run!LoseSight(t)
    /\ active' = active \ {t}
    /\ UNCHANGED <<submitted, files, counted, recorded, scheduler, unqueued, before, delta, launches, offered>>

SnapshotOutputs(t) ==
    /\ Go(t, "popped", "snapshotted")
    /\ delta' = [delta EXCEPT ![t] = disk \ before[t]]
    /\ UNCHANGED <<runs, files, activity, scheduler, unqueued, before, launches, offered>>

\* Under the lock again: only what no other worker was credited with.
Uncounted_Stale(t) == delta[t]
Uncounted(t) == delta[t] \ counted

CreditOutputs(t) ==
    /\ Go(t, "snapshotted", "record")
    /\ delta' = [delta EXCEPT ![t] = Uncounted(t)]
    /\ counted' = counted \cup delta[t]
    /\ recorded' = recorded + Cardinality(delta'[t])
    /\ UNCHANGED <<runs, files, active, scheduler, unqueued, before, launches, offered>>

\* clear_completed_memory_activity_counts: the total, not what was counted.
ClearCounts_Forgets ==
    /\ recorded' = 0 /\ counted' = {}
    /\ UNCHANGED <<runs, files, active, scheduler, pc, unqueued, before, delta, launches, offered>>

ClearCounts ==
    /\ recorded' = 0
    /\ UNCHANGED <<runs, files, active, counted, scheduler, pc, unqueued, before, delta, launches, offered>>

-----------------------------------------------------------------------------
\* The scheduler.  A drain holds the scheduler's lock and asks for tracked
\* workers once per key, under the other lock: they may change in between.

Keys_Early == {p \in Projects : pending[p] # {}}
Keys == {p \in Projects : pending'[p] # {}}

RecordWorker(t) ==
    /\ Go(t, "record", "draining")
    /\ lock = None
    /\ lock' = t
    /\ Queue(ProjectOf[t], delta[t])
    /\ todo' = Keys
    /\ UNCHANGED <<runs, files, activity, batches, unqueued, before, delta, launches, offered>>

FlushReady(t) ==
    /\ Go(t, "flush", "draining")
    /\ lock = None
    /\ lock' = t
    /\ UNCHANGED pending
    /\ todo' = Keys
    /\ UNCHANGED <<runs, files, activity, batches, unqueued, before, delta, launches, offered>>

Popped_Kept(p) == pending
Popped(p) == [pending EXCEPT ![p] = {}]

TakeReady(t, p) ==
    /\ pc[t] = "draining" /\ p \in todo
    /\ todo' = todo \ {p}
    /\ IF active = {}
       THEN /\ batches' = [batches EXCEPT ![t][p] = pending[p]]
            /\ pending' = Popped(p)
       ELSE UNCHANGED <<batches, pending>>
    /\ UNCHANGED <<runs, files, activity, lock, pc, unqueued, before, delta, launches, offered>>

Unlock(t) ==
    /\ Go(t, "draining", "linking")
    /\ todo = {}
    /\ lock' = None
    /\ UNCHANGED <<runs, files, activity, pending, todo, batches, unqueued, before, delta, launches, offered>>

\* _launch_ready, one context after the other: mark, launch, unmark.
StartLinker(t, p) ==
    /\ Go(t, "linking", "in_launch")
    /\ batches[t][p] # {}
    /\ launches' = launches + 1
    /\ batches' = [batches EXCEPT ![t][p] = {}]
    /\ offered' = offered \cup {[by |-> t, project |-> p, ids |-> batches[t][p]]}
    /\ UNCHANGED <<runs, files, activity, pending, lock, todo, unqueued, before, delta>>

\* The launch returned, a run or None, or raised: all one to the scheduler.
Unmarked(n) == IF n > 0 THEN n - 1 ELSE 0

LinkerLaunched(t) ==
    /\ Go(t, "in_launch", "linking")
    /\ launches' = Unmarked(launches)
    /\ UNCHANGED <<runs, files, activity, scheduler, unqueued, before, delta, offered>>

LinkersDone(t) ==
    /\ Go(t, "linking", "done")
    /\ batches[t] = Nothing
    /\ UNCHANGED <<runs, files, activity, scheduler, unqueued, before, delta, launches, offered>>

AgentStep(t) == SkipWorker(t) \/ PrepareWorker(t) \/ LaunchRaises(t) \/ WorkerStarted(t)
HookStep(t) == WorkerPopped(t) \/ ForgetWorker(t) \/ SnapshotOutputs(t) \/ CreditOutputs(t)
DrainStep(t) ==
    \/ RecordWorker(t) \/ FlushReady(t) \/ Unlock(t) \/ LinkerLaunched(t) \/ LinkersDone(t)
    \/ \E p \in Projects : TakeReady(t, p) \/ StartLinker(t, p)
FileStep(t) ==
    \E o \in Observations : AgentWrites(t, o) \/ RecordObservationCreated(t, o) \/ WorkerWrites(t, o)

Next ==
    \/ \E t \in Turns : AgentStep(t) \/ HookStep(t) \/ DrainStep(t) \/ FileStep(t) \/ WorkerSettles(t)
    \/ ClearCounts

\* Threads run on, runs settle (each has a recursion limit), and a tracked run
\* ends for its watcher (RunLifecycle!Spec).  Nothing makes anybody write.
Fairness ==
    \A t \in Turns :
        /\ WF_vars(AgentStep(t) \/ HookStep(t) \/ DrainStep(t))
        /\ WF_vars(\E o \in Observations : RecordObservationCreated(t, o))
        /\ WF_vars(WorkerSettles(t))

Spec == Init /\ [][Next]_vars /\ Fairness

-----------------------------------------------------------------------------
Credited(t) == IF pc[t] \in {"popped", "snapshotted"} THEN {} ELSE delta[t]

\* Overlapping workers each see the other's files between their snapshots; an
\* observation is nevertheless credited to one of them only
\* (mark_memory_worker_finished; test_..._dedupes_overlapping_observation_deltas).
CreditedOnce ==
    \A t, u \in Turns : t # u => Credited(t) \cap Credited(u) = {}

\* However the clears of the status bar interleave with the hooks, the total on
\* display counts distinct files that are there.
RecordedBounded == recorded <= Cardinality(counted)

\* A worker whose end its watcher saw has everything it wrote credited to some
\* worker once its hook has counted: the snapshot was taken before it could
\* write, and it can write no more.
NothingOverlooked ==
    \A t \in Turns :
        phase[t] \in {"finished", "aborted"} /\ pc[t] \notin {"popped", "snapshotted"} =>
            {o \in disk \ direct : author[o] = t} \subseteq counted

\* Where an observation on its way to a linker is.
Places(o) ==
    {<<"delta", t>> : t \in {u \in Turns : pc[u] = "record" /\ o \in delta[u]}}
    \cup {<<"pending", p>> : p \in {q \in Projects : o \in pending[q]}}
    \cup {<<"batch", x>> : x \in {y \in Turns \X Projects : o \in batches[y[1]][y[2]]}}
    \cup {<<"offered", f>> : f \in {g \in offered : o \in g.ids}}

\* A credited observation is never lost between the hooks and the linker, and
\* neither is one the agent queued, whatever the drains of other turns do.
NoneLost ==
    \A o \in counted \cup direct :
        o \in UNION {unqueued[t] : t \in Turns} \/ Places(o) # {}

\* An observation of a worker reaches one linker launch at most.  (One that an
\* agent recorded while a worker ran may reach two.)
LinkedOnce ==
    \A o \in disk \ direct : \A x, y \in Places(o) : x = y

\* When all threads have come to rest nothing waits for a linker any more,
\* unless a watcher lost sight of its run: the last hook to drain finds no
\* worker tracked (scheduler.py, _ready_batches_locked).
NothingStranded ==
    (\A t \in Turns : pc[t] = "done") =>
        pending = Nothing \/ \E t \in Turns : phase[t] = "status_unknown"

\* What is queued is offered in the end, unless a watcher loses sight of its run:
\* on_status_unknown forgets the worker and looks at no pending table (scheduler.py).
PendingDrains ==
    \A o \in Observations :
        (\E p \in Projects : o \in pending[p]) ~>
            \/ \E f \in offered : o \in f.ids
            \/ \E t \in Turns : phase[t] = "status_unknown"
=============================================================================
