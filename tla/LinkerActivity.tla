--------------------------- MODULE LinkerActivity ---------------------------
(***************************************************************************)
(* The observation linkers a scheduler launches, and what the status bar   *)
(* is told of them (worker_activity.py, launch.py, scheduler.py): a linker *)
(* is "running" while it is being launched and while it is tracked, and    *)
(* when it finishes the relations that appeared on disk meanwhile are       *)
(* added to a total.  A linker's run behaves as RunLifecycle says.         *)
(***************************************************************************)
EXTENDS Naturals, FiniteSets

CONSTANTS
    Linkers,                    \* linker launches
    Relations                   \* observation relations that may come to exist

ASSUME LinkerActivityAssumption == IsFiniteSet(Linkers) /\ IsFiniteSet(Relations)

VARIABLES
    phase, outcome,             \* the linker runs, as in RunLifecycle
    submitted,                  \* linkers whose run may be at work on the server
    launcher,                   \* launcher[l]: the thread in _launch_ready
    hook,                       \* hook[l]: the on_finished hook
    links,                      \* links[l]: relations linker l wrote to frontmatter
    before,                     \* before_relations
    found,                      \* relations counted for a finished linker
    active,                     \* _active_linker_runs
    launches,                   \* _linker_launches_in_progress
    linked                      \* _relations_linked

runs == <<phase, outcome, submitted>>
status == <<active, launches, linked>>
vars == <<runs, launcher, hook, links, before, found, status>>

Run == INSTANCE RunLifecycle WITH Runs <- Linkers, exited <- FALSE

OnDisk == UNION {links[l] : l \in Linkers}

TypeOK ==
    /\ phase \in [Linkers -> Run!Phases]
    /\ outcome \in [Linkers -> Run!Outcomes \cup {"none"}]
    /\ submitted \subseteq Linkers
    /\ launcher \in [Linkers -> {"waiting", "launching", "returned"}]
    /\ hook \in [Linkers -> {"none", "popped", "snapshotted", "done"}]
    /\ links \in [Linkers -> SUBSET Relations]
    /\ before \in [Linkers -> SUBSET Relations]
    /\ found \in [Linkers -> SUBSET Relations]
    /\ active \subseteq Linkers
    /\ launches \in 0 .. Cardinality(Linkers)
    /\ linked \in 0 .. Cardinality(Linkers) * Cardinality(Relations)

Init ==
    /\ Run!Init /\ submitted = {}
    /\ launcher = [l \in Linkers |-> "waiting"]
    /\ hook = [l \in Linkers |-> "none"]
    /\ links = [l \in Linkers |-> {}]
    /\ before = [l \in Linkers |-> {}]
    /\ found = [l \in Linkers |-> {}]
    /\ active = {} /\ launches = 0 /\ linked = 0

-----------------------------------------------------------------------------
\* mark_observation_linker_launch_started
BeginLaunch_Unmarked(l) ==
    /\ launcher[l] = "waiting"
    /\ launcher' = [launcher EXCEPT ![l] = "launching"]
    /\ UNCHANGED <<runs, hook, links, before, found, status>>

BeginLaunch(l) ==
    /\ launcher[l] = "waiting"
    /\ launcher' = [launcher EXCEPT ![l] = "launching"]
    /\ launches' = launches + 1
    /\ UNCHANGED <<runs, hook, links, before, found, active, linked>>

\* Linking is disabled, no server, or an exception: no run to track.
GiveUpLaunch(l) ==
    /\ launcher[l] = "launching"
    /\ Run!Drop(l)
    /\ UNCHANGED <<submitted, launcher, hook, links, before, found, status>>

PrepareLinker(l) ==
    /\ launcher[l] = "launching"
    /\ Run!Prepare(l)
    /\ submitted' = submitted \cup {l}
    /\ before' = [before EXCEPT ![l] = OnDisk]
    /\ UNCHANGED <<launcher, hook, links, found, status>>

LinkerStarted(l) ==
    /\ Run!Track(l)
    /\ active' = active \cup {l}
    /\ UNCHANGED <<submitted, launcher, hook, links, before, found, launches, linked>>

\* The finally block of _launch_ready; the counter does not go below zero.
Unmarked_OnSuccess(l) == IF phase[l] = "dropped" THEN launches ELSE launches - 1
Unmarked(l) == IF launches > 0 THEN launches - 1 ELSE 0

EndLaunch(l) ==
    /\ launcher[l] = "launching"
    /\ phase[l] \notin {"idle", "prepared"}
    /\ launcher' = [launcher EXCEPT ![l] = "returned"]
    /\ launches' = Unmarked(l)
    /\ UNCHANGED <<runs, hook, links, before, found, active, linked>>

-----------------------------------------------------------------------------
\* The linker's run: one that was given up may be at work all the same.
WriteRelation(l) ==
    /\ l \in submitted /\ outcome[l] = "none"
    /\ \E r \in Relations \ OnDisk : links' = [links EXCEPT ![l] = @ \cup {r}]
    /\ UNCHANGED <<runs, launcher, hook, before, found, status>>

LinkerSettles(l) ==
    /\ l \in submitted
    /\ Run!Settle(l)
    /\ UNCHANGED <<submitted, launcher, hook, links, before, found, status>>

\* mark_observation_linker_finished, in three steps: pop under the lock,
\* snapshot outside it, add under it.
LinkerPopped(l) ==
    /\ Run!Finish(l)
    /\ hook' = [hook EXCEPT ![l] = "popped"]
    /\ active' = active \ {l}
    /\ UNCHANGED <<submitted, launcher, links, before, found, launches, linked>>

SnapshotRelations(l) ==
    /\ hook[l] = "popped"
    /\ hook' = [hook EXCEPT ![l] = "snapshotted"]
    /\ found' = [found EXCEPT ![l] = OnDisk \ before[l]]
    /\ UNCHANGED <<runs, launcher, links, before, status>>

AddRelations(l) ==
    /\ hook[l] = "snapshotted"
    /\ hook' = [hook EXCEPT ![l] = "done"]
    /\ linked' = linked + Cardinality(found[l])
    /\ UNCHANGED <<runs, launcher, links, before, found, active, launches>>

\* on_aborted, also for a lost sight and for a watcher that did not start.
ForgetLinker(l) ==
    /\ Run!Abort(l) \/ Run!LoseSight(l) \/ (launcher[l] = "launching" /\ Run!Unwatched(l))
    /\ active' = active \ {l}
    /\ UNCHANGED <<submitted, launcher, hook, links, before, found, launches, linked>>

ClearCounts ==
    /\ linked' = 0
    /\ UNCHANGED <<runs, launcher, hook, links, before, found, active, launches>>

Next ==
    \/ \E l \in Linkers :
           \/ BeginLaunch(l) \/ GiveUpLaunch(l) \/ PrepareLinker(l) \/ LinkerStarted(l) \/ EndLaunch(l)
           \/ WriteRelation(l) \/ LinkerSettles(l)
           \/ LinkerPopped(l) \/ SnapshotRelations(l) \/ AddRelations(l) \/ ForgetLinker(l)
    \/ ClearCounts

Spec == Init /\ [][Next]_vars

-----------------------------------------------------------------------------
\* observation_linker_status().is_running
IsRunning == active # {} \/ launches > 0

\* From the start of its launch to its ending hook a linker shows as running:
\* there is no instant at which the launch no longer counts and the run does not
\* count yet (test_memory_pipeline_waits_while_observation_linker_is_launching).
NoIdleGap ==
    \A l \in Linkers :
        launcher[l] = "launching" \/ phase[l] = "tracked" => IsRunning

\* Once every launch has returned and every tracked run has ended the status is
\* idle: no failure of a launch leaves the counter or the registry behind.
IdleInTheEnd ==
    (\A l \in Linkers : launcher[l] # "launching" /\ phase[l] # "tracked") => ~IsRunning

\* "Relation counts should reflect actual metadata updates"
\* (tests/test_observation_memory.py): the total never exceeds the relations
\* there are.  Two linkers that overlap break it, each counts the other's.
CountsReflectUpdates == linked <= Cardinality(OnDisk)
=============================================================================
