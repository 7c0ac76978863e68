--------------------------- MODULE BackgroundRuns ---------------------------
(***************************************************************************)
(* On-demand background runs: launch_background_run and the daemon thread  *)
(* watch_background_run_sync, against the thread and the run they own on   *)
(* the local langgraph server.  Launcher and watcher of one run never act  *)
(* at once (the watcher is the launcher's last step), so one program       *)
(* counter serves both; the server acts between any two of their calls.    *)
(***************************************************************************)
EXTENDS Naturals, Sequences

CONSTANTS
    Launches,                   \* the launches of one client process
    MaxPollFailures,            \* BackgroundRunWatcherConfig.max_poll_failures
    DeleteThreadOnFinish,       \* BackgroundRunWatcherConfig.delete_thread_on_finish
    Faults                      \* Faults[l]: the calls that may fail for launch l

Calls == {"create_thread", "before_run", "create_run", "late_run", "spawn",
          "connect", "poll", "list", "cancel", "delete"}

ASSUME BackgroundRunsAssumption ==
    /\ MaxPollFailures \in Nat \ {0}
    /\ DeleteThreadOnFinish \in BOOLEAN
    /\ Faults \in [Launches -> SUBSET Calls]

VARIABLES
    pc,                         \* next call of the launcher, then of the watcher
    hooks,                      \* hooks[l]: the hooks called so far, in order
    failures,                   \* consecutive failed polls
    listed,                     \* the cleanup has found a run to cancel
    thread,                     \* server: the worker thread
    run,                        \* server: status of the run on that thread
    inflight,                   \* a runs.create the client gave up on, still under way
    exited                      \* the client process is gone

client == <<pc, hooks, failures, listed>>
server == <<thread, run, inflight>>
vars == <<pc, hooks, failures, listed, thread, run, inflight, exited>>

Failed   == {"error", "timeout", "interrupted"}
Terminal == Failed \cup {"success"}
Active   == {"pending", "running"}
Endings  == {"finished", "aborted", "status_unknown", "watcher_start_failed"}

Cleanup == {"list_first", "list_second", "cancel", "delete"}
Stopped == {"skipped", "raised", "unwatched", "unknown", "closed"}
Steps == {"idle", "create_thread", "before_run", "create_run", "started", "spawn",
          "connect", "poll", "decided", "lost"} \cup Cleanup \cup Stopped

\* What the hooks may have been: none, the launch's two, and one ending.
NoHooks == <<>>
Prepared == Append(NoHooks, "before_run")
Began == Append(Prepared, "started")
EndedWith(e) == Append(Began, e)
Histories == {NoHooks, Prepared, Began} \cup {EndedWith(e) : e \in Endings}

TypeOK ==
    /\ pc \in [Launches -> Steps]
    /\ hooks \in [Launches -> Histories]
    /\ failures \in [Launches -> 0 .. MaxPollFailures]
    /\ listed \in [Launches -> BOOLEAN]
    /\ thread \in [Launches -> {"none", "exists", "deleted"}]
    /\ run \in [Launches -> {"none", "gone"} \cup Active \cup Terminal]
    /\ inflight \in [Launches -> BOOLEAN]
    /\ exited \in BOOLEAN

Init ==
    /\ pc = [l \in Launches |-> "idle"]
    /\ hooks = [l \in Launches |-> NoHooks]
    /\ failures = [l \in Launches |-> 0]
    /\ listed = [l \in Launches |-> FALSE]
    /\ thread = [l \in Launches |-> "none"]
    /\ run = [l \in Launches |-> "none"]
    /\ inflight = [l \in Launches |-> FALSE]
    /\ exited = FALSE

-----------------------------------------------------------------------------
At(l, here) == ~exited /\ pc[l] = here /\ UNCHANGED exited
Goto(l, there) == pc' = [pc EXCEPT ![l] = there]
CallHook(l, hook) == hooks' = [hooks EXCEPT ![l] = Append(@, hook)]
MayFail(l, call) == call \in Faults[l]

\* An exception inside launch_background_run's try block: _delete_thread, then raise.
Raise_NoCleanup(l) == Goto(l, "raised")
Raise(l) == Goto(l, "list_first")

\* The server is not there: the launch is skipped and no hook is called.
CheckServer(l) ==
    /\ At(l, "idle")
    /\ Goto(l, "create_thread") \/ Goto(l, "skipped")
    /\ UNCHANGED <<hooks, failures, listed, server>>

\* threads.create is outside the try block: when it raises there is no cleanup,
\* although the server may have created the thread.
CreateThread(l) ==
    /\ At(l, "create_thread")
    /\ \/ /\ Goto(l, "before_run")
          /\ thread' = [thread EXCEPT ![l] = "exists"]
       \/ /\ MayFail(l, "create_thread")
          /\ Goto(l, "raised")
          /\ thread' \in {thread, [thread EXCEPT ![l] = "exists"]}
    /\ UNCHANGED <<hooks, failures, listed, run, inflight>>

CallBeforeRun(l) ==
    /\ At(l, "before_run")
    /\ CallHook(l, "before_run")
    /\ \/ Goto(l, "create_run")
       \/ MayFail(l, "before_run") /\ Raise(l)
    /\ UNCHANGED <<failures, listed, server>>

\* A create that raises may have been carried out, or may still be carried out.
CreateRun(l) ==
    /\ At(l, "create_run")
    /\ \/ /\ Goto(l, "started")
          /\ run' = [run EXCEPT ![l] = "pending"]
          /\ UNCHANGED inflight
       \/ /\ MayFail(l, "create_run")
          /\ Raise(l)
          /\ run' \in {run, [run EXCEPT ![l] = "pending"]}
          /\ inflight' = [inflight EXCEPT ![l] = MayFail(l, "late_run") /\ run'[l] = "none"]
    /\ UNCHANGED <<hooks, failures, listed, thread>>

\* An exception of on_started is logged and swallowed.
CallStarted(l) ==
    /\ At(l, "started")
    /\ CallHook(l, "started")
    /\ Goto(l, "spawn")
    /\ UNCHANGED <<failures, listed, server>>

\* When the thread cannot be started the run goes on, unwatched.
NotSpawned_WatchedToo(l) == Goto(l, "connect") /\ CallHook(l, "watcher_start_failed")
NotSpawned(l) == Goto(l, "unwatched") /\ CallHook(l, "watcher_start_failed")

SpawnWatcher(l) ==
    /\ At(l, "spawn")
    /\ \/ Goto(l, "connect") /\ UNCHANGED hooks
       \/ MayFail(l, "spawn") /\ NotSpawned(l)
    /\ UNCHANGED <<failures, listed, server>>

-----------------------------------------------------------------------------
\* The watcher.

\* get_sync_client raises inside the try block, so the hook is called all the same.
NoClient_Unreported(l) == Goto(l, "unknown")
NoClient(l) == Goto(l, "lost")

Connect(l) ==
    /\ At(l, "connect")
    /\ Goto(l, "poll") \/ (MayFail(l, "connect") /\ NoClient(l))
    /\ UNCHANGED <<hooks, failures, listed, server>>

PollStatus(l) ==
    /\ At(l, "poll")
    /\ thread[l] = "exists"
    /\ failures' = [failures EXCEPT ![l] = 0]
    /\ IF run[l] \in Terminal THEN Goto(l, "decided") ELSE UNCHANGED pc
    /\ UNCHANGED <<hooks, listed, server>>

GivesUp(n) == n >= MaxPollFailures

PollFails(l) ==
    /\ At(l, "poll")
    /\ MayFail(l, "poll")
    /\ failures' = [failures EXCEPT ![l] = @ + 1]
    /\ IF GivesUp(failures'[l]) THEN Goto(l, "lost") ELSE UNCHANGED pc
    /\ UNCHANGED <<hooks, listed, server>>

\* The finally block: the hook first, then the cleanup.
TerminalHook(status) == IF status = "success" THEN "finished" ELSE "aborted"

CallTerminalHook(l) ==
    /\ At(l, "decided")
    /\ CallHook(l, TerminalHook(run[l]))
    /\ Goto(l, IF DeleteThreadOnFinish THEN "list_first" ELSE "closed")
    /\ UNCHANGED <<failures, listed, server>>

CallUnknownHook_Deletes(l) ==
    /\ At(l, "lost")
    /\ CallHook(l, "status_unknown")
    /\ Goto(l, "delete")
    /\ UNCHANGED <<failures, listed, server>>

CallUnknownHook(l) ==
    /\ At(l, "lost")
    /\ CallHook(l, "status_unknown")
    /\ Goto(l, "unknown")
    /\ UNCHANGED <<failures, listed, server>>

-----------------------------------------------------------------------------
\* _delete_thread, of a launch that raised or of a run seen to end.  Every
\* call is best effort; a failed listing skips the cancel.

CleanupOver(l) == IF hooks[l] \in {NoHooks, Prepared} THEN "raised" ELSE "closed"

\* _CANCELABLE_RUN_STATUSES, listed in this order.
Cancelable_Swapped == <<"running", "pending">>
Cancelable == <<"pending", "running">>

ListFirst(l) ==
    /\ At(l, "list_first")
    /\ \/ /\ listed' = [listed EXCEPT ![l] = run[l] = Cancelable[1]]
          /\ Goto(l, "list_second")
       \/ MayFail(l, "list") /\ Goto(l, "delete") /\ UNCHANGED listed
    /\ UNCHANGED <<hooks, failures, server>>

ListSecond(l) ==
    /\ At(l, "list_second")
    /\ \/ /\ listed' = [listed EXCEPT ![l] = @ \/ run[l] = Cancelable[2]]
          /\ Goto(l, IF listed'[l] THEN "cancel" ELSE "delete")
       \/ MayFail(l, "list") /\ Goto(l, "delete") /\ UNCHANGED listed
    /\ UNCHANGED <<hooks, failures, server>>

Interrupted(l) == IF run[l] \in Active THEN [run EXCEPT ![l] = "interrupted"] ELSE run

CancelMany(l) ==
    /\ At(l, "cancel")
    /\ Goto(l, "delete")
    /\ run' = Interrupted(l) \/ (MayFail(l, "cancel") /\ UNCHANGED run)
    /\ UNCHANGED <<hooks, failures, listed, thread, inflight>>

\* Deleting a thread removes its queued run, and leaves an executing one alone.
DeleteThread(l) ==
    /\ At(l, "delete")
    /\ Goto(l, CleanupOver(l))
    /\ \/ /\ thread' = [thread EXCEPT ![l] = "deleted"]
          /\ run' = IF run[l] = "pending" THEN [run EXCEPT ![l] = "gone"] ELSE run
       \/ MayFail(l, "delete") /\ UNCHANGED <<thread, run>>
    /\ UNCHANGED <<hooks, failures, listed, inflight>>

-----------------------------------------------------------------------------
\* The server, and the end of the process (watchers are daemon threads).

AcceptLateRun(l) ==
    /\ inflight[l]
    /\ inflight' = [inflight EXCEPT ![l] = FALSE]
    /\ run' = IF thread[l] = "exists" THEN [run EXCEPT ![l] = "pending"] ELSE run
    /\ UNCHANGED <<client, thread, exited>>

StartRun(l) ==
    /\ run[l] = "pending"
    /\ run' = [run EXCEPT ![l] = "running"]
    /\ UNCHANGED <<client, thread, inflight, exited>>

EndRun(l) ==
    /\ run[l] = "running"
    /\ \E status \in Terminal : run' = [run EXCEPT ![l] = status]
    /\ UNCHANGED <<client, thread, inflight, exited>>

ProcessExit ==
    /\ ~exited
    /\ exited' = TRUE
    /\ UNCHANGED <<client, server>>

LaunchStep(l) ==
    CheckServer(l) \/ CreateThread(l) \/ CallBeforeRun(l) \/ CreateRun(l)
    \/ CallStarted(l) \/ SpawnWatcher(l)
WatchStep(l) ==
    Connect(l) \/ PollStatus(l) \/ PollFails(l) \/ CallTerminalHook(l) \/ CallUnknownHook(l)
CleanupStep(l) == ListFirst(l) \/ ListSecond(l) \/ CancelMany(l) \/ DeleteThread(l)
ClientStep(l) == LaunchStep(l) \/ WatchStep(l) \/ CleanupStep(l)
ServerStep(l) == AcceptLateRun(l) \/ StartRun(l) \/ EndRun(l)

Next == (\E l \in Launches : ClientStep(l) \/ ServerStep(l)) \/ ProcessExit

\* Launchers and watchers are threads that are scheduled; the server works its
\* queue off and each of its runs ends.  Nothing makes a poll fail, a process
\* exit or a late request arrive.
Progress(l) == ClientStep(l) /\ ~PollFails(l)
Fairness ==
    \A l \in Launches :
        WF_vars(Progress(l)) /\ WF_vars(StartRun(l)) /\ WF_vars(EndRun(l))

Spec == Init /\ [][Next]_vars /\ Fairness

-----------------------------------------------------------------------------
\* Refinement: what the hooks have said of a launch.

Last(s) == s[Len(s)]
PhaseOf(l) ==
    IF pc[l] \in {"skipped", "raised"} THEN "dropped"
    ELSE IF hooks[l] = NoHooks THEN "idle"
    ELSE IF hooks[l] = Prepared
         THEN IF pc[l] \in Cleanup THEN "dropped" ELSE "prepared"
    ELSE IF hooks[l] = Began THEN "tracked"
    ELSE Last(hooks[l])

Lifecycle == INSTANCE RunLifecycle WITH
    Runs <- Launches,
    phase <- [l \in Launches |-> PhaseOf(l)],
    outcome <- [l \in Launches |-> IF run[l] \in Terminal THEN run[l] ELSE "none"]

\* Launcher and watcher together keep the promise of RunLifecycle: every launch
\* is dropped or tracked, a tracked one ends through one hook, and "finished"
\* is said of successful runs only (launch_background_run, watch_background_run_sync).
LifecycleSafety == Lifecycle!SafeSpec

-----------------------------------------------------------------------------
\* A hook history is only read by the accounting of the caller: whatever the
\* order of failures, on_started precedes the ending, there is one ending at
\* most, and what it says agrees with the run on the server even after the run
\* and its thread are cleaned up.
EndingsAgree ==
    \A l \in Launches :
        /\ hooks[l] \in Histories
        /\ hooks[l] = EndedWith("finished") => run[l] = "success"
        /\ hooks[l] = EndedWith("aborted") => run[l] \in Failed

\* A thread is deleted only under a run that is over, or by the cleanup of the
\* launch that created it: a watcher that lost sight of the run, or that never
\* started, leaves it to finish (test_gateway_background_runs: the thread is
\* preserved on poll failure).
WorkingThreadsKept ==
    [][\A l \in Launches :
           thread[l] = "exists" /\ thread'[l] = "deleted" =>
               run[l] \in Terminal \/ hooks[l] = Prepared]_vars

\* Where the cleanup's listing and cancel get through and no create arrives late,
\* a launch that raised leaves no run at work: one that starts between the two
\* listings is still found (_CANCELABLE_RUN_STATUSES lists "pending" first; issue 358).
NoStrayRun ==
    \A l \in Launches :
        Faults[l] \cap {"late_run", "list", "cancel"} = {} =>
            (pc[l] = "raised" => run[l] \notin Active)

\* ... and where creates and deletes of a thread tell the truth, none is left
\* behind by a run that was seen to end, or by a launch that raised.
NoThreadLeft ==
    \A l \in Launches :
        Faults[l] \cap {"create_thread", "delete"} = {} =>
            (pc[l] \in {"raised", "closed"} => thread[l] # "exists")

\* Every run the server has taken on and the launcher has reported is settled
\* for the caller in the end, unless the process exits.
TrackedRunsEnd ==
    \A l \in Launches :
        hooks[l] = Began ~> (exited \/ hooks[l] # Began)
=============================================================================
