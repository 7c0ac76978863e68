---------------------------- MODULE RunLifecycle ----------------------------
(***************************************************************************)
(* What a background run promises to the code that launched it             *)
(* (gateway/background_runs.py, BackgroundRunHooks): a run is dropped, or  *)
(* it is tracked and then ends through exactly one of four hooks, and      *)
(* "finished" is told only of a run the server completed with success.    *)
(* BackgroundRuns shows how launcher and watcher keep the promise;         *)
(* MemoryPipeline is built on it.                                          *)
(***************************************************************************)

CONSTANT Runs                   \* the launches of one client process

VARIABLES
    phase,                      \* phase[r]: what the hooks have said of r
    outcome,                    \* outcome[r]: how the server ended r, if it did
    exited                      \* the client process, with its daemon threads, is gone

lifecycle == <<phase, outcome, exited>>

Failures == {"error", "timeout", "interrupted"}
Outcomes == Failures \cup {"success"}
Endings  == {"finished", "aborted", "status_unknown", "watcher_start_failed"}
Phases   == {"idle", "prepared", "tracked", "dropped"} \cup Endings

LifecycleTypeOK ==
    /\ phase \in [Runs -> Phases]
    /\ outcome \in [Runs -> Outcomes \cup {"none"}]
    /\ exited \in BOOLEAN

Init ==
    /\ phase = [r \in Runs |-> "idle"]
    /\ outcome = [r \in Runs |-> "none"]
    /\ exited = FALSE

-----------------------------------------------------------------------------
\* The client side: a hook is called, or the launch is given up.

Enter(r, from, to) ==
    /\ ~exited
    /\ phase[r] \in from
    /\ phase' = [phase EXCEPT ![r] = to]
    /\ outcome' = outcome /\ exited' = exited

Prepare(r) == Enter(r, {"idle"}, "prepared")            \* on_before_run
Drop(r)    == Enter(r, {"idle", "prepared"}, "dropped") \* None, or an exception
Track(r)   == Enter(r, {"prepared"}, "tracked")         \* on_started

Finish(r) == outcome[r] = "success" /\ Enter(r, {"tracked"}, "finished")
Abort(r)  == outcome[r] \in Failures /\ Enter(r, {"tracked"}, "aborted")

\* The two endings that say nothing of the outcome.
LoseSight(r) == Enter(r, {"tracked"}, "status_unknown")
Unwatched(r) == Enter(r, {"tracked"}, "watcher_start_failed")

End(r) == Finish(r) \/ Abort(r) \/ LoseSight(r) \/ Unwatched(r)

\* The server settles a run once, whether or not anybody still watches it.
Settle(r) ==
    /\ outcome[r] = "none"
    /\ \E o \in Outcomes : outcome' = [outcome EXCEPT ![r] = o]
    /\ phase' = phase /\ exited' = exited

Exit ==
    /\ ~exited
    /\ exited' = TRUE
    /\ UNCHANGED <<phase, outcome>>

Next ==
    \/ \E r \in Runs : Prepare(r) \/ Drop(r) \/ Track(r) \/ End(r) \/ Settle(r)
    \/ Exit

SafeSpec == Init /\ [][Next]_lifecycle

\* A tracked run is not left tracked while the process lives.
Spec == SafeSpec /\ \A r \in Runs : WF_lifecycle(End(r))
=============================================================================
