-------------------------- MODULE MCBackgroundRuns --------------------------
(* Two launches of one client for TLC: for the first every call may fail, for
   the second every call except those its cleanup stands on. *)
EXTENDS BackgroundRuns

CONSTANTS l1, l2

CleanupWorks == Calls \ {"create_thread", "late_run", "list", "cancel", "delete"}
EitherClient == [l \in Launches |-> IF l = l1 THEN Calls ELSE CleanupWorks]
=============================================================================
