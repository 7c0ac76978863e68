------------------------ MODULE MCCompletionNotices ------------------------
(* Conversations and tasks for TLC. *)
EXTENDS CompletionNotices, TLC

Alike == Permutations(Threads) \cup Permutations(Tasks)
=============================================================================
