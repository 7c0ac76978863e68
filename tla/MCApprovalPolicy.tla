--------------------------- MODULE MCApprovalPolicy ---------------------------
(* An instance of ApprovalPolicy for TLC. *)
EXTENDS ApprovalPolicy, TLC

\* Every request alone, and the batches that mix what the configuration refuses
\* with what it cannot decide.
MixedBatches ==
    {<<>>, <<"dangerous", "delete">>, <<"nameless", "dangerous">>, <<"listed", "plain">>}
    \cup {<<r>> : r \in Requests}

\* Prompts for shell commands, auto_approve, dangerous_mode, a file that is broken.
FourConfigs ==
    {[auto_approve |-> FALSE, dangerous_mode |-> FALSE, allow_list |-> TRUE, loads |-> TRUE],
     [auto_approve |-> TRUE, dangerous_mode |-> FALSE, allow_list |-> FALSE, loads |-> TRUE],
     [auto_approve |-> TRUE, dangerous_mode |-> TRUE, allow_list |-> FALSE, loads |-> TRUE],
     [auto_approve |-> FALSE, dangerous_mode |-> FALSE, allow_list |-> FALSE, loads |-> FALSE]}

AnySession == Permutations(Sessions)
=============================================================================
