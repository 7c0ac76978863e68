---------------------------- MODULE ApprovalPolicy ----------------------------
(***************************************************************************)
(* Who decides about an agent's tool calls: the configuration, the person   *)
(* in the chat, or the chat's "approve all" (channels/interaction.py), and   *)
(* what the graph does with the decision (EvoScientist.py, backends.py).     *)
(* A call to the graph skips its pauses, and drops the decisions of a resume, *)
(* if it carries the chat's grant or was assembled under auto_approve; in the *)
(* second case the sandbox refuses dangerous commands as they are run.  The   *)
(* configuration may change between any two calls and while a person decides. *)
(* auto_mode, which implies auto_approve, is not told from it.                *)
(* InboundConsumer has the prompts, timeouts and budgets.                    *)
(***************************************************************************)
EXTENDS Naturals, Sequences

CONSTANTS
    Sessions,           \* session_key
    Batches,            \* the action requests of one pause
    Configs             \* what _ensure_config may return

\* A shell command is listed by shell_allow_list, dangerous, or neither; "delete"
\* stands for HITL_ALWAYS_PROMPT_TOOLS and for a shell request without a command.
Requests == {"listed", "plain", "dangerous", "delete", "other", "nameless"}
Settings == [auto_approve : BOOLEAN, dangerous_mode : BOOLEAN, allow_list : BOOLEAN, loads : BOOLEAN]

ASSUME ApprovalPolicyAssumption ==
    /\ Batches \subseteq Seq(Requests) /\ Configs \subseteq Settings
    /\ \A c \in Configs : c.dangerous_mode => c.auto_approve

VARIABLES
    config,
    granted,            \* _granted_sessions
    pc,                 \* where the session's turn is
    carry,              \* approve_all_carry
    call,               \* the call to the graph: the configuration it was
                        \* assembled under, and whether it took the grant along
    batch,              \* the action requests it paused at
    rejections,         \* policy_rejections, their indexes
    decisions,          \* of the resume on its way
    ran,                \* the requests of the batch that were carried out
    asked,              \* the configuration that was asked about the batch
    decider             \* "grant", "config" or "human"

about == <<batch, rejections, decisions, ran, asked, decider>>
vars == <<config, granted, pc, carry, call, about>>

TypeOK ==
    /\ config \in Configs /\ granted \subseteq Sessions
    /\ pc \in [Sessions -> {"idle", "streaming", "paused", "prompted", "resuming"}]
    /\ carry \in [Sessions -> BOOLEAN]
    /\ call \in [Sessions -> [under : Configs, granted : BOOLEAN]]
    /\ batch \in [Sessions -> Batches \cup {<<>>}]
    /\ rejections \in [Sessions -> SUBSET Nat]
    /\ decisions \in [Sessions -> Seq({"approve", "reject"})]
    /\ ran \in [Sessions -> SUBSET Nat]
    /\ asked \in [Sessions -> Configs]
    /\ decider \in [Sessions -> {"grant", "config", "human"}]

Init ==
    /\ config \in Configs /\ granted = {}
    /\ pc = [s \in Sessions |-> "idle"]
    /\ carry = [s \in Sessions |-> FALSE]
    /\ call = [s \in Sessions |-> [under |-> config, granted |-> FALSE]]
    /\ batch = [s \in Sessions |-> <<>>]
    /\ rejections = [s \in Sessions |-> {}]
    /\ decisions = [s \in Sessions |-> <<>>]
    /\ ran = [s \in Sessions |-> {}]
    /\ asked = [s \in Sessions |-> config]
    /\ decider = [s \in Sessions |-> "config"]

-----------------------------------------------------------------------------
\* _resolve_one_action_request, resolve_action_decision.  A configuration that
\* does not load decides nothing.
Verdict_AutoAll(r, c) == IF c.loads /\ (c.auto_approve \/ c.dangerous_mode) THEN "approve" ELSE "prompt"
Verdict(r, c) ==
    IF ~c.loads \/ r = "nameless" THEN "prompt"
    ELSE IF c.dangerous_mode \/ r = "other" THEN "approve"
    ELSE IF r = "delete" THEN "prompt"
    ELSE IF c.auto_approve THEN (IF r = "dangerous" THEN "reject" ELSE "approve")
    ELSE IF r = "listed" /\ c.allow_list THEN "approve" ELSE "prompt"

\* config_policy_snapshot, of one configuration.
Refused(b, c) == {i \in DOMAIN b : Verdict(b[i], c) = "reject"}
Clears(b, c) == c.loads /\ \A i \in DOMAIN b : Verdict(b[i], c) # "prompt"

Answer(b, no) == [i \in 1 .. Len(b) |-> IF i \in no THEN "reject" ELSE "approve"]

\* approve_decisions, with its floor of one.
ApproveAll(b) == [i \in 1 .. (IF b = <<>> THEN 1 ELSE Len(b)) |-> "approve"]

\* _keeps_grant: an answer that approves every request, of one at least.
KeepsGrant(ds) == ds # <<>> /\ \A i \in DOMAIN ds : ds[i] = "approve"

\* hitl_suppressed_for_run, of the configuration live when the call is assembled.
Suppressed(c) == c.auto_approve

\* _hitl_when: the pauses of this call are skipped.
Skips(k) == Suppressed(k.under) \/ k.granted

\* _effective_guard_dangerous and prepare_sandbox_command: what the sandbox
\* refuses of a suppressed call.
Guarded_Floor(b, c) == {}
Guarded(b, c) == {i \in DOMAIN b : b[i] = "dangerous" /\ Suppressed(c) /\ ~c.dangerous_mode}

\* stream_agent_events assembles a call from the live configuration; one that
\* does not load raises, and the turn ends with an error message.
Assemble(s, grant) ==
    /\ config.loads
    /\ call' = [call EXCEPT ![s] = [under |-> config, granted |-> grant]]

-----------------------------------------------------------------------------
\* The configuration changes in place.  dangerous_mode is bound when the agent
\* is built and stays.
Toggle ==
    /\ config' \in Configs \ {config}
    /\ config'.dangerous_mode = config.dangerous_mode
    /\ UNCHANGED <<granted, pc, carry, call, about>>

BeginTurn(s) ==
    /\ pc[s] = "idle"
    /\ pc' = [pc EXCEPT ![s] = "streaming"]
    /\ carry' = [carry EXCEPT ![s] = s \in granted]
    /\ Assemble(s, s \in granted)
    /\ UNCHANGED <<config, granted, about>>

EndTurn(s) ==
    /\ pc[s] = "streaming"
    /\ pc' = [pc EXCEPT ![s] = "idle"]
    /\ UNCHANGED <<config, granted, carry, call, about>>

\* The model calls tools.  A call that skips its pauses runs what the sandbox
\* lets it; any other pauses.
CallTools(s, b) ==
    /\ pc[s] = "streaming"
    /\ batch' = [batch EXCEPT ![s] = b]
    /\ decisions' = [decisions EXCEPT ![s] = <<>>]
    /\ rejections' = [rejections EXCEPT ![s] = {}]
    /\ IF Skips(call[s])
       THEN /\ ran' = [ran EXCEPT ![s] = DOMAIN b \ Guarded(b, call[s].under)]
            /\ decider' = [decider EXCEPT ![s] = IF Suppressed(call[s].under) THEN "config" ELSE "grant"]
            /\ asked' = [asked EXCEPT ![s] = call[s].under]
            /\ UNCHANGED pc
       ELSE /\ pc' = [pc EXCEPT ![s] = "paused"]
            /\ ran' = [ran EXCEPT ![s] = {}]
            /\ UNCHANGED <<decider, asked>>
    /\ UNCHANGED <<config, granted, carry, call>>

\* A question of ask_user is answered, or not.
AnswerQuestion(s) ==
    /\ pc[s] = "streaming"
    /\ carry' = [carry EXCEPT ![s] = s \in granted]
    /\ Assemble(s, s \in granted)
    /\ UNCHANGED <<config, granted, pc, about>>

\* answer_keeps_grant: only what the grant itself produced carries it.
ResumeWith(s, ds, by) ==
    /\ pc' = [pc EXCEPT ![s] = "resuming"]
    /\ decisions' = [decisions EXCEPT ![s] = ds]
    /\ decider' = [decider EXCEPT ![s] = by]
    /\ carry' = [carry EXCEPT ![s] = by = "grant" /\ KeepsGrant(ds)]
    /\ UNCHANGED call

\* decision_snapshot.
Snapshot_GrantFirst(b, s, c) ==
    IF s \in granted THEN ApproveAll(b) ELSE Answer(b, Refused(b, c))
Snapshot(b, s, c) ==
    IF b = <<>> THEN <<>>
    ELSE IF s \in granted THEN ApproveAll(b) ELSE Answer(b, Refused(b, c))

ResolvePause(s) ==
    LET b == batch[s]
        given == b # <<>> /\ s \in granted
    IN  /\ pc[s] = "paused"
        /\ UNCHANGED <<config, granted, batch, ran>>
        /\ asked' = [asked EXCEPT ![s] = config]
        /\ IF b = <<>> \/ given \/ Clears(b, config)
           THEN /\ ResumeWith(s, Snapshot(b, s, config), IF given THEN "grant" ELSE "config")
                /\ UNCHANGED rejections
           ELSE /\ pc' = [pc EXCEPT ![s] = "prompted"]
                /\ rejections' = [rejections EXCEPT ![s] = Refused(b, config)]
                /\ UNCHANGED <<decisions, decider, carry, call>>

\* decisions_after_human_approval: the refusals of the time of the prompt stay.
Upheld_Now(s) == Refused(batch[s], config)
Upheld(s) == rejections[s]

Approve(s, all) ==
    /\ pc[s] = "prompted"
    /\ granted' = IF all THEN granted \cup {s} ELSE granted
    /\ ResumeWith(s, Answer(batch[s], Upheld(s)), "human")
    /\ UNCHANGED <<config, batch, rejections, ran, asked>>

\* No, /stop, another message or none: the pause is closed, nothing runs.
Decline(s) ==
    /\ pc[s] = "prompted"
    /\ pc' = [pc EXCEPT ![s] = "idle"]
    /\ UNCHANGED <<config, granted, carry, call, about>>

\* The graph takes up the resume, a call of its own: resume_declines has the
\* last word on the grant, and _hitl_when is evaluated again.
CarryOut(s) ==
    LET b == batch[s]
        Approved == {i \in DOMAIN b : i \in DOMAIN decisions[s] /\ decisions[s][i] = "approve"}
    IN  /\ pc[s] = "resuming"
        /\ Assemble(s, carry[s] /\ KeepsGrant(decisions[s]))
        /\ ran' = [ran EXCEPT ![s] =
                      (IF Skips(call'[s]) THEN DOMAIN b ELSE Approved) \ Guarded(b, config)]
        /\ pc' = [pc EXCEPT ![s] = "streaming"]
        /\ UNCHANGED <<config, granted, carry, batch, rejections, decisions, asked, decider>>

\* A resume that cannot be assembled ends its turn.
ResumeFails(s) ==
    /\ pc[s] = "resuming" /\ ~config.loads
    /\ pc' = [pc EXCEPT ![s] = "idle"]
    /\ UNCHANGED <<config, granted, carry, call, about>>

Next ==
    \/ Toggle
    \/ \E s \in Sessions :
           \/ BeginTurn(s) \/ EndTurn(s) \/ AnswerQuestion(s)
           \/ \E b \in Batches : CallTools(s, b)
           \/ ResolvePause(s) \/ Decline(s) \/ CarryOut(s) \/ ResumeFails(s)
           \/ \E all \in BOOLEAN : Approve(s, all)

Spec == Init /\ [][Next]_vars

-----------------------------------------------------------------------------
\* HumanInTheLoopMiddleware wants one decision for each request: every resume
\* has them, the grant's and the empty one included (decision_snapshot).
CountsMatch == \A s \in Sessions : pc[s] = "resuming" => Len(decisions[s]) = Len(batch[s])

\* "An interactive approval must not override the config policy's REJECTs", and
\* no toggle while the person decides does: what the configuration refused when
\* it was asked does not run, unless the chat's grant was in force by then.
RefusedNeverRuns ==
    \A s \in Sessions :
        decider[s] # "grant" /\ pc[s] \in {"streaming", "idle"} => ran[s] \cap Refused(batch[s], asked[s]) = {}

\* A resume never loses a rejection: what it runs was approved in it, item by
\* item, although a granted or suppressed call drops all of its decisions.
DecisionsHold ==
    \A s \in Sessions :
        decisions[s] # <<>> => \A i \in ran[s] : decisions[s][i] = "approve"

\* A dangerous command runs because a person said so, to this batch or to all of
\* this chat, or in dangerous_mode: never because auto_approve was on, or came
\* or went, at the pause, at the answer or at the resume.
DangerIsApproved ==
    \A s \in Sessions : \A i \in ran[s] :
        batch[s][i] = "dangerous" =>
            \/ decider[s] = "human"
            \/ decider[s] = "grant" /\ s \in granted
            \/ decider[s] = "config" /\ asked[s].dangerous_mode
=============================================================================
