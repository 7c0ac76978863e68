------------------------- MODULE ApprovalPolicyProofs -------------------------
(***************************************************************************)
(* What the policy refused does not run, no resume loses a rejection and no  *)
(* dangerous command runs unasked, for any sessions, batches, configurations, *)
(* although granted and suppressed calls drop the decisions of their resumes. *)
(***************************************************************************)
EXTENDS ApprovalPolicy, TLAPS

\* What a session's turn keeps from its pause to the end of the batch.  A resume
\* rejects what the configuration refused and nothing else.
Sound(s) ==
    /\ pc[s] \in {"paused", "prompted", "resuming"} => ran[s] = {}
    /\ pc[s] = "prompted" => rejections[s] = Refused(batch[s], asked[s])
    /\ pc[s] = "resuming" =>
           /\ Len(decisions[s]) = Len(batch[s])
           /\ \A i \in DOMAIN decisions[s] :
                  decisions[s][i] # "approve" => i \in Refused(batch[s], asked[s])
           /\ decider[s] # "grant" =>
                  \A i \in Refused(batch[s], asked[s]) : decisions[s][i] = "reject"
    /\ decisions[s] # <<>> => \A i \in ran[s] : decisions[s][i] = "approve"
    /\ pc[s] \in {"streaming", "idle"} /\ decider[s] # "grant" =>
           ran[s] \cap Refused(batch[s], asked[s]) = {}
    /\ asked[s].dangerous_mode = config.dangerous_mode
    /\ call[s].under.dangerous_mode = config.dangerous_mode

IInv == TypeOK /\ \A s \in Sessions : Sound(s)

\* A verdict is one of three, and a refused request is in the batch.
LEMMA RefusedInBatch == \A b, c : Refused(b, c) \subseteq DOMAIN b
  BY DEF Refused

\* What the policy refuses under auto_approve the sandbox refuses as well, of a
\* call that is suppressed: the two agree on the dangerous set.
LEMMA GuardCovers ==
  ASSUME NEW b, NEW c, NEW d, d.dangerous_mode = c.dangerous_mode, Suppressed(d), NEW i \in Refused(b, c)
  PROVE  i \in Guarded(b, d)
  <1>1. i \in DOMAIN b /\ Verdict(b[i], c) = "reject"
    BY DEF Refused
  <1>2. b[i] = "dangerous" /\ ~c.dangerous_mode
    BY <1>1 DEF Verdict
  <1>3. QED
    BY <1>1, <1>2 DEF Guarded

\* An answer has a decision for each request, and refuses what it is told to.
LEMMA AnswerShape ==
  ASSUME NEW b \in Seq(Requests), NEW no
  PROVE  /\ Answer(b, no) \in Seq({"approve", "reject"})
         /\ Len(Answer(b, no)) = Len(b) /\ DOMAIN Answer(b, no) = DOMAIN b
         /\ \A i \in DOMAIN b : Answer(b, no)[i] = IF i \in no THEN "reject" ELSE "approve"
  <1>1. Len(b) \in Nat /\ DOMAIN b = 1 .. Len(b)
    OBVIOUS
  <1>2. Answer(b, no) \in [1 .. Len(b) -> {"approve", "reject"}]
    BY DEF Answer
  <1>3. Answer(b, no) \in Seq({"approve", "reject"}) /\ Len(Answer(b, no)) = Len(b)
    BY <1>1, <1>2
  <1>4. QED
    BY <1>1, <1>2, <1>3 DEF Answer

\* The grant approves every request of a batch that has any.
LEMMA ApproveAllShape ==
  ASSUME NEW b \in Seq(Requests), b # <<>>
  PROVE  /\ ApproveAll(b) \in Seq({"approve", "reject"})
         /\ Len(ApproveAll(b)) = Len(b)
         /\ \A i \in DOMAIN ApproveAll(b) : ApproveAll(b)[i] = "approve"
  <1>1. Len(b) \in Nat
    OBVIOUS
  <1>2. ApproveAll(b) = [i \in 1 .. Len(b) |-> "approve"]
    BY DEF ApproveAll
  <1>3. ApproveAll(b) \in [1 .. Len(b) -> {"approve", "reject"}]
    BY <1>2
  <1>4. ApproveAll(b) \in Seq({"approve", "reject"}) /\ Len(ApproveAll(b)) = Len(b)
    BY <1>1, <1>3
  <1>5. QED
    BY <1>2, <1>4

LEMMA InitSound == Init => IInv
  <1>1. ASSUME Init PROVE TypeOK
    <2>1. <<>> \in Seq({"approve", "reject"})
      OBVIOUS
    <2>2. QED
      BY <1>1, <2>1 DEF Init, TypeOK
  <1>2. ASSUME Init, NEW s \in Sessions PROVE Sound(s)
    <2>1. call[s].under = config /\ asked[s] = config
      BY <1>2 DEF Init
    <2>2. QED
      BY <1>2, <2>1, RefusedInBatch DEF Init, Sound
  <1>3. QED
    BY <1>1, <1>2 DEF IInv

LEMMA BatchShape == ASSUME TypeOK, NEW s \in Sessions PROVE batch[s] \in Seq(Requests)
  <1>1. <<>> \in Seq(Requests)
    OBVIOUS
  <1>2. QED
    BY <1>1, ApprovalPolicyAssumption DEF TypeOK

\* What a snapshot decides: a decision for each request, all of them approvals
\* if the grant decides, and the configuration's refusals if it does.
LEMMA SnapshotShape ==
  ASSUME TypeOK, NEW s \in Sessions
  PROVE  LET ds == Snapshot(batch[s], s, config)
         IN  /\ ds \in Seq({"approve", "reject"}) /\ Len(ds) = Len(batch[s])
             /\ batch[s] # <<>> /\ s \in granted => \A i \in DOMAIN ds : ds[i] = "approve"
             /\ ~(batch[s] # <<>> /\ s \in granted) =>
                    \A i \in Refused(batch[s], config) : ds[i] = "reject"
             /\ \A i \in DOMAIN ds : ds[i] # "approve" => i \in Refused(batch[s], config)
  <1> DEFINE b == batch[s]
  <1>1. b \in Seq(Requests)
    BY BatchShape
  <1>2. CASE b = <<>>
    <2>1. Snapshot(b, s, config) = <<>>
      BY <1>2 DEF Snapshot
    <2>2. DOMAIN b = {}
      BY <1>2
    <2>3. <<>> \in Seq({"approve", "reject"})
      OBVIOUS
    <2>4. QED
      BY <1>2, <2>1, <2>2, <2>3, RefusedInBatch
  <1>3. CASE b # <<>> /\ s \in granted
    <2>1. Snapshot(b, s, config) = ApproveAll(b)
      BY <1>3 DEF Snapshot
    <2>2. QED
      BY <1>1, <1>3, <2>1, ApproveAllShape
  <1>4. CASE b # <<>> /\ s \notin granted
    <2>1. Snapshot(b, s, config) = Answer(b, Refused(b, config))
      BY <1>4 DEF Snapshot
    <2>2. QED
      BY <1>1, <1>4, <2>1, AnswerShape, RefusedInBatch
  <1>5. QED
    BY <1>2, <1>3, <1>4

\* A call is assembled of the live configuration.
LEMMA AssembleType ==
  ASSUME TypeOK, NEW s \in Sessions, NEW g \in BOOLEAN, Assemble(s, g)
  PROVE  call' \in [Sessions -> [under : Configs, granted : BOOLEAN]]
  <1>1. [under |-> config, granted |-> g] \in [under : Configs, granted : BOOLEAN]
    BY DEF TypeOK
  <1>2. QED
    BY <1>1 DEF Assemble, TypeOK

LEMMA TypeStep == TypeOK /\ [Next]_vars => TypeOK'
  <1> SUFFICES ASSUME TypeOK, [Next]_vars PROVE TypeOK'
    OBVIOUS
  <1> USE DEF TypeOK
  <1>1. CASE Toggle
    BY <1>1 DEF Toggle, about
  <1>2. ASSUME NEW s \in Sessions, BeginTurn(s) \/ EndTurn(s) \/ AnswerQuestion(s) \/ Decline(s) \/ ResumeFails(s) PROVE TypeOK'
    <2>1. UNCHANGED <<config, granted, batch, rejections, decisions, ran, asked, decider>>
      BY <1>2 DEF BeginTurn, EndTurn, AnswerQuestion, Decline, ResumeFails, about
    <2>2. pc' \in [Sessions -> {"idle", "streaming", "paused", "prompted", "resuming"}]
      BY <1>2 DEF BeginTurn, EndTurn, AnswerQuestion, Decline, ResumeFails
    <2>3. (s \in granted) \in BOOLEAN
      OBVIOUS
    <2>4. \E k \in BOOLEAN : carry' = carry \/ carry' = [carry EXCEPT ![s] = k]
      BY <1>2, <2>3 DEF BeginTurn, EndTurn, AnswerQuestion, Decline, ResumeFails
    <2>5. carry' \in [Sessions -> BOOLEAN]
      BY <2>4
    <2>6. call' = call \/ \E g \in BOOLEAN : Assemble(s, g)
      BY <1>2, <2>3 DEF BeginTurn, EndTurn, AnswerQuestion, Decline, ResumeFails
    <2>7. call' \in [Sessions -> [under : Configs, granted : BOOLEAN]]
      BY <2>6, AssembleType
    <2>8. QED
      BY <2>1, <2>2, <2>5, <2>7
  <1>3. ASSUME NEW s \in Sessions, NEW b \in Batches, CallTools(s, b) PROVE TypeOK'
    <2>1. <<>> \in Seq({"approve", "reject"})
      OBVIOUS
    <2>2. b \in Seq(Requests)
      BY ApprovalPolicyAssumption
    <2>3. DOMAIN b \subseteq Nat
      BY <2>2
    <2>4. /\ batch' = [batch EXCEPT ![s] = b] /\ decisions' = [decisions EXCEPT ![s] = <<>>]
          /\ rejections' = [rejections EXCEPT ![s] = {}]
          /\ UNCHANGED <<config, granted, carry, call>>
      BY <1>3 DEF CallTools
    <2>5. /\ pc' = pc \/ pc' = [pc EXCEPT ![s] = "paused"]
          /\ \/ ran' = [ran EXCEPT ![s] = DOMAIN b \ Guarded(b, call[s].under)]
             \/ ran' = [ran EXCEPT ![s] = {}]
          /\ \/ decider' = decider
             \/ decider' = [decider EXCEPT ![s] = "grant"]
             \/ decider' = [decider EXCEPT ![s] = "config"]
          /\ asked' = asked \/ asked' = [asked EXCEPT ![s] = call[s].under]
      BY <1>3 DEF CallTools
    <2>6. pc' \in [Sessions -> {"idle", "streaming", "paused", "prompted", "resuming"}]
      BY <2>5
    <2>7. \E d \in SUBSET Nat : ran' = [ran EXCEPT ![s] = d]
      BY <2>3, <2>5
    <2>8. ran' \in [Sessions -> SUBSET Nat]
      BY <2>7
    <2>9. decider' \in [Sessions -> {"grant", "config", "human"}]
      BY <2>5
    <2>10. /\ batch' \in [Sessions -> Batches \cup {<<>>}]
           /\ decisions' \in [Sessions -> Seq({"approve", "reject"})]
           /\ rejections' \in [Sessions -> SUBSET Nat]
      BY <2>1, <2>4
    <2>11. call[s].under \in Configs
      OBVIOUS
    <2>12. asked' \in [Sessions -> Configs]
      BY <2>5, <2>11
    <2>13. QED
      BY <2>4, <2>6, <2>8, <2>9, <2>10, <2>12
  <1>4. ASSUME NEW s \in Sessions, ResolvePause(s) PROVE TypeOK'
    <2>1. Snapshot(batch[s], s, config) \in Seq({"approve", "reject"})
      BY SnapshotShape
    <2>2. batch[s] \in Seq(Requests)
      BY BatchShape
    <2>3. Refused(batch[s], config) \in SUBSET Nat
      BY <2>2, RefusedInBatch
    <2>4. KeepsGrant(Snapshot(batch[s], s, config)) \in BOOLEAN
      BY DEF KeepsGrant
    <2> DEFINE ds == Snapshot(batch[s], s, config)
    <2> HIDE DEF ds
    <2>5. /\ UNCHANGED <<config, granted, call, batch, ran>> /\ asked' = [asked EXCEPT ![s] = config]
          /\ rejections' = rejections \/ rejections' = [rejections EXCEPT ![s] = Refused(batch[s], config)]
      BY <1>4 DEF ResolvePause, ResumeWith
    <2>6. /\ pc' \in {[pc EXCEPT ![s] = "resuming"], [pc EXCEPT ![s] = "prompted"]}
          /\ decisions' \in {decisions, [decisions EXCEPT ![s] = ds]}
          /\ decider' \in {decider, [decider EXCEPT ![s] = "grant"], [decider EXCEPT ![s] = "config"]}
      BY <1>4 DEF ResolvePause, ResumeWith, ds
    <2>7. \E k \in BOOLEAN : carry' = [carry EXCEPT ![s] = k] \/ carry' = carry
      BY <1>4, <2>4 DEF ResolvePause, ResumeWith
    <2>8. carry' \in [Sessions -> BOOLEAN]
      BY <2>7
    <2>9. pc' \in [Sessions -> {"idle", "streaming", "paused", "prompted", "resuming"}]
      BY <2>6
    <2>10. decisions' \in [Sessions -> Seq({"approve", "reject"})]
      <3>1. ds \in Seq({"approve", "reject"})
        BY <2>1 DEF ds
      <3>2. decisions' = decisions \/ decisions' = [decisions EXCEPT ![s] = ds]
        BY <2>6
      <3>3. QED
        BY <3>1, <3>2
    <2>11. decider' \in [Sessions -> {"grant", "config", "human"}]
      BY <2>6
    <2>12. /\ rejections' \in [Sessions -> SUBSET Nat] /\ asked' \in [Sessions -> Configs]
      <3> DEFINE R == Refused(batch[s], config)
      <3> HIDE DEF R
      <3>1. R \in SUBSET Nat
        BY <2>3 DEF R
      <3>2. /\ rejections' = rejections \/ rejections' = [rejections EXCEPT ![s] = R]
            /\ asked' = [asked EXCEPT ![s] = config]
        BY <2>5 DEF R
      <3>3. rejections' \in [Sessions -> SUBSET Nat]
        BY <3>1, <3>2
      <3>4. asked' \in [Sessions -> Configs]
        BY <3>2
      <3>5. QED
        BY <3>3, <3>4
    <2>13. QED
      BY <2>5, <2>8, <2>9, <2>10, <2>11, <2>12
  <1>5. ASSUME NEW s \in Sessions, NEW all \in BOOLEAN, Approve(s, all) PROVE TypeOK'
    <2>1. batch[s] \in Seq(Requests)
      BY BatchShape
    <2>2. Answer(batch[s], Upheld(s)) \in Seq({"approve", "reject"})
      BY <2>1, AnswerShape
    <2>3. KeepsGrant(Answer(batch[s], Upheld(s))) \in BOOLEAN
      BY DEF KeepsGrant
    <2>4. QED
      BY <1>5, <2>2, <2>3 DEF Approve, ResumeWith
  <1>6. ASSUME NEW s \in Sessions, CarryOut(s) PROVE TypeOK'
    <2>1. batch[s] \in Seq(Requests)
      BY BatchShape
    <2>2. DOMAIN batch[s] \subseteq Nat
      BY <2>1
    <2>3. /\ UNCHANGED <<config, granted, carry, batch, rejections, decisions, asked, decider>>
          /\ pc' = [pc EXCEPT ![s] = "streaming"]
          /\ \E d \in SUBSET DOMAIN batch[s] : ran' = [ran EXCEPT ![s] = d]
      BY <1>6 DEF CarryOut
    <2>4. ran' \in [Sessions -> SUBSET Nat]
      BY <2>2, <2>3
    <2>5. (carry[s] /\ KeepsGrant(decisions[s])) \in BOOLEAN
      BY DEF KeepsGrant
    <2>6. call' \in [Sessions -> [under : Configs, granted : BOOLEAN]]
      BY <1>6, <2>5, AssembleType DEF CarryOut
    <2>7. QED
      BY <2>3, <2>4, <2>6
  <1>7. CASE UNCHANGED vars
    BY <1>7 DEF vars, about
  <1>8. QED
    BY <1>1, <1>2, <1>3, <1>4, <1>5, <1>6, <1>7 DEF Next

LEMMA SoundStep == IInv /\ [Next]_vars => \A t \in Sessions : Sound(t)'
  <1> SUFFICES ASSUME IInv, [Next]_vars, NEW t \in Sessions PROVE Sound(t)'
    OBVIOUS
  <1>i. TypeOK /\ Sound(t)
    BY DEF IInv
  \* A step that leaves a session's turn as it was.
  <1> DEFINE Same == /\ pc'[t] = pc[t] /\ carry'[t] = carry[t] /\ batch'[t] = batch[t]
                     /\ rejections'[t] = rejections[t] /\ decisions'[t] = decisions[t]
                     /\ ran'[t] = ran[t] /\ asked'[t] = asked[t] /\ decider'[t] = decider[t]
                     /\ call'[t] = call[t] /\ config'.dangerous_mode = config.dangerous_mode
  <1>s. Same => Sound(t)'
    BY <1>i DEF Sound, Refused
  <1> HIDE DEF Same
  <1>1. CASE Toggle \/ UNCHANGED vars
    <2>1. Same
      BY <1>1 DEF Toggle, vars, about, Same
    <2>2. QED
      BY <2>1, <1>s
  <1>2. ASSUME NEW s \in Sessions, BeginTurn(s) \/ EndTurn(s) \/ AnswerQuestion(s) \/ Decline(s) \/ ResumeFails(s) PROVE Sound(t)'
    <2>1. CASE s = t
      <3>1. UNCHANGED <<config, batch, rejections, decisions, ran, asked, decider>>
        BY <1>2 DEF BeginTurn, EndTurn, AnswerQuestion, Decline, ResumeFails, about
      <3>2. call'[t].under \in {config, call[t].under}
        BY <1>2, <2>1, <1>i DEF BeginTurn, EndTurn, AnswerQuestion, Decline, ResumeFails, Assemble, TypeOK
      <3>3. /\ pc'[t] \in {"streaming", "idle"}
            /\ pc[t] \in {"streaming", "idle"} \/ ran[t] = {}
        BY <1>2, <2>1, <1>i DEF BeginTurn, EndTurn, AnswerQuestion, Decline, ResumeFails, TypeOK, Sound
      <3>4. call'[t].under.dangerous_mode = config.dangerous_mode
        BY <1>i, <3>2 DEF Sound
      <3>5. QED
        BY <1>i, <3>1, <3>3, <3>4 DEF Sound, Refused
    <2>2. CASE s # t
      <3>1. Same
        BY <1>2, <2>2, <1>i DEF BeginTurn, EndTurn, AnswerQuestion, Decline, ResumeFails, Assemble, about, Same, TypeOK
      <3>2. QED
        BY <3>1, <1>s
    <2>3. QED
      BY <2>1, <2>2
  <1>3. ASSUME NEW s \in Sessions, NEW b \in Batches, CallTools(s, b) PROVE Sound(t)'
    <2>1. CASE s = t
      <3> DEFINE k == call[t]
      <3>1. config' = config /\ call' = call /\ batch'[t] = b /\ decisions'[t] = <<>>
        BY <1>3, <2>1, <1>i DEF CallTools, TypeOK
      <3>2. k.under.dangerous_mode = config.dangerous_mode /\ asked[t].dangerous_mode = config.dangerous_mode
        BY <1>i DEF Sound
      <3>3. CASE Skips(k)
        <4>1. /\ pc'[t] = "streaming" /\ ran'[t] = DOMAIN b \ Guarded(b, k.under)
              /\ decider'[t] = (IF Suppressed(k.under) THEN "config" ELSE "grant")
              /\ asked'[t] = k.under
          BY <1>3, <2>1, <3>3, <1>i DEF CallTools, TypeOK
        <4>2. ASSUME decider'[t] # "grant" PROVE ran'[t] \cap Refused(b, k.under) = {}
          <5>1. Suppressed(k.under)
            BY <4>1, <4>2
          <5>2. \A i \in Refused(b, k.under) : i \in Guarded(b, k.under)
            BY <5>1, GuardCovers
          <5>3. QED
            BY <4>1, <5>2
        <4>3. QED
          BY <3>1, <3>2, <4>1, <4>2 DEF Sound, Refused
      <3>4. CASE ~Skips(k)
        <4>1. pc'[t] = "paused" /\ ran'[t] = {} /\ asked' = asked
          BY <1>3, <2>1, <3>4, <1>i DEF CallTools, TypeOK
        <4>2. QED
          BY <3>1, <3>2, <4>1 DEF Sound
      <3>5. QED
        BY <3>3, <3>4
    <2>2. CASE s # t
      <3>1. Same
        BY <1>3, <2>2, <1>i DEF CallTools, Same, TypeOK
      <3>2. QED
        BY <3>1, <1>s
    <2>3. QED
      BY <2>1, <2>2
  <1>4. ASSUME NEW s \in Sessions, ResolvePause(s) PROVE Sound(t)'
    <2>1. CASE s = t
      <3> DEFINE ds == Snapshot(batch[t], t, config)
                 given == batch[t] # <<>> /\ t \in granted
      <3>1. /\ Len(ds) = Len(batch[t])
            /\ given => \A i \in DOMAIN ds : ds[i] = "approve"
            /\ ~given => \A i \in Refused(batch[t], config) : ds[i] = "reject"
            /\ \A i \in DOMAIN ds : ds[i] # "approve" => i \in Refused(batch[t], config)
        BY <1>i, SnapshotShape
      <3> HIDE DEF ds
      <3>2. /\ batch' = batch /\ asked'[t] = config /\ ran' = ran /\ call' = call
            /\ config' = config /\ ran[t] = {}
            /\ call[t].under.dangerous_mode = config.dangerous_mode
        BY <1>4, <2>1, <1>i DEF ResolvePause, ResumeWith, TypeOK, Sound
      <3>3. CASE batch[t] = <<>> \/ given \/ Clears(batch[t], config)
        <4>1. /\ pc'[t] = "resuming" /\ decisions'[t] = ds
              /\ decider'[t] = (IF given THEN "grant" ELSE "config")
          BY <1>4, <2>1, <1>i, <3>3 DEF ResolvePause, ResumeWith, TypeOK, ds
        <4>2. QED
          BY <3>1, <3>2, <4>1 DEF Sound, Refused
      <3>4. CASE ~(batch[t] = <<>> \/ given \/ Clears(batch[t], config))
        <4>1. pc'[t] = "prompted" /\ rejections'[t] = Refused(batch[t], config)
          BY <1>4, <2>1, <1>i, <3>4 DEF ResolvePause, TypeOK
        <4>2. QED
          BY <3>2, <4>1 DEF Sound, Refused
      <3>5. QED
        BY <3>3, <3>4
    <2>2. CASE s # t
      <3>1. Same
        BY <1>4, <2>2, <1>i DEF ResolvePause, ResumeWith, Same, TypeOK
      <3>2. QED
        BY <3>1, <1>s
    <2>3. QED
      BY <2>1, <2>2
  <1>5. ASSUME NEW s \in Sessions, NEW all \in BOOLEAN, Approve(s, all) PROVE Sound(t)'
    <2>1. CASE s = t
      <3> DEFINE ds == Answer(batch[t], rejections[t])
      <3>1. batch[t] \in Seq(Requests)
        BY <1>i, BatchShape
      <3>2. /\ Len(ds) = Len(batch[t])
            /\ \A i \in DOMAIN batch[t] : ds[i] = IF i \in rejections[t] THEN "reject" ELSE "approve"
        BY <3>1, AnswerShape
      <3> HIDE DEF ds
      <3>3. rejections[t] = Refused(batch[t], asked[t])
        BY <1>5, <2>1, <1>i DEF Approve, Sound
      <3>4. /\ pc'[t] = "resuming" /\ decisions'[t] = ds /\ decider'[t] = "human"
            /\ UNCHANGED <<config, call, batch, asked, ran>>
        BY <1>5, <2>1, <1>i DEF Approve, ResumeWith, Upheld, TypeOK, ds
      <3>5. /\ ran[t] = {} /\ asked[t].dangerous_mode = config.dangerous_mode
            /\ call[t].under.dangerous_mode = config.dangerous_mode
        BY <1>5, <2>1, <1>i DEF Approve, Sound
      <3>6. DOMAIN ds = DOMAIN batch[t]
        BY <3>1, AnswerShape DEF ds
      <3>7. QED
        BY <3>2, <3>3, <3>4, <3>5, <3>6, RefusedInBatch DEF Sound, Refused
    <2>2. CASE s # t
      <3>1. Same
        BY <1>5, <2>2, <1>i DEF Approve, ResumeWith, Same, TypeOK
      <3>2. QED
        BY <3>1, <1>s
    <2>3. QED
      BY <2>1, <2>2
  <1>6. ASSUME NEW s \in Sessions, CarryOut(s) PROVE Sound(t)'
    <2>1. CASE s = t
      <3> DEFINE b == batch[t]
                 ds == decisions[t]
                 R == Refused(b, asked[t])
      <3>1. /\ \A i \in DOMAIN ds : ds[i] # "approve" => i \in R
            /\ decider[t] # "grant" => \A i \in R : ds[i] = "reject"
            /\ asked[t].dangerous_mode = config.dangerous_mode
            /\ Len(ds) = Len(b)
        BY <1>6, <2>1, <1>i DEF CarryOut, Sound
      <3>2. DOMAIN ds = DOMAIN b
        <4>1. b \in Seq(Requests) /\ ds \in Seq({"approve", "reject"})
          BY <1>i, BatchShape DEF TypeOK
        <4>2. QED
          BY <3>1, <4>1
      <3>3. /\ pc'[t] = "streaming" /\ UNCHANGED <<config, decider, batch, decisions, asked>>
            /\ call'[t] = [under |-> config, granted |-> carry[t] /\ KeepsGrant(ds)]
            /\ ran'[t] = (IF Skips(call'[t]) THEN DOMAIN b
                          ELSE {i \in DOMAIN b : i \in DOMAIN ds /\ ds[i] = "approve"}) \ Guarded(b, config)
        BY <1>6, <2>1, <1>i DEF CarryOut, Assemble, TypeOK
      <3>4. ASSUME NEW i \in ran'[t] PROVE ds[i] = "approve"
        <4>1. i \in DOMAIN b /\ i \notin Guarded(b, config)
          BY <3>3, <3>4
        <4>2. CASE Suppressed(config)
          <5>1. i \notin R
            BY <3>1, <4>1, <4>2, GuardCovers
          <5>2. QED
            BY <3>1, <3>2, <4>1, <5>1
        <4>3. CASE ~Suppressed(config) /\ Skips(call'[t])
          <5>1. call'[t].under = config /\ call'[t].granted = (carry[t] /\ KeepsGrant(ds))
            BY <3>3
          <5>2. KeepsGrant(ds)
            BY <4>3, <5>1 DEF Skips
          <5>3. QED
            BY <3>2, <4>1, <5>2 DEF KeepsGrant
        <4>4. CASE ~Skips(call'[t])
          BY <3>3, <3>4, <4>4
        <4>5. QED
          BY <4>2, <4>3, <4>4
      <3>5. decider[t] # "grant" => ran'[t] \cap R = {}
        BY <3>1, <3>4
      <3> HIDE DEF b, ds, R
      <3>6. ran'[t] \cap Refused(batch[t], asked[t]) = {} \/ decider[t] = "grant"
        BY <3>5 DEF b, R
      <3>7. \A i \in ran'[t] : decisions[t][i] = "approve"
        BY <3>4 DEF ds
      <3>8. call'[t].under = config /\ asked[t].dangerous_mode = config.dangerous_mode
        BY <3>1, <3>3
      <3>9. QED
        BY <3>3, <3>6, <3>7, <3>8 DEF Sound, Refused
    <2>2. CASE s # t
      <3>1. Same
        BY <1>6, <2>2, <1>i DEF CarryOut, Assemble, Same, TypeOK
      <3>2. QED
        BY <3>1, <1>s
    <2>3. QED
      BY <2>1, <2>2
  <1>7. QED
    BY <1>1, <1>2, <1>3, <1>4, <1>5, <1>6 DEF Next

LEMMA Inductive == Spec => []IInv
  <1>1. IInv /\ [Next]_vars => IInv'
    BY TypeStep, SoundStep DEF IInv
  <1>2. QED
    BY InitSound, <1>1, PTL DEF Spec

\* The policy's state is well-formed (ApprovalPolicy, InboundConsumer's turns).
THEOREM TypeCorrect == Spec => []TypeOK
  <1>1. IInv => TypeOK
    BY DEF IInv
  <1>2. QED
    BY Inductive, <1>1, PTL

\* Every resume has one decision for each request (decision_snapshot).
THEOREM CountsAlwaysMatch == Spec => []CountsMatch
  <1>1. IInv => CountsMatch
    BY DEF IInv, Sound, CountsMatch
  <1>2. QED
    BY Inductive, <1>1, PTL

\* What the configuration refused at the time of the prompt, or of a call under
\* auto_approve, does not run, whatever a person answers, however the
\* configuration changes meanwhile and whether or not the resume skips its pause
\* (decisions_after_human_approval, _effective_guard_dangerous).
THEOREM RefusalsStand == Spec => []RefusedNeverRuns
  <1>1. IInv => RefusedNeverRuns
    BY DEF IInv, Sound, RefusedNeverRuns
  <1>2. QED
    BY Inductive, <1>1, PTL

\* What a resume runs was approved in it, although the graph drops the decisions
\* of a granted or suppressed one: a grant travels with approvals only, and what
\* is rejected is what the sandbox refuses (_hitl_when, resume_declines).
THEOREM DecisionsAlwaysHold == Spec => []DecisionsHold
  <1>1. IInv => DecisionsHold
    BY DEF IInv, Sound, DecisionsHold
  <1>2. QED
    BY Inductive, <1>1, PTL

-----------------------------------------------------------------------------
\* Who answers for a dangerous command: a grant on its way was given, nothing of
\* a batch has run before its resume, and what the configuration lets through
\* was let through in dangerous mode.
Approved(s, i) ==
    batch[s][i] = "dangerous" =>
        \/ decider[s] = "human"
        \/ decider[s] = "grant" /\ s \in granted
        \/ decider[s] = "config" /\ asked[s].dangerous_mode

Danger(s) ==
    /\ carry[s] \/ call[s].granted => s \in granted
    /\ pc[s] \in {"paused", "prompted", "resuming"} => ran[s] = {}
    /\ pc[s] = "resuming" =>
           /\ decider[s] = "grant" => s \in granted
           /\ \A i \in DOMAIN batch[s] : decisions[s][i] = "approve" => Approved(s, i)
    /\ \A i \in ran[s] : Approved(s, i)

Watched == \A s \in Sessions : Danger(s)

\* Nor does the sandbox, of a suppressed call, unless in dangerous mode.
LEMMA UnguardedDanger ==
  ASSUME NEW b, NEW c, Suppressed(c), NEW i \in DOMAIN b, b[i] = "dangerous", i \notin Guarded(b, c)
  PROVE  c.dangerous_mode
  BY DEF Guarded

\* The configuration alone never lets a dangerous command through.
LEMMA ClearedDanger ==
  ASSUME NEW b, NEW c, Clears(b, c), NEW i \in DOMAIN b, b[i] = "dangerous", i \notin Refused(b, c)
  PROVE  c.dangerous_mode
  <1>1. Verdict("dangerous", c) # "prompt" /\ Verdict("dangerous", c) # "reject" /\ c.loads
    BY DEF Clears, Refused
  <1>2. QED
    BY <1>1 DEF Verdict

LEMMA DangerStep == IInv /\ Watched /\ [Next]_vars => Watched'
  <1> SUFFICES ASSUME IInv, [Next]_vars, NEW t \in Sessions, Danger(t) PROVE Danger(t)'
    BY DEF Watched
  <1>i. TypeOK /\ Sound(t)
    BY DEF IInv
  <1> DEFINE Same == /\ pc'[t] = pc[t] /\ carry'[t] = carry[t] /\ batch'[t] = batch[t]
                     /\ decisions'[t] = decisions[t] /\ ran'[t] = ran[t]
                     /\ asked'[t] = asked[t] /\ decider'[t] = decider[t] /\ granted \subseteq granted'
                     /\ call'[t] = call[t]
  <1>s. Same => Danger(t)'
    BY DEF Danger, Approved
  <1> HIDE DEF Same
  <1>1. CASE Toggle \/ UNCHANGED vars
    <2>1. Same
      BY <1>1 DEF Toggle, vars, about, Same
    <2>2. QED
      BY <2>1, <1>s
  <1>2. ASSUME NEW s \in Sessions, BeginTurn(s) \/ EndTurn(s) \/ AnswerQuestion(s) \/ Decline(s) \/ ResumeFails(s) PROVE Danger(t)'
    <2>1. CASE s = t
      <3>1. UNCHANGED <<granted, batch, decisions, ran, asked, decider>>
        BY <1>2 DEF BeginTurn, EndTurn, AnswerQuestion, Decline, ResumeFails, about
      <3>2. pc'[t] \in {"idle", "streaming"} \/ pc'[t] = pc[t]
        BY <1>2, <2>1, <1>i DEF BeginTurn, EndTurn, AnswerQuestion, Decline, ResumeFails, TypeOK
      <3>3. carry'[t] \/ call'[t].granted => t \in granted
        BY <1>2, <2>1, <1>i DEF BeginTurn, EndTurn, AnswerQuestion, Decline, ResumeFails, Assemble, TypeOK, Danger
      <3>4. QED
        BY <3>1, <3>2, <3>3 DEF Danger, Approved
    <2>2. CASE s # t
      <3>1. Same
        BY <1>2, <2>2, <1>i DEF BeginTurn, EndTurn, AnswerQuestion, Decline, ResumeFails, Assemble, about, Same, TypeOK
      <3>2. QED
        BY <3>1, <1>s
    <2>3. QED
      BY <2>1, <2>2
  <1>3. ASSUME NEW s \in Sessions, NEW b \in Batches, CallTools(s, b) PROVE Danger(t)'
    <2>1. CASE s = t
      <3> DEFINE k == call[t]
      <3>1. UNCHANGED <<granted, carry, call>> /\ batch'[t] = b
        BY <1>3, <2>1, <1>i DEF CallTools, TypeOK
      <3>2. CASE Skips(k)
        <4>1. /\ pc'[t] = "streaming" /\ ran'[t] = DOMAIN b \ Guarded(b, k.under)
              /\ decider'[t] = (IF Suppressed(k.under) THEN "config" ELSE "grant")
              /\ asked'[t] = k.under
          BY <1>3, <2>1, <3>2, <1>i DEF CallTools, TypeOK
        <4>2. CASE Suppressed(k.under)
          <5>1. ASSUME NEW i \in ran'[t], b[i] = "dangerous" PROVE asked'[t].dangerous_mode
            BY <4>1, <4>2, <5>1, UnguardedDanger
          <5>2. QED
            BY <3>1, <4>1, <4>2, <5>1 DEF Danger, Approved
        <4>3. CASE ~Suppressed(k.under)
          <5>1. t \in granted' /\ decider'[t] = "grant"
            BY <3>1, <3>2, <4>1, <4>3 DEF Danger, Skips
          <5>2. QED
            BY <3>1, <4>1, <5>1 DEF Danger, Approved
        <4>4. QED
          BY <4>2, <4>3
      <3>3. CASE ~Skips(k)
        <4>1. ran'[t] = {} /\ pc'[t] = "paused"
          BY <1>3, <2>1, <3>3, <1>i DEF CallTools, TypeOK
        <4>2. QED
          BY <3>1, <4>1 DEF Danger
      <3>4. QED
        BY <3>2, <3>3
    <2>2. CASE s # t
      <3>1. Same
        BY <1>3, <2>2, <1>i DEF CallTools, Same, TypeOK
      <3>2. QED
        BY <3>1, <1>s
    <2>3. QED
      BY <2>1, <2>2
  <1>4. ASSUME NEW s \in Sessions, ResolvePause(s) PROVE Danger(t)'
    <2>1. CASE s = t
      <3> DEFINE ds == Snapshot(batch[t], t, config)
                 given == batch[t] # <<>> /\ t \in granted
      <3>1. ~given => \A i \in Refused(batch[t], config) : ds[i] = "reject"
        BY <1>i, SnapshotShape
      <3> HIDE DEF ds
      <3>2. /\ batch' = batch /\ asked'[t] = config /\ ran' = ran /\ granted' = granted
            /\ call' = call /\ ran[t] = {}
        BY <1>4, <2>1, <1>i DEF ResolvePause, ResumeWith, TypeOK, Sound
      <3>3. CASE batch[t] = <<>> \/ given \/ Clears(batch[t], config)
        <4>1. /\ pc'[t] = "resuming" /\ decisions'[t] = ds
              /\ decider'[t] = (IF given THEN "grant" ELSE "config")
              /\ carry'[t] = (decider'[t] = "grant" /\ KeepsGrant(ds))
          BY <1>4, <2>1, <1>i, <3>3 DEF ResolvePause, ResumeWith, TypeOK, ds
        <4>2. carry'[t] => t \in granted'
          BY <3>2, <4>1
        <4>3. ASSUME NEW i \in DOMAIN batch[t], ds[i] = "approve", batch[t][i] = "dangerous", ~given
              PROVE  config.dangerous_mode
          <5>1. batch[t] # <<>>
            BY <4>3
          <5>2. Clears(batch[t], config)
            BY <3>3, <4>3, <5>1
          <5>3. i \notin Refused(batch[t], config)
            BY <3>1, <4>3
          <5>4. QED
            BY <4>3, <5>2, <5>3, ClearedDanger
        <4>4. QED
          BY <3>2, <4>1, <4>2, <4>3 DEF Danger, Approved
      <3>4. CASE ~(batch[t] = <<>> \/ given \/ Clears(batch[t], config))
        <4>1. pc'[t] = "prompted" /\ carry' = carry
          BY <1>4, <2>1, <1>i, <3>4 DEF ResolvePause, TypeOK
        <4>2. QED
          BY <3>2, <4>1 DEF Danger
      <3>5. QED
        BY <3>3, <3>4
    <2>2. CASE s # t
      <3>1. Same
        BY <1>4, <2>2, <1>i DEF ResolvePause, ResumeWith, Same, TypeOK
      <3>2. QED
        BY <3>1, <1>s
    <2>3. QED
      BY <2>1, <2>2
  <1>5. ASSUME NEW s \in Sessions, NEW all \in BOOLEAN, Approve(s, all) PROVE Danger(t)'
    <2>1. CASE s = t
      <3>1. /\ decider'[t] = "human" /\ ~carry'[t] /\ ran'[t] = {}
            /\ call' = call /\ granted \subseteq granted'
        BY <1>5, <2>1, <1>i DEF Approve, ResumeWith, TypeOK, Sound
      <3>2. QED
        BY <3>1 DEF Danger, Approved
    <2>2. CASE s # t
      <3>1. Same
        BY <1>5, <2>2, <1>i DEF Approve, ResumeWith, Same, TypeOK
      <3>2. QED
        BY <3>1, <1>s
    <2>3. QED
      BY <2>1, <2>2
  <1>6. ASSUME NEW s \in Sessions, CarryOut(s) PROVE Danger(t)'
    <2>1. CASE s = t
      <3> DEFINE b == batch[t]
                 ds == decisions[t]
      <3>1. /\ UNCHANGED <<granted, carry, batch, decisions, asked, decider>> /\ pc'[t] = "streaming"
            /\ call'[t] = [under |-> config, granted |-> carry[t] /\ KeepsGrant(ds)]
            /\ ran'[t] = (IF Skips(call'[t]) THEN DOMAIN b
                          ELSE {i \in DOMAIN b : i \in DOMAIN ds /\ ds[i] = "approve"}) \ Guarded(b, config)
        BY <1>6, <2>1, <1>i DEF CarryOut, Assemble, TypeOK
      <3>2. /\ decider[t] = "grant" => t \in granted
            /\ \A i \in DOMAIN b : ds[i] = "approve" => Approved(t, i)
            /\ asked[t].dangerous_mode = config.dangerous_mode
            /\ Len(ds) = Len(b)
        BY <1>6, <2>1, <1>i DEF CarryOut, Danger, Sound
      <3>3. DOMAIN ds = DOMAIN b
        <4>1. b \in Seq(Requests) /\ ds \in Seq({"approve", "reject"})
          BY <1>i, BatchShape DEF TypeOK
        <4>2. QED
          BY <3>2, <4>1
      <3>4. call'[t].under = config /\ call'[t].granted = (carry[t] /\ KeepsGrant(ds))
        BY <3>1
      <3>5. ASSUME NEW i \in ran'[t] PROVE Approved(t, i)
        <4>1. i \in DOMAIN b /\ i \notin Guarded(b, config)
          BY <3>1, <3>5
        <4>2. CASE Suppressed(config)
          <5>1. b[i] = "dangerous" => asked[t].dangerous_mode
            BY <3>2, <4>1, <4>2, UnguardedDanger
          <5>2. decider[t] \in {"grant", "config", "human"}
            BY <1>i DEF TypeOK
          <5>3. QED
            BY <3>2, <5>1, <5>2 DEF Approved
        <4>3. CASE ~Suppressed(config) /\ Skips(call'[t])
          <5>1. KeepsGrant(ds)
            BY <3>4, <4>3 DEF Skips
          <5>2. QED
            BY <3>2, <3>3, <4>1, <5>1 DEF KeepsGrant
        <4>4. CASE ~Skips(call'[t])
          BY <3>1, <3>2, <3>5, <4>4
        <4>5. QED
          BY <4>2, <4>3, <4>4
      <3>6. carry[t] => t \in granted
        BY DEF Danger
      <3> HIDE DEF b, ds
      <3>7. QED
        BY <3>1, <3>4, <3>5, <3>6 DEF Danger, Approved
    <2>2. CASE s # t
      <3>1. Same
        BY <1>6, <2>2, <1>i DEF CarryOut, Assemble, Same, TypeOK
      <3>2. QED
        BY <3>1, <1>s
    <2>3. QED
      BY <2>1, <2>2
  <1>7. QED
    BY <1>1, <1>2, <1>3, <1>4, <1>5, <1>6 DEF Next

\* A dangerous command runs because a person said so, to this batch or to all
\* of this chat, or in dangerous mode: an auto_approve that comes and goes between
\* pause, answer and resume lets none through (_hitl_when, decision_snapshot,
\* _effective_guard_dangerous).
THEOREM DangerAlwaysApproved == Spec => []DangerIsApproved
  <1>1. ASSUME Init PROVE Watched
    <2>1. \A s \in Sessions : ~carry[s] /\ ~call[s].granted /\ ran[s] = {} /\ pc[s] = "idle"
      BY <1>1 DEF Init
    <2>2. QED
      BY <2>1 DEF Watched, Danger
  <1>2. Watched => DangerIsApproved
    BY DEF Watched, Danger, Approved, DangerIsApproved
  <1>3. QED
    BY Inductive, DangerStep, <1>1, <1>2, PTL DEF Spec
=============================================================================
