------------------------- MODULE MemoryPipelineProofs -------------------------
(***************************************************************************)
(* Observations are credited once and none is lost on its way to a linker,   *)
(* for any number of turns, projects and observations.  The second half adds *)
(* the delivery: what a worker wrote is not overlooked, reaches one linker   *)
(* at most, and is not left in the queue when all threads have come to rest. *)
(***************************************************************************)
EXTENDS MemoryPipeline, FiniteSetTheorems, TLAPS

-----------------------------------------------------------------------------
\* Types, with the total left unbounded: its bound needs RecordedBounded.
RunTypes ==
    /\ phase \in [Turns -> Run!Phases]
    /\ outcome \in [Turns -> Run!Outcomes \cup {"none"}]
    /\ submitted \subseteq Turns
    /\ pc \in [Turns -> Steps]
FileTypes ==
    /\ disk \subseteq Observations /\ direct \subseteq disk
    /\ author \in [Observations -> Turns \cup {None}]
    /\ unqueued \in [Turns -> SUBSET Observations]
ActivityTypes ==
    /\ active \subseteq Turns
    /\ before \in [Turns -> SUBSET Observations]
    /\ delta \in [Turns -> SUBSET Observations]
    /\ \A t \in Turns : delta[t] \subseteq disk
    /\ counted \subseteq disk
    /\ recorded \in Nat
SchedulerTypes ==
    /\ pending \in [Projects -> SUBSET Observations]
    /\ lock \in Turns \cup {None}
    /\ todo \subseteq Projects
    /\ batches \in [Turns -> [Projects -> SUBSET Observations]]
    /\ launches \in Nat
    /\ offered \subseteq Offers

Typed == RunTypes /\ FileTypes /\ ActivityTypes /\ SchedulerTypes

\* What a hook has counted is counted for good.
CreditedCounted ==
    \A t \in Turns : pc[t] \notin {"popped", "snapshotted"} => delta[t] \subseteq counted

\* The scheduler's lock is held throughout a drain, and a turn has batches only
\* from the keys its drain has looked at until their linkers are launched.
DrainsLocked == \A t \in Turns : pc[t] = "draining" => lock = t
BatchesFresh ==
    \A t \in Turns :
        /\ pc[t] \notin {"draining", "linking", "in_launch"} => \A p \in Projects : batches[t][p] = {}
        /\ pc[t] = "draining" => \A p \in todo : batches[t][p] = {}

\* Where an observation on its way to a linker may be, the agent's callback
\* included.
OnItsWay(o) ==
    \/ \E t \in Turns : o \in unqueued[t]
    \/ \E t \in Turns : pc[t] = "record" /\ o \in delta[t]
    \/ \E p \in Projects : o \in pending[p]
    \/ \E t \in Turns, p \in Projects : o \in batches[t][p]
    \/ \E f \in offered : o \in f.ids
NoneStray == \A o \in counted \cup direct : OnItsWay(o)

IInv ==
    /\ Typed
    /\ CreditedCounted /\ CreditedOnce /\ RecordedBounded
    /\ DrainsLocked /\ BatchesFresh /\ NoneStray

-----------------------------------------------------------------------------
\* Types.

\* Steps of a turn's thread or hook, and what else happens.
TurnMove(t) == AgentStep(t) \/ HookStep(t) \/ DrainStep(t)

LEMMA InitTyped == Init => Typed
  <1> SUFFICES ASSUME Init PROVE Typed
    OBVIOUS
  <1>1. RunTypes
    BY DEF Init, Run!Init, RunTypes, Run!Phases, Run!Endings, Run!Outcomes, Steps
  <1>2. FileTypes /\ ActivityTypes
    BY DEF Init, FileTypes, ActivityTypes
  <1>3. SchedulerTypes
    BY DEF Init, SchedulerTypes, Nothing
  <1>4. QED
    BY <1>1, <1>2, <1>3 DEF Typed

LEMMA RunTypesStep == Typed /\ [Next]_vars => RunTypes'
  <1> SUFFICES ASSUME Typed, [Next]_vars PROVE RunTypes'
    OBVIOUS
  <1>1. RunTypes
    BY DEF Typed
  <1>2. CASE UNCHANGED vars \/ ClearCounts
    BY <1>1, <1>2 DEF vars, runs, ClearCounts, RunTypes
  <1>3. ASSUME NEW t \in Turns, NEW o \in Observations,
               AgentWrites(t, o) \/ RecordObservationCreated(t, o) \/ WorkerWrites(t, o)
        PROVE  RunTypes'
    BY <1>1, <1>3 DEF AgentWrites, RecordObservationCreated, WorkerWrites, runs, RunTypes
  <1>4. ASSUME NEW t \in Turns, WorkerSettles(t) PROVE RunTypes'
    <2>1. PICK x \in Run!Outcomes : outcome' = [outcome EXCEPT ![t] = x]
      BY <1>4 DEF WorkerSettles, Run!Settle
    <2>2. UNCHANGED <<phase, submitted, pc>>
      BY <1>4 DEF WorkerSettles, Run!Settle
    <2>3. QED
      BY <1>1, <2>1, <2>2 DEF RunTypes
  <1>5. ASSUME NEW t \in Turns, TurnMove(t) PROVE RunTypes'
    <2>1. outcome' = outcome
      BY <1>5 DEF TurnMove, AgentStep, HookStep, DrainStep, SkipWorker, PrepareWorker, LaunchRaises, WorkerStarted,
         WorkerPopped, ForgetWorker, SnapshotOutputs, CreditOutputs, RecordWorker, FlushReady, Unlock,
         LinkerLaunched, LinkersDone, TakeReady, StartLinker, runs,
         Run!Drop, Run!Prepare, Run!Track, Run!Finish, Run!Abort, Run!Unwatched, Run!LoseSight, Run!Enter
    <2>2. phase' = phase \/ \E x \in Run!Phases : phase' = [phase EXCEPT ![t] = x]
      BY <1>5 DEF TurnMove, AgentStep, HookStep, DrainStep, SkipWorker, PrepareWorker, LaunchRaises, WorkerStarted,
         WorkerPopped, ForgetWorker, SnapshotOutputs, CreditOutputs, RecordWorker, FlushReady, Unlock,
         LinkerLaunched, LinkersDone, TakeReady, StartLinker, runs,
         Run!Drop, Run!Prepare, Run!Track, Run!Finish, Run!Abort, Run!Unwatched, Run!LoseSight, Run!Enter,
         Run!Phases, Run!Endings
    <2>3. submitted' \subseteq Turns
      BY <1>1, <1>5 DEF TurnMove, AgentStep, HookStep, DrainStep, SkipWorker, PrepareWorker, LaunchRaises, WorkerStarted,
         WorkerPopped, ForgetWorker, SnapshotOutputs, CreditOutputs, RecordWorker, FlushReady, Unlock,
         LinkerLaunched, LinkersDone, TakeReady, StartLinker, runs, RunTypes
    <2>4. pc' = pc \/ \E x \in Steps : pc' = [pc EXCEPT ![t] = x]
      BY <1>5 DEF TurnMove, AgentStep, HookStep, DrainStep, SkipWorker, PrepareWorker, LaunchRaises, WorkerStarted,
         WorkerPopped, ForgetWorker, SnapshotOutputs, CreditOutputs, RecordWorker, FlushReady, Unlock,
         LinkerLaunched, LinkersDone, TakeReady, StartLinker, Go, Steps
    <2>5. phase' \in [Turns -> Run!Phases]
      BY <1>1, <2>2 DEF RunTypes
    <2>6. pc' \in [Turns -> Steps]
      BY <1>1, <2>4 DEF RunTypes
    <2>7. QED
      BY <1>1, <2>1, <2>3, <2>5, <2>6 DEF RunTypes
  <1>6. QED
    BY <1>2, <1>3, <1>4, <1>5 DEF Next, TurnMove, FileStep

LEMMA FileTypesStep == Typed /\ [Next]_vars => FileTypes' /\ disk \subseteq disk' /\ direct \subseteq direct'
  <1> SUFFICES ASSUME Typed, [Next]_vars PROVE FileTypes' /\ disk \subseteq disk' /\ direct \subseteq direct'
    OBVIOUS
  <1>1. FileTypes
    BY DEF Typed
  <1>2. CASE UNCHANGED <<files, unqueued>>
    BY <1>1, <1>2 DEF files, FileTypes
  <1>3. ASSUME NEW t \in Turns, NEW o \in Observations, AgentWrites(t, o) \/ WorkerWrites(t, o)
        PROVE  FileTypes' /\ disk \subseteq disk' /\ direct \subseteq direct'
    <2>1. disk' = disk \cup {o} /\ author' = [author EXCEPT ![o] = t]
      BY <1>3 DEF AgentWrites, WorkerWrites, Write
    <2>2. /\ direct' = direct \/ direct' = direct \cup {o}
          /\ unqueued' = unqueued \/ unqueued' = [unqueued EXCEPT ![t] = @ \cup {o}]
      BY <1>3 DEF AgentWrites, WorkerWrites
    <2>3. unqueued' \in [Turns -> SUBSET Observations]
      BY <1>1, <2>2 DEF FileTypes
    <2>4. author' \in [Observations -> Turns \cup {None}]
      BY <1>1, <2>1 DEF FileTypes
    <2>5. QED
      BY <1>1, <2>1, <2>2, <2>3, <2>4 DEF FileTypes
  <1>4. ASSUME NEW t \in Turns, NEW o \in Observations, RecordObservationCreated(t, o)
        PROVE  FileTypes' /\ disk \subseteq disk' /\ direct \subseteq direct'
    <2>1. unqueued' = [unqueued EXCEPT ![t] = @ \ {o}] /\ UNCHANGED files
      BY <1>4 DEF RecordObservationCreated
    <2>2. unqueued' \in [Turns -> SUBSET Observations]
      BY <1>1, <2>1 DEF FileTypes
    <2>3. QED
      BY <1>1, <2>1, <2>2 DEF FileTypes, files
  <1>5. ASSUME NEW t \in Turns, TurnMove(t) \/ WorkerSettles(t) PROVE UNCHANGED <<files, unqueued>>
    BY <1>5 DEF TurnMove, AgentStep, HookStep, DrainStep, SkipWorker, PrepareWorker, LaunchRaises, WorkerStarted,
       WorkerPopped, ForgetWorker, SnapshotOutputs, CreditOutputs, RecordWorker, FlushReady, Unlock,
       LinkerLaunched, LinkersDone, TakeReady, StartLinker, WorkerSettles
  <1>6. CASE UNCHANGED vars \/ ClearCounts
    BY <1>2, <1>6 DEF vars, ClearCounts
  <1>7. QED
    BY <1>2, <1>3, <1>4, <1>5, <1>6 DEF Next, TurnMove, FileStep

\* Only the hook of a worker that ended touches what was credited or counted.
Counting == {"popped", "snapshotted"}
Uncounting ==
    /\ delta' = delta /\ counted' = counted /\ recorded' \in {recorded, 0}
    /\ \A u \in Turns : pc'[u] \notin Counting => pc[u] \notin Counting

LEMMA HookSteps ==
  ASSUME Typed, [Next]_vars
  PROVE  \/ Uncounting
         \/ \E t \in Turns : SnapshotOutputs(t) \/ CreditOutputs(t)
  <1>1. pc \in [Turns -> Steps]
    BY DEF Typed, RunTypes
  <1>2. CASE UNCHANGED vars \/ ClearCounts
    BY <1>2 DEF vars, activity, ClearCounts, Uncounting
  <1>3. ASSUME NEW t \in Turns, FileStep(t) \/ WorkerSettles(t) PROVE Uncounting
    BY <1>3 DEF FileStep, AgentWrites, RecordObservationCreated, WorkerWrites, WorkerSettles, activity, Uncounting
  <1>4. ASSUME NEW t \in Turns, AgentStep(t) \/ DrainStep(t) \/ WorkerPopped(t) \/ ForgetWorker(t) PROVE Uncounting
    <2>1. delta' = delta /\ counted' = counted /\ recorded' = recorded
      BY <1>4 DEF AgentStep, DrainStep, SkipWorker, PrepareWorker, LaunchRaises, WorkerStarted, WorkerPopped,
         ForgetWorker, RecordWorker, FlushReady, Unlock, LinkerLaunched, LinkersDone, TakeReady, StartLinker, activity
    <2>2. pc[t] \notin Counting /\ \E x \in Steps : pc' = [pc EXCEPT ![t] = x]
      BY <1>1, <1>4 DEF AgentStep, DrainStep, SkipWorker, PrepareWorker, LaunchRaises, WorkerStarted, WorkerPopped,
         ForgetWorker, RecordWorker, FlushReady, Unlock, LinkerLaunched, LinkersDone, TakeReady, StartLinker,
         Go, Counting, Steps
    <2>3. QED
      BY <1>1, <2>1, <2>2 DEF Uncounting
  <1>5. QED
    BY <1>2, <1>3, <1>4 DEF Next, HookStep

LEMMA ActivityTypesStep == Typed /\ [Next]_vars => ActivityTypes'
  <1> SUFFICES ASSUME Typed, [Next]_vars PROVE ActivityTypes'
    OBVIOUS
  <1>1. ActivityTypes /\ FileTypes
    BY DEF Typed
  <1>2. disk \subseteq disk'
    BY FileTypesStep
  <1>3. active' \subseteq Turns
    <2>1. ASSUME NEW t \in Turns, AgentStep(t) PROVE active' \subseteq active \cup {t}
      BY <2>1 DEF AgentStep, SkipWorker, PrepareWorker, LaunchRaises, WorkerStarted, activity
    <2>2. ASSUME NEW t \in Turns, HookStep(t) PROVE active' \subseteq active
      BY <2>2 DEF HookStep, WorkerPopped, ForgetWorker, SnapshotOutputs, CreditOutputs, activity
    <2>3. ASSUME NEW t \in Turns, DrainStep(t) PROVE active' = active
      BY <2>3 DEF DrainStep, RecordWorker, FlushReady, Unlock, LinkerLaunched, LinkersDone, TakeReady,
         StartLinker, activity
    <2>4. ASSUME NEW t \in Turns, FileStep(t) \/ WorkerSettles(t) PROVE active' = active
      BY <2>4 DEF FileStep, AgentWrites, RecordObservationCreated, WorkerWrites, WorkerSettles, activity
    <2>5. ASSUME ClearCounts \/ UNCHANGED vars PROVE active' = active
      BY <2>5 DEF ClearCounts, vars, activity
    <2>6. active \subseteq Turns
      BY <1>1 DEF ActivityTypes
    <2>7. QED
      BY <2>1, <2>2, <2>3, <2>4, <2>5, <2>6 DEF Next
  <1>4. before' = before \/ \E t \in Turns : before' = [before EXCEPT ![t] = disk]
    <2>1. ASSUME NEW t \in Turns, AgentStep(t)
          PROVE  before' = before \/ before' = [before EXCEPT ![t] = disk]
      BY <2>1 DEF AgentStep, SkipWorker, PrepareWorker, LaunchRaises, WorkerStarted
    <2>2. ASSUME NEW t \in Turns, HookStep(t) \/ DrainStep(t) PROVE before' = before
      BY <2>2 DEF HookStep, DrainStep, WorkerPopped, ForgetWorker, SnapshotOutputs, CreditOutputs, RecordWorker,
         FlushReady, Unlock, LinkerLaunched, LinkersDone, TakeReady, StartLinker
    <2>3. ASSUME NEW t \in Turns, FileStep(t) \/ WorkerSettles(t) PROVE before' = before
      BY <2>3 DEF FileStep, AgentWrites, RecordObservationCreated, WorkerWrites, WorkerSettles
    <2>4. ASSUME ClearCounts \/ UNCHANGED vars PROVE before' = before
      BY <2>4 DEF ClearCounts, vars
    <2>5. QED
      BY <2>1, <2>2, <2>3, <2>4 DEF Next
  <1>5. before' \in [Turns -> SUBSET Observations]
    BY <1>1, <1>4 DEF ActivityTypes, FileTypes
  <1>6. CASE Uncounting
    BY <1>1, <1>2, <1>3, <1>5, <1>6 DEF Uncounting, ActivityTypes
  <1>7. ASSUME NEW t \in Turns, SnapshotOutputs(t) PROVE ActivityTypes'
    <2>1. delta' = [delta EXCEPT ![t] = disk \ before[t]] /\ counted' = counted /\ recorded' = recorded
      BY <1>7 DEF SnapshotOutputs, activity
    <2>2. delta' \in [Turns -> SUBSET Observations] /\ \A u \in Turns : delta'[u] \subseteq disk
      BY <1>1, <2>1 DEF ActivityTypes, FileTypes
    <2>3. QED
      BY <1>1, <1>2, <1>3, <1>5, <2>1, <2>2 DEF ActivityTypes
  <1>8. ASSUME NEW t \in Turns, CreditOutputs(t) PROVE ActivityTypes'
    <2>1. /\ delta' = [delta EXCEPT ![t] = delta[t] \ counted] /\ counted' = counted \cup delta[t]
          /\ recorded' = recorded + Cardinality(delta'[t])
      BY <1>8 DEF CreditOutputs, Uncounted
    <2>2. delta' \in [Turns -> SUBSET Observations] /\ \A u \in Turns : delta'[u] \subseteq disk
      BY <1>1, <2>1 DEF ActivityTypes
    <2>3. IsFiniteSet(delta'[t])
      BY <2>2, MemoryPipelineAssumption, FS_Subset
    <2>4. recorded' \in Nat
      BY <1>1, <2>1, <2>3, FS_CardinalityType DEF ActivityTypes
    <2>5. counted' \subseteq disk
      BY <1>1, <2>1 DEF ActivityTypes
    <2>6. QED
      BY <1>2, <1>3, <1>5, <2>2, <2>4, <2>5 DEF ActivityTypes
  <1>9. QED
    BY <1>6, <1>7, <1>8, HookSteps

\* Only drains touch what is drained and launched, and the callbacks of agents
\* what is pending.
LEMMA SchedulerTypesStep == Typed /\ [Next]_vars => SchedulerTypes'
  <1> SUFFICES ASSUME Typed, [Next]_vars PROVE SchedulerTypes'
    OBVIOUS
  <1>1. SchedulerTypes /\ ActivityTypes /\ ProjectOf \in [Turns -> Projects]
    BY MemoryPipelineAssumption DEF Typed
  <1>2. CASE UNCHANGED <<scheduler, launches, offered>>
    BY <1>1, <1>2 DEF scheduler, SchedulerTypes
  <1>3. ASSUME NEW t \in Turns, NEW o \in Observations, RecordObservationCreated(t, o) PROVE SchedulerTypes'
    <2>1. pending' = [pending EXCEPT ![ProjectOf[t]] = @ \cup {o}] /\ UNCHANGED <<lock, todo, batches, launches, offered>>
      BY <1>3 DEF RecordObservationCreated, Queue
    <2>2. pending' \in [Projects -> SUBSET Observations]
      BY <1>1, <2>1 DEF SchedulerTypes
    <2>3. QED
      BY <1>1, <2>1, <2>2 DEF SchedulerTypes
  <1>4. ASSUME NEW t \in Turns, RecordWorker(t) \/ FlushReady(t) PROVE SchedulerTypes'
    <2>1. /\ lock' = t /\ todo' \subseteq Projects /\ UNCHANGED <<batches, launches, offered>>
          /\ pending' = pending \/ pending' = [pending EXCEPT ![ProjectOf[t]] = @ \cup delta[t]]
      BY <1>4 DEF RecordWorker, FlushReady, Queue, Keys
    <2>2. pending' \in [Projects -> SUBSET Observations]
      BY <1>1, <2>1 DEF SchedulerTypes, ActivityTypes
    <2>3. QED
      BY <1>1, <2>1, <2>2 DEF SchedulerTypes
  <1>5. ASSUME NEW t \in Turns, NEW p \in Projects, TakeReady(t, p) PROVE SchedulerTypes'
    <2>1. /\ todo' = todo \ {p} /\ UNCHANGED <<lock, launches, offered>>
          /\ \/ UNCHANGED <<batches, pending>>
             \/ batches' = [batches EXCEPT ![t] = [batches[t] EXCEPT ![p] = pending[p]]]
                /\ pending' = [pending EXCEPT ![p] = {}]
      BY <1>5 DEF TakeReady, Popped
    <2>2. [batches[t] EXCEPT ![p] = pending[p]] \in [Projects -> SUBSET Observations]
      BY <1>1 DEF SchedulerTypes
    <2>3. batches' \in [Turns -> [Projects -> SUBSET Observations]]
      BY <1>1, <2>1, <2>2 DEF SchedulerTypes
    <2>4. pending' \in [Projects -> SUBSET Observations]
      BY <1>1, <2>1 DEF SchedulerTypes
    <2>5. QED
      BY <1>1, <2>1, <2>3, <2>4 DEF SchedulerTypes
  <1>6. ASSUME NEW t \in Turns, Unlock(t) \/ LinkersDone(t) PROVE SchedulerTypes'
    BY <1>1, <1>6 DEF Unlock, LinkersDone, scheduler, SchedulerTypes
  <1>7. ASSUME NEW t \in Turns, NEW p \in Projects, StartLinker(t, p) PROVE SchedulerTypes'
    <2>1. /\ launches' = launches + 1 /\ UNCHANGED <<pending, lock, todo>>
          /\ batches' = [batches EXCEPT ![t] = [batches[t] EXCEPT ![p] = {}]]
          /\ offered' = offered \cup {[by |-> t, project |-> p, ids |-> batches[t][p]]}
      BY <1>7 DEF StartLinker
    <2>2. [batches[t] EXCEPT ![p] = {}] \in [Projects -> SUBSET Observations]
      BY <1>1 DEF SchedulerTypes
    <2>3. batches' \in [Turns -> [Projects -> SUBSET Observations]]
      BY <1>1, <2>1, <2>2 DEF SchedulerTypes
    <2>4. [by |-> t, project |-> p, ids |-> batches[t][p]] \in Offers
      BY <1>1 DEF SchedulerTypes, Offers
    <2>5. QED
      BY <1>1, <2>1, <2>3, <2>4 DEF SchedulerTypes
  <1>8. ASSUME NEW t \in Turns, LinkerLaunched(t) PROVE SchedulerTypes'
    <2>1. launches' \in Nat
      BY <1>1, <1>8 DEF LinkerLaunched, Unmarked, SchedulerTypes
    <2>2. QED
      BY <1>1, <1>8, <2>1 DEF LinkerLaunched, scheduler, SchedulerTypes
  <1>9. ASSUME NEW t \in Turns, AgentStep(t) \/ HookStep(t) \/ WorkerSettles(t)
        PROVE  UNCHANGED <<scheduler, launches, offered>>
    BY <1>9 DEF AgentStep, HookStep, SkipWorker, PrepareWorker, LaunchRaises, WorkerStarted, WorkerPopped,
       ForgetWorker, SnapshotOutputs, CreditOutputs, WorkerSettles
  <1>10. ASSUME NEW t \in Turns, NEW o \in Observations, AgentWrites(t, o) \/ WorkerWrites(t, o)
         PROVE  UNCHANGED <<scheduler, launches, offered>>
    BY <1>10 DEF AgentWrites, WorkerWrites
  <1>11. CASE UNCHANGED vars \/ ClearCounts
    BY <1>2, <1>11 DEF vars, ClearCounts
  <1>12. QED
    BY <1>2, <1>3, <1>4, <1>5, <1>6, <1>7, <1>8, <1>9, <1>10, <1>11 DEF Next, DrainStep, FileStep

LEMMA TypedStep == Typed /\ [Next]_vars => Typed'
  BY RunTypesStep, FileTypesStep, ActivityTypesStep, SchedulerTypesStep DEF Typed

-----------------------------------------------------------------------------
\* Credits.  A hook keeps of its outputs what nobody counted, and counts them
\* all; everybody else's are among those counted before.
LEMMA CountedFinite == Typed => IsFiniteSet(counted)
  BY MemoryPipelineAssumption, FS_Subset DEF Typed, FileTypes, ActivityTypes

LEMMA CountingStep ==
  ASSUME Typed, CreditedCounted, CreditedOnce, RecordedBounded, [Next]_vars
  PROVE  CreditedCounted' /\ CreditedOnce' /\ RecordedBounded'
  <1>1. pc \in [Turns -> Steps] /\ delta \in [Turns -> SUBSET Observations] /\ recorded \in Nat
    BY DEF Typed, RunTypes, ActivityTypes
  <1>2. IsFiniteSet(counted)
    BY CountedFinite
  <1>3. CASE Uncounting
    <2>1. \A u \in Turns : Credited(u)' \subseteq Credited(u)
      BY <1>1, <1>3 DEF Uncounting, Credited, Counting
    <2>2. CreditedOnce'
      BY <2>1 DEF CreditedOnce
    <2>3. CreditedCounted'
      BY <1>3 DEF Uncounting, Counting, CreditedCounted
    <2>4. Cardinality(counted) \in Nat
      BY <1>2, FS_CardinalityType
    <2>5. RecordedBounded'
      BY <1>1, <1>3, <2>4 DEF Uncounting, RecordedBounded
    <2>6. QED
      BY <2>2, <2>3, <2>5
  <1>4. ASSUME NEW t \in Turns, SnapshotOutputs(t)
        PROVE  CreditedCounted' /\ CreditedOnce' /\ RecordedBounded'
    <2>1. /\ pc' = [pc EXCEPT ![t] = "snapshotted"] /\ delta' = [delta EXCEPT ![t] = disk \ before[t]]
          /\ counted' = counted /\ recorded' = recorded
      BY <1>4 DEF SnapshotOutputs, Go, activity
    <2>2. \A u \in Turns : Credited(u)' \subseteq Credited(u)
      BY <1>1, <2>1 DEF Credited
    <2>3. CreditedOnce'
      BY <2>2 DEF CreditedOnce
    <2>4. CreditedCounted'
      BY <1>1, <2>1 DEF CreditedCounted
    <2>5. QED
      BY <2>1, <2>3, <2>4 DEF RecordedBounded
  <1>5. ASSUME NEW t \in Turns, CreditOutputs(t)
        PROVE  CreditedCounted' /\ CreditedOnce' /\ RecordedBounded'
    <2> DEFINE new == delta[t] \ counted
    <2>1. /\ pc[t] = "snapshotted" /\ pc' = [pc EXCEPT ![t] = "record"]
          /\ delta' = [delta EXCEPT ![t] = new] /\ counted' = counted \cup delta[t]
          /\ recorded' = recorded + Cardinality(delta'[t])
      BY <1>5 DEF CreditOutputs, Go, Uncounted
    <2>2. Credited(t)' = new /\ delta'[t] = new
      BY <1>1, <2>1 DEF Credited
    <2>3. \A u \in Turns : u # t => Credited(u)' = Credited(u) /\ Credited(u) \subseteq counted
      BY <1>1, <2>1 DEF Credited, CreditedCounted
    <2>4. CreditedOnce'
      <3>1. ASSUME NEW u \in Turns, NEW v \in Turns, u # v PROVE Credited(u)' \cap Credited(v)' = {}
        <4>1. CASE u = t
          BY <2>2, <2>3, <3>1, <4>1
        <4>2. CASE v = t
          BY <2>2, <2>3, <3>1, <4>2
        <4>3. CASE u # t /\ v # t
          BY <2>3, <3>1, <4>3 DEF CreditedOnce
        <4>4. QED
          BY <4>1, <4>2, <4>3
      <3>2. QED
        BY <3>1 DEF CreditedOnce
    <2>5. CreditedCounted'
      BY <1>1, <2>1 DEF CreditedCounted
    <2>6. RecordedBounded'
      <3>1. IsFiniteSet(new)
        BY <1>1, MemoryPipelineAssumption, FS_Subset
      <3>2. counted' = counted \cup new /\ counted \cap new = {}
        BY <2>1
      <3>3. Cardinality(counted') = Cardinality(counted) + Cardinality(new)
        <4>1. Cardinality(counted \cup new) = Cardinality(counted) + Cardinality(new) - Cardinality(counted \cap new)
          BY <1>2, <3>1, FS_Union
        <4>2. Cardinality(counted \cap new) = 0
          BY <3>2, FS_EmptySet
        <4>3. Cardinality(counted) \in Nat /\ Cardinality(new) \in Nat
          BY <1>2, <3>1, FS_CardinalityType
        <4> HIDE DEF new
        <4>4. QED
          BY <3>2, <4>1, <4>2, <4>3
      <3>4. Cardinality(counted) \in Nat /\ Cardinality(new) \in Nat
        BY <1>2, <3>1, FS_CardinalityType
      <3>5. recorded' = recorded + Cardinality(new)
        BY <2>1, <2>2
      <3> HIDE DEF new
      <3>6. QED
        BY <1>1, <3>3, <3>4, <3>5 DEF RecordedBounded
    <2>7. QED
      BY <2>4, <2>5, <2>6
  <1>6. QED
    BY <1>3, <1>4, <1>5, HookSteps

-----------------------------------------------------------------------------
\* Drains.  Whoever is not the turn of the step keeps its place, its batches and
\* the lock it may hold.
Draining == {"draining", "linking", "in_launch"}

LEMMA DrainsStep ==
  ASSUME Typed, DrainsLocked, BatchesFresh, [Next]_vars
  PROVE  DrainsLocked' /\ BatchesFresh'
  <1>1. /\ pc \in [Turns -> Steps] /\ batches \in [Turns -> [Projects -> SUBSET Observations]]
        /\ None \notin Turns /\ todo \subseteq Projects
    BY MemoryPipelineAssumption DEF Typed, RunTypes, SchedulerTypes
  <1>2. ASSUME UNCHANGED <<lock, todo, batches>>,
               \/ pc' = pc
               \/ \E t \in Turns, x \in Steps \ {"draining"} :
                     pc' = [pc EXCEPT ![t] = x] /\ (pc[t] \notin Draining \/ x \in Draining \/ batches[t] = Nothing)
        PROVE  DrainsLocked' /\ BatchesFresh'
    <2>1. \A u \in Turns :
              /\ pc'[u] = "draining" => pc[u] = "draining"
              /\ pc'[u] \notin Draining => pc[u] \notin Draining \/ batches[u] = Nothing
      BY <1>1, <1>2 DEF Draining
    <2>2. DrainsLocked'
      BY <1>2, <2>1 DEF DrainsLocked
    <2>3. \A u \in Turns : batches[u] = Nothing => \A p \in Projects : batches[u][p] = {}
      BY DEF Nothing
    <2>4. BatchesFresh'
      BY <1>2, <2>1, <2>3 DEF BatchesFresh, Draining
    <2>5. QED
      BY <2>2, <2>4
  <1>3. CASE UNCHANGED vars \/ ClearCounts
    BY <1>2, <1>3 DEF vars, scheduler, ClearCounts
  <1>4. ASSUME NEW t \in Turns, FileStep(t) \/ WorkerSettles(t) PROVE DrainsLocked' /\ BatchesFresh'
    <2>1. UNCHANGED <<lock, todo, batches, pc>>
      BY <1>4 DEF FileStep, AgentWrites, RecordObservationCreated, WorkerWrites, WorkerSettles, scheduler
    <2>2. QED
      BY <1>2, <2>1
  <1>5. ASSUME NEW t \in Turns, AgentStep(t) \/ HookStep(t) PROVE DrainsLocked' /\ BatchesFresh'
    <2>1. UNCHANGED <<lock, todo, batches>>
      BY <1>5 DEF AgentStep, HookStep, SkipWorker, PrepareWorker, LaunchRaises, WorkerStarted, WorkerPopped,
         ForgetWorker, SnapshotOutputs, CreditOutputs, scheduler
    <2>2. pc[t] \notin Draining /\ \E x \in Steps \ {"draining"} : pc' = [pc EXCEPT ![t] = x]
      BY <1>5 DEF AgentStep, HookStep, SkipWorker, PrepareWorker, LaunchRaises, WorkerStarted, WorkerPopped,
         ForgetWorker, SnapshotOutputs, CreditOutputs, Go, Steps, Draining
    <2>3. QED
      BY <1>2, <2>1, <2>2
  <1>6. ASSUME NEW t \in Turns, LinkerLaunched(t) \/ LinkersDone(t) PROVE DrainsLocked' /\ BatchesFresh'
    <2>1. UNCHANGED <<lock, todo, batches>>
      BY <1>6 DEF LinkerLaunched, LinkersDone, scheduler
    <2>2. \E x \in Steps \ {"draining"} :
              pc' = [pc EXCEPT ![t] = x] /\ (x \in Draining \/ batches[t] = Nothing)
      BY <1>6 DEF LinkerLaunched, LinkersDone, Go, Steps, Draining
    <2>3. QED
      BY <1>2, <2>1, <2>2
  <1>7. ASSUME NEW t \in Turns, RecordWorker(t) \/ FlushReady(t) PROVE DrainsLocked' /\ BatchesFresh'
    <2>1. /\ pc[t] \notin Draining /\ pc' = [pc EXCEPT ![t] = "draining"]
          /\ lock = None /\ lock' = t /\ batches' = batches /\ todo' \subseteq Projects
      BY <1>7 DEF RecordWorker, FlushReady, Go, Draining, Keys
    <2>2. \A u \in Turns : pc[u] # "draining"
      BY <1>1, <2>1 DEF DrainsLocked
    <2>3. \A u \in Turns : u # t => pc'[u] = pc[u]
      BY <1>1, <2>1
    <2>4. pc'[t] = "draining"
      BY <1>1, <2>1
    <2>5. DrainsLocked'
      BY <2>1, <2>2, <2>3 DEF DrainsLocked
    <2>6. \A p \in Projects : batches[t][p] = {}
      BY <2>1 DEF BatchesFresh, Draining
    <2>7. BatchesFresh'
      BY <2>1, <2>2, <2>3, <2>4, <2>6 DEF BatchesFresh
    <2>8. QED
      BY <2>5, <2>7
  <1>8. ASSUME NEW t \in Turns, Unlock(t) PROVE DrainsLocked' /\ BatchesFresh'
    <2>1. /\ pc[t] = "draining" /\ pc' = [pc EXCEPT ![t] = "linking"]
          /\ batches' = batches /\ todo' = todo
      BY <1>8 DEF Unlock, Go
    <2>2. \A u \in Turns : u # t => pc[u] # "draining"
      BY <2>1 DEF DrainsLocked
    <2>3. pc'[t] = "linking" /\ \A u \in Turns : u # t => pc'[u] = pc[u]
      BY <1>1, <2>1
    <2>4. DrainsLocked'
      BY <2>2, <2>3 DEF DrainsLocked
    <2>5. BatchesFresh'
      BY <2>1, <2>3 DEF BatchesFresh
    <2>6. QED
      BY <2>4, <2>5
  <1>9. ASSUME NEW t \in Turns, NEW p \in Projects, TakeReady(t, p) PROVE DrainsLocked' /\ BatchesFresh'
    <2>1. /\ pc[t] = "draining" /\ pc' = pc /\ lock' = lock /\ todo' = todo \ {p}
          /\ \/ batches' = batches
             \/ batches' = [batches EXCEPT ![t] = [batches[t] EXCEPT ![p] = pending[p]]]
      BY <1>9 DEF TakeReady
    <2>2. DrainsLocked'
      BY <2>1 DEF DrainsLocked
    <2>3. \A u \in Turns : u # t => batches'[u] = batches[u] /\ pc[u] # "draining"
      BY <1>1, <2>1 DEF DrainsLocked
    <2>4. \A q \in Projects : q # p => batches'[t][q] = batches[t][q]
      BY <1>1, <2>1
    <2>5. BatchesFresh'
      BY <1>1, <2>1, <2>3, <2>4 DEF BatchesFresh
    <2>6. QED
      BY <2>2, <2>5
  <1>10. ASSUME NEW t \in Turns, NEW p \in Projects, StartLinker(t, p) PROVE DrainsLocked' /\ BatchesFresh'
    <2>1. /\ pc[t] = "linking" /\ pc' = [pc EXCEPT ![t] = "in_launch"] /\ lock' = lock /\ todo' = todo
          /\ batches' = [batches EXCEPT ![t] = [batches[t] EXCEPT ![p] = {}]]
      BY <1>10 DEF StartLinker, Go
    <2>2. /\ pc'[t] = "in_launch"
          /\ \A u \in Turns : u # t => pc'[u] = pc[u] /\ batches'[u] = batches[u]
      BY <1>1, <2>1
    <2>3. DrainsLocked'
      BY <2>1, <2>2 DEF DrainsLocked
    <2>4. BatchesFresh'
      BY <2>1, <2>2 DEF BatchesFresh
    <2>5. QED
      BY <2>3, <2>4
  <1>11. QED
    BY <1>3, <1>4, <1>5, <1>6, <1>7, <1>8, <1>9, <1>10 DEF Next, DrainStep

-----------------------------------------------------------------------------
\* Nothing strays.  A step that takes an observation from where it waits puts it
\* where it waits next; all other steps take none.
Waiting == <<pc, unqueued, delta, pending, batches, offered>>

LEMMA NoneStrayStep ==
  ASSUME Typed, BatchesFresh, NoneStray, [Next]_vars
  PROVE  NoneStray'
  <1>1. /\ pc \in [Turns -> Steps] /\ unqueued \in [Turns -> SUBSET Observations]
        /\ delta \in [Turns -> SUBSET Observations] /\ pending \in [Projects -> SUBSET Observations]
        /\ batches \in [Turns -> [Projects -> SUBSET Observations]]
        /\ ProjectOf \in [Turns -> Projects]
    BY MemoryPipelineAssumption DEF Typed, RunTypes, FileTypes, ActivityTypes, SchedulerTypes
  <1>2. ASSUME UNCHANGED <<counted, direct>>, \A o : OnItsWay(o) => OnItsWay(o)'
        PROVE  NoneStray'
    BY <1>2 DEF NoneStray
  <1>3. ASSUME UNCHANGED <<unqueued, delta, pending, batches, offered>>,
               \A u \in Turns : pc[u] = "record" => pc'[u] = "record"
        PROVE  \A o : OnItsWay(o) => OnItsWay(o)'
    BY <1>3 DEF OnItsWay
  <1>4. CASE UNCHANGED vars \/ ClearCounts
    <2>1. UNCHANGED <<counted, direct>> /\ UNCHANGED Waiting
      BY <1>4 DEF vars, files, activity, scheduler, ClearCounts, Waiting
    <2>2. \A o : OnItsWay(o) => OnItsWay(o)'
      BY <1>3, <2>1 DEF Waiting
    <2>3. QED
      BY <1>2, <2>1, <2>2
  <1>5. ASSUME NEW t \in Turns, (\E o \in Observations : WorkerWrites(t, o)) \/ WorkerSettles(t)
        PROVE  NoneStray'
    <2>1. UNCHANGED <<counted, direct>> /\ UNCHANGED Waiting
      BY <1>5 DEF WorkerWrites, WorkerSettles, files, activity, scheduler, Waiting
    <2>2. \A x : OnItsWay(x) => OnItsWay(x)'
      BY <1>3, <2>1 DEF Waiting
    <2>3. QED
      BY <1>2, <2>1, <2>2
  <1>6. ASSUME NEW t \in Turns, NEW o \in Observations, AgentWrites(t, o) PROVE NoneStray'
    <2>1. /\ direct' = direct \cup {o} /\ counted' = counted
          /\ unqueued' = [unqueued EXCEPT ![t] = unqueued[t] \cup {o}]
          /\ UNCHANGED <<pc, delta, pending, batches, offered>>
      BY <1>6 DEF AgentWrites, activity, scheduler
    <2>2. \A u \in Turns : unqueued[u] \subseteq unqueued'[u]
      BY <1>1, <2>1
    <2>3. \A x : OnItsWay(x) => OnItsWay(x)'
      BY <2>1, <2>2 DEF OnItsWay
    <2>4. o \in unqueued'[t]
      BY <1>1, <2>1
    <2>5. OnItsWay(o)'
      BY <2>4 DEF OnItsWay
    <2>6. QED
      BY <2>1, <2>3, <2>5 DEF NoneStray
  <1>7. ASSUME NEW t \in Turns, NEW o \in Observations, RecordObservationCreated(t, o) PROVE NoneStray'
    <2>1. /\ pending' = [pending EXCEPT ![ProjectOf[t]] = pending[ProjectOf[t]] \cup {o}]
          /\ unqueued' = [unqueued EXCEPT ![t] = unqueued[t] \ {o}]
          /\ UNCHANGED <<counted, direct, pc, delta, batches, offered>>
      BY <1>7 DEF RecordObservationCreated, Queue, files, activity
    <2>2. \A p \in Projects : pending[p] \subseteq pending'[p]
      BY <1>1, <2>1
    <2>3. o \in pending'[ProjectOf[t]] /\ ProjectOf[t] \in Projects
      BY <1>1, <2>1
    <2>4. OnItsWay(o)'
      BY <2>3 DEF OnItsWay
    <2>5. \A u \in Turns : unqueued[u] \ {o} \subseteq unqueued'[u]
      BY <1>1, <2>1
    <2>6. \A x : x # o /\ OnItsWay(x) => OnItsWay(x)'
      BY <2>1, <2>2, <2>5 DEF OnItsWay
    <2>7. QED
      BY <1>2, <2>1, <2>4, <2>6
  <1>8. ASSUME NEW t \in Turns,
               \/ AgentStep(t) \/ WorkerPopped(t) \/ ForgetWorker(t)
               \/ FlushReady(t) \/ Unlock(t) \/ LinkerLaunched(t) \/ LinkersDone(t)
        PROVE  NoneStray'
    <2>1. UNCHANGED <<counted, direct, unqueued, delta, pending, batches, offered>>
      BY <1>8 DEF AgentStep, SkipWorker, PrepareWorker, LaunchRaises, WorkerStarted, WorkerPopped, ForgetWorker,
         FlushReady, Unlock, LinkerLaunched, LinkersDone, files, activity, scheduler
    <2>2. pc[t] # "record" /\ \E x \in Steps : pc' = [pc EXCEPT ![t] = x]
      BY <1>8 DEF AgentStep, SkipWorker, PrepareWorker, LaunchRaises, WorkerStarted, WorkerPopped, ForgetWorker,
         FlushReady, Unlock, LinkerLaunched, LinkersDone, Go, Steps
    <2>3. \A u \in Turns : pc[u] = "record" => pc'[u] = "record"
      BY <1>1, <2>2
    <2>4. QED
      BY <1>2, <1>3, <2>1, <2>3
  <1>9. ASSUME NEW t \in Turns, SnapshotOutputs(t) PROVE NoneStray'
    <2>1. /\ pc[t] = "popped" /\ pc' = [pc EXCEPT ![t] = "snapshotted"]
          /\ delta' = [delta EXCEPT ![t] = disk \ before[t]]
          /\ UNCHANGED <<counted, direct, unqueued, pending, batches, offered>>
      BY <1>9 DEF SnapshotOutputs, Go, files, activity, scheduler
    <2>2. \A u \in Turns : pc[u] = "record" => pc'[u] = "record" /\ delta'[u] = delta[u]
      BY <1>1, <2>1
    <2>3. \A o : OnItsWay(o) => OnItsWay(o)'
      BY <2>1, <2>2 DEF OnItsWay
    <2>4. QED
      BY <1>2, <2>1, <2>3
  <1>10. ASSUME NEW t \in Turns, CreditOutputs(t) PROVE NoneStray'
    <2>1. /\ pc[t] = "snapshotted" /\ pc' = [pc EXCEPT ![t] = "record"]
          /\ delta' = [delta EXCEPT ![t] = delta[t] \ counted] /\ counted' = counted \cup delta[t]
          /\ UNCHANGED <<direct, unqueued, pending, batches, offered>>
      BY <1>10 DEF CreditOutputs, Uncounted, Go, files, scheduler
    <2>2. \A u \in Turns : pc[u] = "record" => pc'[u] = "record" /\ delta'[u] = delta[u]
      BY <1>1, <2>1
    <2>3. \A o : OnItsWay(o) => OnItsWay(o)'
      BY <2>1, <2>2 DEF OnItsWay
    <2>4. pc'[t] = "record" /\ delta'[t] = delta[t] \ counted
      BY <1>1, <2>1
    <2>5. \A o \in delta[t] \ counted : OnItsWay(o)'
      BY <2>4 DEF OnItsWay
    <2>6. QED
      BY <2>1, <2>3, <2>5 DEF NoneStray
  <1>11. ASSUME NEW t \in Turns, RecordWorker(t) PROVE NoneStray'
    <2>1. /\ pc' = [pc EXCEPT ![t] = "draining"]
          /\ pending' = [pending EXCEPT ![ProjectOf[t]] = pending[ProjectOf[t]] \cup delta[t]]
          /\ UNCHANGED <<counted, direct, unqueued, delta, batches, offered>>
      BY <1>11 DEF RecordWorker, Queue, Go, files, activity
    <2>2. \A p \in Projects : pending[p] \subseteq pending'[p]
      BY <1>1, <2>1
    <2>3. delta[t] \subseteq pending'[ProjectOf[t]] /\ ProjectOf[t] \in Projects
      BY <1>1, <2>1
    <2>4. \A o \in delta[t] : OnItsWay(o)'
      BY <2>3 DEF OnItsWay
    <2>5. \A u \in Turns : u # t /\ pc[u] = "record" => pc'[u] = "record"
      BY <1>1, <2>1
    <2>6. \A o : o \notin delta[t] /\ OnItsWay(o) => OnItsWay(o)'
      BY <2>1, <2>2, <2>5 DEF OnItsWay
    <2>7. QED
      BY <1>2, <2>1, <2>4, <2>6
  <1>12. ASSUME NEW t \in Turns, NEW p \in Projects, TakeReady(t, p) PROVE NoneStray'
    <2>1. CASE UNCHANGED <<batches, pending>>
      <3>1. UNCHANGED <<counted, direct>> /\ UNCHANGED Waiting
        BY <1>12, <2>1 DEF TakeReady, files, activity, Waiting
      <3>2. \A o : OnItsWay(o) => OnItsWay(o)'
        BY <1>3, <3>1 DEF Waiting
      <3>3. QED
        BY <1>2, <3>1, <3>2
    <2>2. CASE ~UNCHANGED <<batches, pending>>
      <3>1. /\ batches' = [batches EXCEPT ![t] = [batches[t] EXCEPT ![p] = pending[p]]]
            /\ pending' = [pending EXCEPT ![p] = {}]
            /\ UNCHANGED <<counted, direct, pc, unqueued, delta, offered>>
        BY <1>12, <2>2 DEF TakeReady, Popped, files, activity
      <3>2. batches[t][p] = {}
        BY <1>12 DEF TakeReady, BatchesFresh
      <3>3. batches'[t][p] = pending[p]
        BY <1>1, <3>1
      <3>4. \A u \in Turns, q \in Projects : batches[u][q] \subseteq batches'[u][q]
        BY <1>1, <3>1, <3>2
      <3>5. \A q \in Projects : q # p => pending'[q] = pending[q]
        BY <1>1, <3>1
      <3>6. \A o \in pending[p] : OnItsWay(o)'
        BY <3>3 DEF OnItsWay
      <3>7. \A o : o \notin pending[p] /\ OnItsWay(o) => OnItsWay(o)'
        BY <3>1, <3>4, <3>5 DEF OnItsWay
      <3>8. QED
        BY <1>2, <3>1, <3>6, <3>7
    <2>3. QED
      BY <2>1, <2>2
  <1>13. ASSUME NEW t \in Turns, NEW p \in Projects, StartLinker(t, p) PROVE NoneStray'
    <2> DEFINE offer == [by |-> t, project |-> p, ids |-> batches[t][p]]
    <2>1. /\ pc[t] = "linking" /\ pc' = [pc EXCEPT ![t] = "in_launch"]
          /\ batches' = [batches EXCEPT ![t] = [batches[t] EXCEPT ![p] = {}]]
          /\ offered' = offered \cup {offer}
          /\ UNCHANGED <<counted, direct, unqueued, delta, pending>>
      BY <1>13 DEF StartLinker, Go, files, activity
    <2>2. offer \in offered' /\ offer.ids = batches[t][p]
      BY <2>1
    <2>3. \A o \in batches[t][p] : OnItsWay(o)'
      BY <2>2 DEF OnItsWay
    <2>4. \A u \in Turns, q \in Projects : <<u, q>> # <<t, p>> => batches'[u][q] = batches[u][q]
      BY <1>1, <2>1
    <2>5. \A u \in Turns : pc[u] = "record" => pc'[u] = "record"
      BY <1>1, <2>1
    <2>6. \A o : o \notin batches[t][p] /\ OnItsWay(o) => OnItsWay(o)'
      <3> HIDE DEF offer
      <3>1. QED
        BY <2>1, <2>4, <2>5 DEF OnItsWay
    <2>7. QED
      BY <1>2, <2>1, <2>3, <2>6
  <1>14. QED
    BY <1>4, <1>5, <1>6, <1>7, <1>8, <1>9, <1>10, <1>11, <1>12, <1>13
       DEF Next, HookStep, DrainStep, FileStep

-----------------------------------------------------------------------------
LEMMA InitIInv == Init => IInv
  <1> SUFFICES ASSUME Init PROVE IInv
    OBVIOUS
  <1>1. Typed
    BY InitTyped
  <1>2. CreditedCounted /\ CreditedOnce /\ NoneStray
    BY DEF Init, CreditedCounted, CreditedOnce, Credited, NoneStray
  <1>3. RecordedBounded
    <2>1. recorded = 0 /\ counted = {}
      BY DEF Init
    <2>2. QED
      BY <2>1, FS_EmptySet DEF RecordedBounded
  <1>4. DrainsLocked
    BY DEF Init, DrainsLocked
  <1>5. BatchesFresh
    BY DEF Init, BatchesFresh, Nothing
  <1>6. QED
    BY <1>1, <1>2, <1>3, <1>4, <1>5 DEF IInv

LEMMA Inductive == Spec => []IInv
  <1>1. Init => IInv
    BY InitIInv
  <1>2. IInv /\ [Next]_vars => IInv'
    BY TypedStep, CountingStep, DrainsStep, NoneStrayStep DEF IInv
  <1>3. QED
    BY <1>1, <1>2, PTL DEF Spec

\* Every part of the pipeline's state keeps its type; the total on display never
\* exceeds the number of observations there can be (worker_activity.py,
\* scheduler.py).
THEOREM TypeCorrect == Spec => []TypeOK
  <1>1. IInv => TypeOK
    <2> SUFFICES ASSUME IInv PROVE TypeOK
      OBVIOUS
    <2>1. RunTypes /\ FileTypes /\ ActivityTypes /\ SchedulerTypes /\ RecordedBounded
      BY DEF IInv, Typed
    <2>2. Cardinality(counted) <= Cardinality(Observations)
      BY <2>1, MemoryPipelineAssumption, FS_Subset DEF FileTypes, ActivityTypes
    <2>3. Cardinality(counted) \in Nat /\ Cardinality(Observations) \in Nat
      BY <2>1, CountedFinite, MemoryPipelineAssumption, FS_CardinalityType DEF IInv
    <2>4. recorded \in 0 .. Cardinality(Observations)
      BY <2>1, <2>2, <2>3 DEF ActivityTypes, RecordedBounded
    <2>5. QED
      BY <2>1, <2>4 DEF TypeOK, RunTypes, FileTypes, ActivityTypes, SchedulerTypes
  <1>2. QED
    BY Inductive, <1>1, PTL

\* However many workers overlap, no observation is credited to two of them
\* (mark_memory_worker_finished): the deltas are cut under the lock, against
\* all that was counted before.
THEOREM CreditedAtMostOnce == Spec => []CreditedOnce
  <1>1. IInv => CreditedOnce
    BY DEF IInv
  <1>2. QED
    BY Inductive, <1>1, PTL

\* Whenever the status bar clears its total, the total counts distinct files
\* (clear_completed_memory_activity_counts).
THEOREM RecordedAlwaysBounded == Spec => []RecordedBounded
  <1>1. IInv => RecordedBounded
    BY DEF IInv
  <1>2. QED
    BY Inductive, <1>1, PTL

\* What a hook counted, or an agent wrote, is with a callback, a hook, the queue,
\* a drained batch or a linker launch at every moment (scheduler.py): a drain
\* never overwrites a batch, and never drops what it popped.
THEOREM NoneEverLost == Spec => []NoneLost
  <1>1. ASSUME IInv, NEW o \in counted \cup direct
        PROVE  o \in UNION {unqueued[t] : t \in Turns} \/ Places(o) # {}
    <2>1. OnItsWay(o)
      BY <1>1 DEF IInv, NoneStray
    <2>2. CASE \E t \in Turns : o \in unqueued[t]
      BY <2>2
    <2>3. ASSUME NEW t \in Turns, pc[t] = "record" /\ o \in delta[t]
          PROVE  <<"delta", t>> \in Places(o)
      BY <2>3 DEF Places
    <2>4. ASSUME NEW p \in Projects, o \in pending[p]
          PROVE  <<"pending", p>> \in Places(o)
      BY <2>4 DEF Places
    <2>5. ASSUME NEW t \in Turns, NEW p \in Projects, o \in batches[t][p]
          PROVE  <<"batch", <<t, p>>>> \in Places(o)
      BY <2>5 DEF Places
    <2>6. ASSUME NEW f \in offered, o \in f.ids
          PROVE  <<"offered", f>> \in Places(o)
      BY <2>6 DEF Places
    <2>7. QED
      BY <2>1, <2>2, <2>3, <2>4, <2>5, <2>6 DEF OnItsWay
  <1>2. IInv => NoneLost
    BY <1>1 DEF NoneLost
  <1>3. QED
    BY Inductive, <1>2, PTL

-----------------------------------------------------------------------------
\* The queue.  Where a turn still has a drain before it.
Ahead == {"working", "flush", "launching", "watched", "popped", "snapshotted", "record"}

\* Tracked workers have their hook before them, and an agent's callbacks come
\* before its turn ends.
Tracking ==
    /\ \A t \in active : pc[t] = "watched"
    /\ \A t \in Turns : unqueued[t] # {} => pc[t] = "working"

\* Somebody will look at what is queued, unless a watcher lost sight of its run.
Awaited(p) ==
    \/ \E t \in Turns : pc[t] \in Ahead
    \/ \E t \in Turns : pc[t] = "draining" /\ p \in todo
    \/ \E t \in Turns : phase[t] = "status_unknown"
QueueAwaited == \A p \in Projects : pending[p] # {} => Awaited(p)

\* A run that ended keeps its ending.
LEMMA EndingsStay ==
  ASSUME Typed, [Next]_vars, NEW t \in Turns, phase[t] \in Run!Endings
  PROVE  phase'[t] = phase[t]
  <1>1. phase \in [Turns -> Run!Phases]
    BY DEF Typed, RunTypes
  <1>2. CASE phase' = phase
    BY <1>2
  <1>3. ASSUME NEW u \in Turns, NEW x \in Run!Phases,
               phase[u] \notin Run!Endings, phase' = [phase EXCEPT ![u] = x]
        PROVE  phase'[t] = phase[t]
    BY <1>1, <1>3
  <1>4. ASSUME NEW u \in Turns, AgentStep(u) \/ WorkerPopped(u) \/ ForgetWorker(u)
        PROVE  \E x \in Run!Phases : phase[u] \notin Run!Endings /\ phase' = [phase EXCEPT ![u] = x]
    BY <1>4 DEF AgentStep, SkipWorker, PrepareWorker, LaunchRaises, WorkerStarted, WorkerPopped, ForgetWorker,
                Run!Drop, Run!Prepare, Run!Track, Run!Finish, Run!Abort, Run!LoseSight, Run!Unwatched, Run!Enter,
                Run!Endings, Run!Phases
  <1>5. ASSUME NEW u \in Turns,
               SnapshotOutputs(u) \/ CreditOutputs(u) \/ DrainStep(u) \/ FileStep(u) \/ WorkerSettles(u)
        PROVE  phase' = phase
    BY <1>5 DEF SnapshotOutputs, CreditOutputs, DrainStep, RecordWorker, FlushReady, Unlock, LinkerLaunched,
                LinkersDone, TakeReady, StartLinker, FileStep, AgentWrites, RecordObservationCreated,
                WorkerWrites, WorkerSettles, Run!Settle, runs
  <1>6. CASE ClearCounts \/ UNCHANGED vars
    BY <1>2, <1>6 DEF ClearCounts, vars, runs
  <1>7. QED
    BY <1>2, <1>3, <1>4, <1>5, <1>6 DEF Next, HookStep

LEMMA TrackingStep ==
  ASSUME Typed, Tracking, [Next]_vars
  PROVE  Tracking'
  <1>1. /\ pc \in [Turns -> Steps] /\ active \subseteq Turns
        /\ unqueued \in [Turns -> SUBSET Observations]
    BY DEF Typed, RunTypes, FileTypes, ActivityTypes
  <1> USE DEF Tracking
  <1>2. ASSUME NEW t \in Turns, NEW x \in Steps, pc' = [pc EXCEPT ![t] = x],
               unqueued' = unqueued, unqueued[t] = {} \/ pc[t] # "working",
               \/ active' = active /\ pc[t] # "watched"
               \/ active' = active \ {t}
               \/ active' = active \cup {t} /\ x = "watched"
        PROVE  Tracking'
    BY <1>1, <1>2
  <1>3. ASSUME NEW t \in Turns, AgentStep(t) PROVE Tracking'
    <2>1. \E x \in Steps : pc' = [pc EXCEPT ![t] = x] /\
              (active' = active \/ (active' = active \cup {t} /\ x = "watched"))
      BY <1>3 DEF AgentStep, SkipWorker, PrepareWorker, LaunchRaises, WorkerStarted, Go, Steps, activity
    <2>2. unqueued' = unqueued /\ (unqueued[t] = {} \/ pc[t] # "working") /\ pc[t] # "watched"
      BY <1>3 DEF AgentStep, SkipWorker, PrepareWorker, LaunchRaises, WorkerStarted, Go
    <2>3. QED
      BY <1>2, <2>1, <2>2
  <1>4. ASSUME NEW t \in Turns, HookStep(t) PROVE Tracking'
    <2>1. \E x \in Steps : pc' = [pc EXCEPT ![t] = x]
      BY <1>4 DEF HookStep, WorkerPopped, ForgetWorker, SnapshotOutputs, CreditOutputs, Go, Steps
    <2>2. unqueued' = unqueued /\ pc[t] # "working"
      BY <1>4 DEF HookStep, WorkerPopped, ForgetWorker, SnapshotOutputs, CreditOutputs, Go
    <2>3. (active' = active /\ pc[t] # "watched") \/ active' = active \ {t}
      BY <1>4 DEF HookStep, WorkerPopped, ForgetWorker, SnapshotOutputs, CreditOutputs, Go, activity
    <2>4. QED
      BY <1>2, <2>1, <2>2, <2>3
  <1>5. ASSUME NEW t \in Turns, DrainStep(t) PROVE Tracking'
    <2>1. unqueued' = unqueued /\ active' = active
      BY <1>5 DEF DrainStep, RecordWorker, FlushReady, Unlock, LinkerLaunched, LinkersDone, TakeReady, StartLinker, activity
    <2>2. \/ pc' = pc
          \/ pc[t] \notin {"working", "watched"} /\ \E x \in Steps : pc' = [pc EXCEPT ![t] = x]
      BY <1>5 DEF DrainStep, RecordWorker, FlushReady, Unlock, LinkerLaunched, LinkersDone, TakeReady, StartLinker, Go, Steps
    <2>3. QED
      BY <1>2, <2>1, <2>2
  <1>6. ASSUME NEW t \in Turns, NEW o \in Observations,
               AgentWrites(t, o) \/ RecordObservationCreated(t, o) \/ WorkerWrites(t, o)
        PROVE  Tracking'
    BY <1>1, <1>6 DEF AgentWrites, RecordObservationCreated, WorkerWrites, activity
  <1>7. ASSUME NEW t \in Turns, WorkerSettles(t) PROVE Tracking'
    BY <1>7 DEF WorkerSettles, activity
  <1>8. CASE ClearCounts \/ UNCHANGED vars
    BY <1>8 DEF ClearCounts, vars, activity
  <1>9. QED
    BY <1>3, <1>4, <1>5, <1>6, <1>7, <1>8 DEF Next, FileStep

LEMMA QueueAwaitedStep ==
  ASSUME Typed, Tracking, QueueAwaited, [Next]_vars
  PROVE  QueueAwaited'
  <1>1. /\ pc \in [Turns -> Steps] /\ phase \in [Turns -> Run!Phases]
        /\ pending \in [Projects -> SUBSET Observations] /\ active \subseteq Turns
    BY DEF Typed, RunTypes, ActivityTypes, SchedulerTypes
  <1>2. \A t \in Turns : phase[t] = "status_unknown" => phase'[t] = "status_unknown"
    BY EndingsStay DEF Run!Endings
  <1>3. ASSUME NEW t \in Turns, pc'[t] \in Ahead PROVE QueueAwaited'
    BY <1>3 DEF QueueAwaited, Awaited
  <1>4. ASSUME pc' = pc, pending' = pending, todo' = todo PROVE QueueAwaited'
    BY <1>2, <1>4 DEF QueueAwaited, Awaited
  <1>5. ASSUME NEW t \in Turns, AgentStep(t) \/ WorkerPopped(t) \/ SnapshotOutputs(t) \/ CreditOutputs(t)
        PROVE  QueueAwaited'
    <2>1. \E x \in Ahead : pc' = [pc EXCEPT ![t] = x]
      BY <1>5 DEF AgentStep, SkipWorker, PrepareWorker, LaunchRaises, WorkerStarted, WorkerPopped,
         SnapshotOutputs, CreditOutputs, Go, Ahead
    <2>2. QED
      BY <1>1, <1>3, <2>1
  <1>6. ASSUME NEW t \in Turns, ForgetWorker(t) PROVE QueueAwaited'
    <2>1. phase'[t] = "status_unknown"
      BY <1>1, <1>6 DEF ForgetWorker, Run!LoseSight, Run!Enter
    <2>2. QED
      BY <2>1 DEF QueueAwaited, Awaited
  <1>7. ASSUME NEW t \in Turns, RecordWorker(t) \/ FlushReady(t) PROVE QueueAwaited'
    <2>1. pc'[t] = "draining" /\ todo' = {p \in Projects : pending'[p] # {}}
      BY <1>1, <1>7 DEF RecordWorker, FlushReady, Go, Keys
    <2>2. QED
      BY <2>1 DEF QueueAwaited, Awaited
  <1>8. ASSUME NEW t \in Turns, NEW p \in Projects, TakeReady(t, p) PROVE QueueAwaited'
    <2>1. pc' = pc /\ todo' = todo \ {p}
      BY <1>8 DEF TakeReady
    <2>2. CASE active # {}
      <3>1. PICK w \in Turns : pc[w] = "watched"
        BY <1>1, <2>2 DEF Tracking
      <3>2. QED
        BY <1>3, <2>1, <3>1 DEF Ahead
    <2>3. CASE active = {}
      <3>1. pending'[p] = {} /\ \A q \in Projects : q # p => pending'[q] = pending[q]
        BY <1>1, <1>8, <2>3 DEF TakeReady, Popped
      <3>2. QED
        BY <1>2, <2>1, <3>1 DEF QueueAwaited, Awaited
    <2>4. QED
      BY <2>2, <2>3
  <1>9. ASSUME NEW t \in Turns, Unlock(t) PROVE QueueAwaited'
    <2>1. pc[t] = "draining" /\ pc' = [pc EXCEPT ![t] = "linking"] /\ todo = {} /\ pending' = pending
      BY <1>9 DEF Unlock, Go
    <2>2. \A u \in Turns : pc[u] \in Ahead => pc'[u] \in Ahead
      BY <1>1, <2>1 DEF Ahead
    <2>3. QED
      BY <1>2, <2>1, <2>2 DEF QueueAwaited, Awaited
  <1>10. ASSUME NEW t \in Turns,
                LinkerLaunched(t) \/ LinkersDone(t) \/ \E p \in Projects : StartLinker(t, p)
         PROVE  QueueAwaited'
    <2>1. /\ pc[t] \in {"linking", "in_launch"} /\ \E x \in Steps : pc' = [pc EXCEPT ![t] = x]
          /\ pending' = pending /\ todo' = todo
      BY <1>10 DEF LinkerLaunched, LinkersDone, StartLinker, Go, Steps, scheduler
    <2>2. \A u \in Turns : pc[u] \in Ahead \cup {"draining"} => pc'[u] = pc[u]
      BY <1>1, <2>1 DEF Ahead
    <2>3. QED
      BY <1>2, <2>1, <2>2 DEF QueueAwaited, Awaited
  <1>11. ASSUME NEW t \in Turns, NEW o \in Observations, RecordObservationCreated(t, o)
         PROVE  QueueAwaited'
    <2>1. pc[t] = "working" /\ pc' = pc
      BY <1>11 DEF RecordObservationCreated, Tracking
    <2>2. QED
      BY <1>3, <2>1 DEF Ahead
  <1>12. ASSUME NEW t \in Turns, NEW o \in Observations, AgentWrites(t, o) \/ WorkerWrites(t, o)
         PROVE  QueueAwaited'
    BY <1>4, <1>12 DEF AgentWrites, WorkerWrites, scheduler
  <1>13. ASSUME NEW t \in Turns, WorkerSettles(t) PROVE QueueAwaited'
    BY <1>4, <1>13 DEF WorkerSettles, scheduler
  <1>14. CASE ClearCounts \/ UNCHANGED vars
    BY <1>4, <1>14 DEF ClearCounts, vars, scheduler
  <1>15. QED
    BY <1>5, <1>6, <1>7, <1>8, <1>9, <1>10, <1>11, <1>12, <1>13, <1>14
       DEF Next, HookStep, DrainStep, FileStep

-----------------------------------------------------------------------------
\* What a worker wrote.
Own(t) == {o \in disk \ direct : author[o] = t}

\* Only a submitted worker has files of its own, and none of them is older than
\* the snapshot taken before it.
Submitting ==
    /\ \A t \in Turns : pc[t] = "working" => t \notin submitted
    /\ \A t \in Turns : before[t] \subseteq disk
    /\ \A o \in Observations : author[o] \in Turns => o \in disk
    /\ \A t \in Turns, o \in disk \ direct : author[o] = t => t \in submitted /\ o \notin before[t]

\* A worker that its watcher saw end can write no more; once its hook has listed
\* the directory its files are in the list, and then counted.
Over == {"finished", "aborted"}
Seen ==
    \A t \in Turns : phase[t] \in Over =>
        /\ outcome[t] # "none"
        /\ pc[t] = "snapshotted" => Own(t) \subseteq delta[t]
        /\ pc[t] \notin Counting => Own(t) \subseteq counted

LEMMA SubmittingStep ==
  ASSUME Typed, Submitting, [Next]_vars
  PROVE  Submitting'
  <1>1. /\ pc \in [Turns -> Steps] /\ before \in [Turns -> SUBSET Observations]
        /\ author \in [Observations -> Turns \cup {None}] /\ disk \subseteq Observations
        /\ submitted \subseteq Turns /\ direct \subseteq disk
    BY DEF Typed, RunTypes, FileTypes, ActivityTypes
  <1> USE DEF Submitting
  <1>2. ASSUME UNCHANGED files, submitted' = submitted, before' = before,
               \A t \in Turns : pc'[t] = "working" => pc[t] = "working"
        PROVE  Submitting'
    BY <1>2 DEF files
  <1>3. ASSUME NEW t \in Turns, SkipWorker(t) \/ LaunchRaises(t) \/ WorkerStarted(t) \/ HookStep(t) PROVE Submitting'
    <2>1. UNCHANGED files /\ submitted' = submitted /\ before' = before
      BY <1>3 DEF SkipWorker, LaunchRaises, WorkerStarted, HookStep, WorkerPopped, ForgetWorker,
         SnapshotOutputs, CreditOutputs, runs
    <2>2. \E x \in Steps \ {"working"} : pc' = [pc EXCEPT ![t] = x]
      BY <1>3 DEF SkipWorker, LaunchRaises, WorkerStarted, HookStep, WorkerPopped, ForgetWorker,
         SnapshotOutputs, CreditOutputs, Go, Steps
    <2>3. QED
      BY <1>1, <1>2, <2>1, <2>2
  <1>4. ASSUME NEW t \in Turns, DrainStep(t) PROVE Submitting'
    <2>1. UNCHANGED files /\ submitted' = submitted /\ before' = before
      BY <1>4 DEF DrainStep, RecordWorker, FlushReady, Unlock, LinkerLaunched, LinkersDone, TakeReady, StartLinker, runs
    <2>2. pc' = pc \/ \E x \in Steps \ {"working"} : pc' = [pc EXCEPT ![t] = x]
      BY <1>4 DEF DrainStep, RecordWorker, FlushReady, Unlock, LinkerLaunched, LinkersDone, TakeReady, StartLinker, Go, Steps
    <2>3. QED
      BY <1>1, <1>2, <2>1, <2>2
  <1>5. ASSUME NEW t \in Turns, PrepareWorker(t) PROVE Submitting'
    <2>1. /\ pc[t] = "working" /\ pc' = [pc EXCEPT ![t] = "launching"] /\ UNCHANGED files
          /\ submitted' = submitted \cup {t} /\ before' = [before EXCEPT ![t] = disk]
      BY <1>5 DEF PrepareWorker, Go
    <2>2. \A o \in disk \ direct : author[o] # t
      BY <2>1
    <2>3. QED
      BY <1>1, <2>1, <2>2 DEF files
  <1>6. ASSUME NEW t \in Turns, NEW o \in Observations, AgentWrites(t, o) PROVE Submitting'
    <2>1. /\ o \notin disk /\ disk' = disk \cup {o} /\ author' = [author EXCEPT ![o] = t]
          /\ direct' = direct \cup {o} /\ pc' = pc /\ submitted' = submitted /\ before' = before
      BY <1>6 DEF AgentWrites, Write, runs
    <2>2. disk' \ direct' = disk \ direct
      BY <1>1, <2>1
    <2>3. \A q \in Observations \ {o} : author'[q] = author[q]
      BY <1>1, <2>1
    <2>4. QED
      BY <1>1, <2>1, <2>2, <2>3
  <1>7. ASSUME NEW t \in Turns, NEW o \in Observations, WorkerWrites(t, o) PROVE Submitting'
    <2>1. /\ t \in submitted /\ o \notin disk /\ disk' = disk \cup {o} /\ author' = [author EXCEPT ![o] = t]
          /\ direct' = direct /\ pc' = pc /\ submitted' = submitted /\ before' = before
      BY <1>7 DEF WorkerWrites, Write, runs
    <2>2. author'[o] = t /\ \A q \in Observations \ {o} : author'[q] = author[q]
      BY <1>1, <2>1
    <2>3. \A u \in Turns : o \notin before[u]
      BY <2>1
    <2>4. QED
      BY <1>1, <2>1, <2>2, <2>3
  <1>8. ASSUME NEW t \in Turns, NEW o \in Observations, RecordObservationCreated(t, o) PROVE Submitting'
    BY <1>2, <1>8 DEF RecordObservationCreated, runs
  <1>9. ASSUME NEW t \in Turns, WorkerSettles(t) PROVE Submitting'
    BY <1>2, <1>9 DEF WorkerSettles
  <1>10. CASE ClearCounts \/ UNCHANGED vars
    BY <1>2, <1>10 DEF ClearCounts, vars, runs
  <1>11. QED
    BY <1>3, <1>4, <1>5, <1>6, <1>7, <1>8, <1>9, <1>10 DEF Next, AgentStep, FileStep

\* Files of a worker appear only while its run works.
LEMMA OwnGrows ==
  ASSUME Typed, Submitting, [Next]_vars, NEW t \in Turns, outcome[t] # "none"
  PROVE  Own(t)' \subseteq Own(t)
  <1>1. author \in [Observations -> Turns \cup {None}] /\ disk \subseteq Observations /\ direct \subseteq disk
    BY DEF Typed, FileTypes
  <1>2. CASE UNCHANGED files
    BY <1>2 DEF files, Own
  <1>3. ASSUME NEW u \in Turns, NEW o \in Observations, AgentWrites(u, o) PROVE Own(t)' \subseteq Own(t)
    BY <1>1, <1>3 DEF AgentWrites, Write, Own
  <1>4. ASSUME NEW u \in Turns, NEW o \in Observations, WorkerWrites(u, o) PROVE Own(t)' \subseteq Own(t)
    <2>1. u # t /\ disk' = disk \cup {o} /\ author' = [author EXCEPT ![o] = u] /\ direct' = direct
      BY <1>4 DEF WorkerWrites, Write
    <2>2. QED
      BY <1>1, <2>1 DEF Own
  <1>5. ASSUME NEW u \in Turns, NEW o \in Observations, RecordObservationCreated(u, o) PROVE UNCHANGED files
    BY <1>5 DEF RecordObservationCreated
  <1>6. ASSUME NEW u \in Turns, AgentStep(u) \/ HookStep(u) \/ DrainStep(u) \/ WorkerSettles(u) PROVE UNCHANGED files
    BY <1>6 DEF AgentStep, HookStep, DrainStep, SkipWorker, PrepareWorker, LaunchRaises, WorkerStarted, WorkerPopped,
       ForgetWorker, SnapshotOutputs, CreditOutputs, RecordWorker, FlushReady, Unlock, LinkerLaunched, LinkersDone,
       TakeReady, StartLinker, WorkerSettles
  <1>7. CASE ClearCounts \/ UNCHANGED vars
    BY <1>2, <1>7 DEF ClearCounts, vars
  <1>8. QED
    BY <1>2, <1>3, <1>4, <1>5, <1>6, <1>7 DEF Next, FileStep

\* Outcomes last, and a hook that says how a run ended knows its outcome.
LEMMA OutcomesStay ==
  ASSUME Typed, [Next]_vars, NEW t \in Turns
  PROVE  /\ outcome[t] # "none" => outcome'[t] # "none"
         /\ phase'[t] \in Over /\ phase[t] \notin Over => outcome[t] # "none" /\ pc'[t] = "popped"
  <1>1. /\ pc \in [Turns -> Steps] /\ phase \in [Turns -> Run!Phases]
        /\ outcome \in [Turns -> Run!Outcomes \cup {"none"}]
    BY DEF Typed, RunTypes
  <1> USE DEF Over
  <1>2. ASSUME NEW u \in Turns, WorkerSettles(u)
        PROVE  phase' = phase /\ (outcome[t] # "none" => outcome'[t] # "none")
    BY <1>1, <1>2 DEF WorkerSettles, Run!Settle
  <1>3. ASSUME NEW u \in Turns, WorkerPopped(u)
        PROVE  /\ outcome' = outcome
               /\ phase'[t] \in Over /\ phase[t] \notin Over => outcome[t] # "none" /\ pc'[t] = "popped"
    BY <1>1, <1>3 DEF WorkerPopped, Go, Run!Finish, Run!Abort, Run!Unwatched, Run!Enter, Run!Failures
  <1>4. ASSUME NEW u \in Turns, AgentStep(u) \/ ForgetWorker(u)
        PROVE  outcome' = outcome /\ (phase'[t] \in Over => phase[t] \in Over)
    BY <1>1, <1>4 DEF AgentStep, SkipWorker, PrepareWorker, LaunchRaises, WorkerStarted, ForgetWorker,
       Run!Drop, Run!Prepare, Run!Track, Run!LoseSight, Run!Enter
  <1>5. ASSUME NEW u \in Turns, SnapshotOutputs(u) \/ CreditOutputs(u) \/ DrainStep(u) \/ FileStep(u)
        PROVE  outcome' = outcome /\ phase' = phase
    BY <1>5 DEF SnapshotOutputs, CreditOutputs, DrainStep, RecordWorker, FlushReady, Unlock, LinkerLaunched,
       LinkersDone, TakeReady, StartLinker, FileStep, AgentWrites, RecordObservationCreated, WorkerWrites, runs
  <1>6. CASE ClearCounts \/ UNCHANGED vars
    BY <1>6 DEF ClearCounts, vars, runs
  <1>7. QED
    BY <1>2, <1>3, <1>4, <1>5, <1>6 DEF Next, HookStep

\* Every step is a listing, a count, or leaves both as they are.
LEMMA QuietSteps ==
  ASSUME Typed, [Next]_vars
  PROVE  \/ \E u \in Turns : SnapshotOutputs(u) \/ CreditOutputs(u)
         \/ Uncounting /\ \A t \in Turns : pc'[t] = "snapshotted" => pc[t] = "snapshotted"
  <1> SUFFICES ASSUME ~ \E u \in Turns : SnapshotOutputs(u) \/ CreditOutputs(u)
               PROVE  \A t \in Turns : pc'[t] = "snapshotted" => pc[t] = "snapshotted"
    BY HookSteps
  <1>1. pc \in [Turns -> Steps]
    BY DEF Typed, RunTypes
  <1>2. CASE pc' = pc
    BY <1>2
  <1>3. ASSUME NEW u \in Turns, AgentStep(u) \/ DrainStep(u) \/ WorkerPopped(u) \/ ForgetWorker(u)
        PROVE  pc' = pc \/ \E x \in Steps \ {"snapshotted"} : pc' = [pc EXCEPT ![u] = x]
    BY <1>3 DEF AgentStep, DrainStep, SkipWorker, PrepareWorker, LaunchRaises, WorkerStarted, WorkerPopped,
       ForgetWorker, RecordWorker, FlushReady, Unlock, LinkerLaunched, LinkersDone, TakeReady, StartLinker, Go, Steps
  <1>4. ASSUME NEW u \in Turns, NEW x \in Steps \ {"snapshotted"}, pc' = [pc EXCEPT ![u] = x]
        PROVE  \A t \in Turns : pc'[t] = "snapshotted" => pc[t] = "snapshotted"
    BY <1>1, <1>4
  <1>5. ASSUME NEW u \in Turns, FileStep(u) \/ WorkerSettles(u) PROVE pc' = pc
    BY <1>5 DEF FileStep, AgentWrites, RecordObservationCreated, WorkerWrites, WorkerSettles
  <1>6. CASE ClearCounts \/ UNCHANGED vars
    BY <1>2, <1>6 DEF ClearCounts, vars
  <1>7. QED
    BY <1>2, <1>3, <1>4, <1>5, <1>6 DEF Next, HookStep

LEMMA SeenStep ==
  ASSUME Typed, Submitting, Seen, [Next]_vars
  PROVE  Seen'
  <1> SUFFICES ASSUME NEW t \in Turns, phase'[t] \in Over
               PROVE  /\ outcome'[t] # "none"
                      /\ pc'[t] = "snapshotted" => Own(t)' \subseteq delta'[t]
                      /\ pc'[t] \notin Counting => Own(t)' \subseteq counted'
    BY DEF Seen
  <1>1. pc \in [Turns -> Steps] /\ delta \in [Turns -> SUBSET Observations]
    BY DEF Typed, RunTypes, ActivityTypes
  <1>2. CASE phase[t] \notin Over
    <2>1. outcome[t] # "none" /\ outcome'[t] # "none" /\ pc'[t] = "popped"
      BY <1>2, OutcomesStay
    <2>2. QED
      BY <2>1 DEF Counting
  <1>3. CASE phase[t] \in Over
    <2>1. outcome[t] # "none" /\ outcome'[t] # "none" /\ Own(t)' \subseteq Own(t)
      BY <1>3, OutcomesStay, OwnGrows DEF Seen
    <2>2. CASE Uncounting /\ (pc'[t] = "snapshotted" => pc[t] = "snapshotted")
      <3>1. delta' = delta /\ counted' = counted /\ (pc'[t] \notin Counting => pc[t] \notin Counting)
        BY <2>2 DEF Uncounting
      <3>2. QED
        BY <1>3, <2>1, <2>2, <3>1 DEF Seen
    <2>3. ASSUME NEW u \in Turns, SnapshotOutputs(u)
          PROVE  /\ pc'[t] = "snapshotted" => Own(t)' \subseteq delta'[t]
                 /\ pc'[t] \notin Counting => Own(t)' \subseteq counted'
      <3>1. /\ pc[u] = "popped" /\ pc' = [pc EXCEPT ![u] = "snapshotted"]
            /\ delta' = [delta EXCEPT ![u] = disk \ before[u]] /\ counted' = counted
        BY <2>3 DEF SnapshotOutputs, Go, activity
      <3>2. Own(t) \subseteq disk \ before[t]
        BY DEF Submitting, Own
      <3>3. QED
        BY <1>1, <1>3, <2>1, <3>1, <3>2 DEF Seen, Counting
    <2>4. ASSUME NEW u \in Turns, CreditOutputs(u)
          PROVE  /\ pc'[t] = "snapshotted" => Own(t)' \subseteq delta'[t]
                 /\ pc'[t] \notin Counting => Own(t)' \subseteq counted'
      <3>1. /\ pc[u] = "snapshotted" /\ pc' = [pc EXCEPT ![u] = "record"]
            /\ delta' = [delta EXCEPT ![u] = Uncounted(u)] /\ counted' = counted \cup delta[u]
        BY <2>4 DEF CreditOutputs, Go
      <3>2. CASE u = t
        BY <1>1, <1>3, <2>1, <3>1, <3>2 DEF Seen, Counting
      <3>3. CASE u # t
        <4>1. pc'[t] = pc[t] /\ delta'[t] = delta[t]
          BY <1>1, <3>1, <3>3
        <4>2. QED
          BY <1>3, <2>1, <3>1, <4>1 DEF Seen
      <3>4. QED
        BY <3>2, <3>3
    <2>5. QED
      BY <2>1, <2>2, <2>3, <2>4, QuietSteps
  <1>4. QED
    BY <1>2, <1>3

-----------------------------------------------------------------------------
\* The way to a linker.  What waits anywhere was counted, or is an agent's.
Worker(o) == o \in disk \ direct
InHook(t, o) == pc[t] = "record" /\ o \in delta[t]
InBatch(t, p, o) == o \in batches[t][p]
Offered(f, o) == o \in f.ids
Onward(o) ==
    \/ \E p \in Projects : o \in pending[p]
    \/ \E t \in Turns, p \in Projects : InBatch(t, p, o)
    \/ \E f \in offered : Offered(f, o)

\* It waits in one place.
AtMostOne(o) ==
    /\ \A t \in Turns : InHook(t, o) => ~Onward(o)
    /\ \A p, q \in Projects : o \in pending[p] /\ o \in pending[q] => p = q
    /\ \A t, u \in Turns, p, q \in Projects : InBatch(t, p, o) /\ InBatch(u, q, o) => t = u /\ p = q
    /\ \A f, g \in offered : Offered(f, o) /\ Offered(g, o) => f = g
    /\ \A p \in Projects, t \in Turns, q \in Projects : ~(o \in pending[p] /\ InBatch(t, q, o))
    /\ \A p \in Projects, f \in offered : ~(o \in pending[p] /\ Offered(f, o))
    /\ \A t \in Turns, q \in Projects, f \in offered : ~(InBatch(t, q, o) /\ Offered(f, o))

Sent ==
    /\ \A t \in Turns : unqueued[t] \subseteq direct
    /\ \A o \in Observations : Onward(o) => o \in counted \cup direct
    /\ \A o \in Observations : Worker(o) => AtMostOne(o)

\* A step that moves nothing onward and shows no hook anything new.
LEMMA NothingMoves ==
  ASSUME Typed, Sent, [Next]_vars,
         UNCHANGED <<pending, batches, offered>>, counted \subseteq counted', direct \subseteq direct',
         \A t \in Turns : unqueued'[t] \subseteq direct',
         \A o \in Observations : Worker(o)' /\ ~Worker(o) => ~Onward(o),
         \A t \in Turns, o \in Observations : Worker(o) /\ InHook(t, o)' => InHook(t, o) \/ ~Onward(o)
  PROVE  Sent'
  <1>1. \A o \in Observations : Onward(o)' <=> Onward(o)
    BY DEF Onward, InBatch, Offered
  <1>2. \A o \in Observations : Onward(o)' => o \in counted' \cup direct'
    BY <1>1 DEF Sent
  <1>3. ASSUME NEW o \in Observations, Worker(o)' PROVE AtMostOne(o)'
    <2>1. CASE Worker(o)
      <3>1. AtMostOne(o)
        BY <2>1 DEF Sent
      <3>2. \A t \in Turns : InHook(t, o)' => ~Onward(o)'
        BY <1>1, <2>1, <3>1 DEF AtMostOne
      <3>3. QED
        BY <3>1, <3>2 DEF AtMostOne, InBatch, Offered
    <2>2. CASE ~Worker(o)
      <3>1. ~Onward(o)'
        BY <1>1, <1>3, <2>2
      <3>2. QED
        BY <3>1 DEF AtMostOne, Onward
    <2>3. QED
      BY <2>1, <2>2
  <1>4. QED
    BY <1>2, <1>3 DEF Sent

LEMMA SentFiles ==
  ASSUME Typed, Sent, [Next]_vars, NEW t \in Turns, NEW o \in Observations,
         AgentWrites(t, o) \/ WorkerWrites(t, o)
  PROVE  Sent'
  <1>1. /\ disk \subseteq Observations /\ direct \subseteq disk /\ counted \subseteq disk
        /\ unqueued \in [Turns -> SUBSET Observations]
    BY DEF Typed, FileTypes, ActivityTypes
  <1>2. /\ UNCHANGED <<pending, batches, offered>> /\ counted' = counted /\ pc' = pc /\ delta' = delta
        /\ o \notin disk /\ disk' = disk \cup {o}
    BY DEF AgentWrites, WorkerWrites, Write, scheduler, activity
  <1>3. direct \subseteq direct'
    BY DEF AgentWrites, WorkerWrites
  <1>4. \A u \in Turns : unqueued'[u] \subseteq direct'
    BY <1>1, <1>3 DEF AgentWrites, WorkerWrites, Sent
  <1>5. \A q \in Observations : Worker(q)' /\ ~Worker(q) => ~Onward(q)
    BY <1>1, <1>2, <1>3 DEF Sent, Worker
  <1>6. \A u \in Turns, q \in Observations : InHook(u, q)' => InHook(u, q)
    BY <1>2 DEF InHook
  <1>7. QED
    BY <1>2, <1>3, <1>4, <1>5, <1>6, NothingMoves

LEMMA SentCredit ==
  ASSUME Typed, Sent, [Next]_vars, NEW t \in Turns, CreditOutputs(t)
  PROVE  Sent'
  <1>1. /\ pc \in [Turns -> Steps] /\ delta \in [Turns -> SUBSET Observations]
    BY DEF Typed, RunTypes, ActivityTypes
  <1>2. /\ UNCHANGED <<pending, batches, offered, disk, direct, unqueued>> /\ counted \subseteq counted'
        /\ pc' = [pc EXCEPT ![t] = "record"] /\ delta' = [delta EXCEPT ![t] = delta[t] \ counted]
    BY DEF CreditOutputs, Go, Uncounted, files, scheduler
  <1>3. \A u \in Turns, o \in Observations : Worker(o) /\ InHook(u, o)' => InHook(u, o) \/ ~Onward(o)
    <2>1. ASSUME NEW o \in Observations, Worker(o), InHook(t, o)' PROVE ~Onward(o)
      BY <1>1, <1>2, <2>1 DEF InHook, Worker, Sent
    <2>2. \A u \in Turns \ {t}, o \in Observations : InHook(u, o)' => InHook(u, o)
      BY <1>1, <1>2 DEF InHook
    <2>3. QED
      BY <2>1, <2>2
  <1>4. \A o \in Observations : Worker(o)' => Worker(o)
    BY <1>2 DEF Worker
  <1>5. QED
    BY <1>2, <1>3, <1>4, NothingMoves DEF Sent

\* All that touches neither files nor what waits.
LEMMA SentQuiet ==
  ASSUME Typed, Sent, [Next]_vars, UNCHANGED <<files, unqueued, counted, pending, batches, offered>>,
         \A t \in Turns, o \in Observations : InHook(t, o)' => InHook(t, o)
  PROVE  Sent'
  <1>1. UNCHANGED <<disk, direct>>
    BY DEF files
  <1>2. \A o \in Observations : Worker(o)' => Worker(o)
    BY <1>1 DEF Worker
  <1>3. QED
    BY <1>1, <1>2, NothingMoves DEF Sent

\* A callback of an agent queues a file of the agent's.
LEMMA SentCallback ==
  ASSUME Typed, Sent, NEW t \in Turns, NEW o \in Observations, RecordObservationCreated(t, o)
  PROVE  Sent'
  <1>1. /\ pending \in [Projects -> SUBSET Observations] /\ unqueued \in [Turns -> SUBSET Observations]
        /\ ProjectOf[t] \in Projects
    BY MemoryPipelineAssumption DEF Typed, FileTypes, SchedulerTypes
  <1>2. /\ o \in direct /\ UNCHANGED <<disk, direct, counted, pc, delta, batches, offered>>
        /\ pending' = [pending EXCEPT ![ProjectOf[t]] = pending[ProjectOf[t]] \cup {o}]
        /\ \A u \in Turns : unqueued'[u] \subseteq unqueued[u]
    BY <1>1 DEF RecordObservationCreated, Queue, Sent, files, activity
  <1>3. \A q \in Observations \ {o}, p \in Projects : q \in pending'[p] <=> q \in pending[p]
    BY <1>1, <1>2
  <1>4. \A q \in Observations \ {o} : Onward(q)' <=> Onward(q)
    BY <1>2, <1>3 DEF Onward, InBatch, Offered
  <1>5. \A q \in Observations : Onward(q)' => q \in counted' \cup direct'
    BY <1>2, <1>4 DEF Sent
  <1>6. ASSUME NEW q \in Observations, Worker(q)' PROVE AtMostOne(q)'
    <2>1. q # o /\ Worker(q)
      BY <1>2, <1>6 DEF Worker
    <2>2. AtMostOne(q)
      BY <2>1 DEF Sent
    <2>3. QED
      BY <1>2, <1>3, <1>4, <2>1, <2>2 DEF AtMostOne, InHook, InBatch, Offered
  <1>7. QED
    BY <1>2, <1>5, <1>6 DEF Sent

\* A hook queues what it was credited with, which nobody else was.
LEMMA SentRecord ==
  ASSUME Typed, CreditedCounted, CreditedOnce, Sent, NEW t \in Turns, RecordWorker(t)
  PROVE  Sent'
  <1>1. /\ pending \in [Projects -> SUBSET Observations] /\ pc \in [Turns -> Steps]
        /\ delta \in [Turns -> SUBSET Observations] /\ ProjectOf[t] \in Projects
    BY MemoryPipelineAssumption DEF Typed, RunTypes, ActivityTypes, SchedulerTypes
  <1>2. /\ pc[t] = "record" /\ pc' = [pc EXCEPT ![t] = "draining"]
        /\ UNCHANGED <<disk, direct, counted, unqueued, delta, batches, offered>>
        /\ pending' = [pending EXCEPT ![ProjectOf[t]] = pending[ProjectOf[t]] \cup delta[t]]
    BY <1>1 DEF RecordWorker, Queue, Go, files, activity
  <1>3. \A o \in Observations, p \in Projects :
            o \in pending'[p] <=> o \in pending[p] \/ (p = ProjectOf[t] /\ o \in delta[t])
    BY <1>1, <1>2
  <1>4. delta[t] \subseteq counted
    BY <1>2 DEF CreditedCounted
  <1>5. \A o \in Observations : Onward(o)' => Onward(o) \/ o \in delta[t]
    BY <1>2, <1>3 DEF Onward, InBatch, Offered
  <1>6. \A o \in Observations : Onward(o)' => o \in counted' \cup direct'
    BY <1>2, <1>4, <1>5 DEF Sent
  <1>7. \A u \in Turns, o \in Observations : InHook(u, o)' => u # t /\ InHook(u, o)
    BY <1>1, <1>2 DEF InHook
  <1>8. ASSUME NEW o \in Observations, Worker(o)' PROVE AtMostOne(o)'
    <2>1. AtMostOne(o)
      BY <1>2, <1>8 DEF Sent, Worker
    <2>2. CASE o \notin delta[t]
      <3>1. \A p \in Projects : o \in pending'[p] <=> o \in pending[p]
        BY <1>3, <2>2
      <3>2. \A u \in Turns : InHook(u, o)' => ~Onward(o)'
        BY <1>5, <1>7, <2>1, <2>2 DEF AtMostOne
      <3>3. QED
        BY <1>2, <2>1, <3>1, <3>2 DEF AtMostOne, InBatch, Offered
    <2>3. CASE o \in delta[t]
      <3>1. ~Onward(o)
        BY <1>2, <2>1, <2>3 DEF AtMostOne, InHook
      <3>2. ASSUME NEW u \in Turns, InHook(u, o)' PROVE FALSE
        <4>1. u # t /\ InHook(u, o)
          BY <1>7, <3>2
        <4>2. o \in Credited(u) /\ o \in Credited(t)
          BY <1>2, <2>3, <4>1 DEF Credited, InHook
        <4>3. QED
          BY <4>1, <4>2 DEF CreditedOnce
      <3>3. \A p \in Projects : o \in pending'[p] => p = ProjectOf[t]
        BY <1>3, <3>1 DEF Onward
      <3>4. /\ \A u \in Turns, p \in Projects : ~InBatch(u, p, o)'
            /\ \A f \in offered' : ~Offered(f, o)'
        BY <1>2, <3>1 DEF Onward, InBatch, Offered
      <3>5. QED
        BY <3>2, <3>3, <3>4 DEF AtMostOne
    <2>4. QED
      BY <2>2, <2>3
  <1>9. QED
    BY <1>2, <1>6, <1>8 DEF Sent

\* A drain takes a key's observations out of the queue into an empty batch.
LEMMA SentTake ==
  ASSUME Typed, BatchesFresh, Sent, NEW t \in Turns, NEW p \in Projects, TakeReady(t, p), active = {}
  PROVE  Sent'
  <1>1. /\ pending \in [Projects -> SUBSET Observations]
        /\ batches \in [Turns -> [Projects -> SUBSET Observations]]
    BY DEF Typed, SchedulerTypes
  <1>2. /\ UNCHANGED <<disk, direct, counted, unqueued, pc, delta, offered>>
        /\ batches' = [batches EXCEPT ![t] = [batches[t] EXCEPT ![p] = pending[p]]]
        /\ pending' = [pending EXCEPT ![p] = {}] /\ batches[t][p] = {}
    BY DEF TakeReady, Popped, BatchesFresh, files, activity
  <1>3. pending'[p] = {} /\ \A q \in Projects \ {p} : pending'[q] = pending[q]
    BY <1>1, <1>2
  <1>4. batches'[t][p] = pending[p] /\ \A q \in Projects \ {p} : batches'[t][q] = batches[t][q]
    BY <1>1, <1>2
  <1>5. \A u \in Turns \ {t} : batches'[u] = batches[u]
    BY <1>1, <1>2
  <1>6. \A u \in Turns, q \in Projects, o \in Observations :
            InBatch(u, q, o)' <=> IF u = t /\ q = p THEN o \in pending[p] ELSE InBatch(u, q, o)
    BY <1>4, <1>5 DEF InBatch
  <1>7. \A o \in Observations : Onward(o)' => Onward(o)
    BY <1>2, <1>3, <1>6 DEF Onward, Offered
  <1>8. \A o \in Observations : Onward(o)' => o \in counted' \cup direct'
    BY <1>2, <1>7 DEF Sent
  <1>9. ASSUME NEW o \in Observations, Worker(o)' PROVE AtMostOne(o)'
    <2>1. AtMostOne(o)
      BY <1>2, <1>9 DEF Sent, Worker
    <2>2. \A u \in Turns : InHook(u, o)' => ~Onward(o)'
      BY <1>2, <1>7, <2>1 DEF AtMostOne, InHook
    <2>3. \A q, r \in Projects : o \in pending'[q] /\ o \in pending'[r] => q = r
      BY <1>3, <2>1 DEF AtMostOne
    <2>4. \A u, v \in Turns, q, r \in Projects : InBatch(u, q, o)' /\ InBatch(v, r, o)' => u = v /\ q = r
      BY <1>6, <2>1 DEF AtMostOne
    <2>5. \A q \in Projects, u \in Turns, r \in Projects : ~(o \in pending'[q] /\ InBatch(u, r, o)')
      BY <1>3, <1>6, <2>1 DEF AtMostOne
    <2>6. \A q \in Projects, f \in offered' : ~(o \in pending'[q] /\ Offered(f, o))
      BY <1>2, <1>3, <2>1 DEF AtMostOne
    <2>7. \A u \in Turns, q \in Projects, f \in offered' : ~(InBatch(u, q, o)' /\ Offered(f, o))
      BY <1>2, <1>6, <2>1 DEF AtMostOne
    <2>8. \A f, g \in offered' : Offered(f, o) /\ Offered(g, o) => f = g
      BY <1>2, <2>1 DEF AtMostOne
    <2>9. QED
      BY <2>2, <2>3, <2>4, <2>5, <2>6, <2>7, <2>8 DEF AtMostOne, Offered
  <1>10. QED
    BY <1>2, <1>8, <1>9 DEF Sent

\* A launch offers a batch and leaves none.
LEMMA SentLaunch ==
  ASSUME Typed, Sent, NEW t \in Turns, NEW p \in Projects, StartLinker(t, p)
  PROVE  Sent'
  <1> DEFINE new == [by |-> t, project |-> p, ids |-> batches[t][p]]
  <1>1. /\ batches \in [Turns -> [Projects -> SUBSET Observations]] /\ pc \in [Turns -> Steps]
    BY DEF Typed, RunTypes, SchedulerTypes
  <1>2. /\ UNCHANGED <<disk, direct, counted, unqueued, delta, pending>>
        /\ pc[t] = "linking" /\ pc' = [pc EXCEPT ![t] = "in_launch"]
        /\ batches' = [batches EXCEPT ![t] = [batches[t] EXCEPT ![p] = {}]]
        /\ offered' = offered \cup {new}
    BY DEF StartLinker, Go, files, activity
  <1>3. batches'[t][p] = {} /\ \A q \in Projects \ {p} : batches'[t][q] = batches[t][q]
    BY <1>1, <1>2
  <1>4. \A u \in Turns \ {t} : batches'[u] = batches[u]
    BY <1>1, <1>2
  <1>5. \A u \in Turns, q \in Projects, o \in Observations :
            InBatch(u, q, o)' <=> (u # t \/ q # p) /\ InBatch(u, q, o)
    BY <1>3, <1>4 DEF InBatch
  <1>6. \A o \in Observations : Offered(new, o) <=> InBatch(t, p, o)
    BY DEF Offered, InBatch
  <1> HIDE DEF new
  <1>7. \A o \in Observations : Onward(o)' => Onward(o)
    <2> SUFFICES ASSUME NEW o \in Observations, Onward(o)' PROVE Onward(o)
      OBVIOUS
    <2>1. CASE \E q \in Projects : o \in pending'[q]
      BY <1>2, <2>1 DEF Onward
    <2>2. CASE \E u \in Turns, q \in Projects : InBatch(u, q, o)'
      BY <1>5, <2>2 DEF Onward
    <2>3. CASE \E f \in offered' : Offered(f, o)
      BY <1>2, <1>6, <2>3 DEF Onward
    <2>4. QED
      BY <2>1, <2>2, <2>3 DEF Onward, Offered
  <1>8. \A o \in Observations : Onward(o)' => o \in counted' \cup direct'
    BY <1>2, <1>7 DEF Sent
  <1>9. \A u \in Turns, o \in Observations : InHook(u, o)' => InHook(u, o)
    BY <1>1, <1>2 DEF InHook
  <1>10. ASSUME NEW o \in Observations, Worker(o)' PROVE AtMostOne(o)'
    <2>1. AtMostOne(o)
      BY <1>2, <1>10 DEF Sent, Worker
    <2>2. \A u \in Turns : InHook(u, o)' => ~Onward(o)'
      BY <1>7, <1>9, <2>1 DEF AtMostOne
    <2>3. \A q, r \in Projects : o \in pending'[q] /\ o \in pending'[r] => q = r
      BY <1>2, <2>1 DEF AtMostOne
    <2>4. \A u, v \in Turns, q, r \in Projects : InBatch(u, q, o)' /\ InBatch(v, r, o)' => u = v /\ q = r
      BY <1>5, <2>1 DEF AtMostOne
    <2>5. \A q \in Projects, u \in Turns, r \in Projects : ~(o \in pending'[q] /\ InBatch(u, r, o)')
      BY <1>2, <1>5, <2>1 DEF AtMostOne
    <2>6. \A q \in Projects, f \in offered' : ~(o \in pending'[q] /\ Offered(f, o))
      BY <1>2, <1>6, <2>1 DEF AtMostOne
    <2>7. \A u \in Turns, q \in Projects, f \in offered' : ~(InBatch(u, q, o)' /\ Offered(f, o))
      BY <1>2, <1>5, <1>6, <2>1 DEF AtMostOne
    <2>8. \A f, g \in offered' : Offered(f, o) /\ Offered(g, o) => f = g
      BY <1>2, <1>6, <2>1 DEF AtMostOne
    <2>9. QED
      BY <2>2, <2>3, <2>4, <2>5, <2>6, <2>7, <2>8 DEF AtMostOne, Offered
  <1>11. QED
    BY <1>2, <1>8, <1>10 DEF Sent

LEMMA SentStep ==
  ASSUME Typed, CreditedCounted, CreditedOnce, BatchesFresh, Sent, [Next]_vars
  PROVE  Sent'
  <1>1. pc \in [Turns -> Steps] /\ delta \in [Turns -> SUBSET Observations]
    BY DEF Typed, RunTypes, ActivityTypes
  <1>2. ASSUME NEW t \in Turns, NEW x \in Steps \ {"record"}, pc' = [pc EXCEPT ![t] = x],
               \A u \in Turns \ {t} : delta'[u] = delta[u]
        PROVE  \A u \in Turns, o \in Observations : InHook(u, o)' => InHook(u, o)
    BY <1>1, <1>2 DEF InHook
  <1>3. CASE pc' = pc /\ delta' = delta /\ UNCHANGED <<files, unqueued, counted, pending, batches, offered>>
    BY <1>3, SentQuiet DEF InHook
  <1>4. ASSUME NEW t \in Turns, AgentStep(t) \/ WorkerPopped(t) \/ ForgetWorker(t) \/ SnapshotOutputs(t)
        PROVE  Sent'
    <2>1. UNCHANGED <<files, unqueued, counted, pending, batches, offered>>
      BY <1>4 DEF AgentStep, SkipWorker, PrepareWorker, LaunchRaises, WorkerStarted, WorkerPopped, ForgetWorker,
         SnapshotOutputs, activity, scheduler
    <2>2. \E x \in Steps \ {"record"} : pc' = [pc EXCEPT ![t] = x]
      BY <1>4 DEF AgentStep, SkipWorker, PrepareWorker, LaunchRaises, WorkerStarted, WorkerPopped, ForgetWorker,
         SnapshotOutputs, Go, Steps
    <2>3. \A u \in Turns \ {t} : delta'[u] = delta[u]
      BY <1>1, <1>4 DEF AgentStep, SkipWorker, PrepareWorker, LaunchRaises, WorkerStarted, WorkerPopped, ForgetWorker,
         SnapshotOutputs
    <2>4. QED
      BY <1>2, <2>1, <2>2, <2>3, SentQuiet
  <1>5. ASSUME NEW t \in Turns, FlushReady(t) \/ Unlock(t) \/ LinkerLaunched(t) \/ LinkersDone(t)
        PROVE  Sent'
    <2>1. UNCHANGED <<files, unqueued, counted, pending, batches, offered>> /\ delta' = delta
      BY <1>5 DEF FlushReady, Unlock, LinkerLaunched, LinkersDone, activity, scheduler
    <2>2. \E x \in Steps \ {"record"} : pc' = [pc EXCEPT ![t] = x]
      BY <1>5 DEF FlushReady, Unlock, LinkerLaunched, LinkersDone, Go, Steps
    <2>3. QED
      BY <1>2, <2>1, <2>2, SentQuiet
  <1>6. ASSUME NEW t \in Turns, NEW p \in Projects, TakeReady(t, p) PROVE Sent'
    <2>1. CASE active = {}
      BY <1>6, <2>1, SentTake
    <2>2. CASE active # {}
      BY <1>3, <1>6, <2>2 DEF TakeReady, activity
    <2>3. QED
      BY <2>1, <2>2
  <1>7. ASSUME NEW t \in Turns, WorkerSettles(t) PROVE Sent'
    BY <1>3, <1>7 DEF WorkerSettles, activity, scheduler
  <1>8. CASE ClearCounts \/ UNCHANGED vars
    BY <1>3, <1>8 DEF ClearCounts, vars, activity, scheduler
  <1>9. QED
    BY <1>4, <1>5, <1>6, <1>7, <1>8, SentFiles, SentCallback, SentCredit, SentRecord, SentLaunch
       DEF Next, HookStep, DrainStep, FileStep

-----------------------------------------------------------------------------
DeliveryInv == IInv /\ Tracking /\ QueueAwaited /\ Submitting /\ Seen /\ Sent

LEMMA InitDelivery == Init => DeliveryInv
  <1> SUFFICES ASSUME Init PROVE DeliveryInv
    OBVIOUS
  <1>1. IInv
    BY InitIInv
  <1>2. Tracking /\ QueueAwaited
    BY DEF Init, Tracking, QueueAwaited, Nothing
  <1>3. Submitting
    BY MemoryPipelineAssumption DEF Init, Submitting
  <1>4. Seen
    BY DEF Init, Run!Init, Seen, Over
  <1>5. \A o \in Observations : ~Onward(o)
    BY DEF Init, Onward, InBatch, Offered, Nothing
  <1>6. Sent
    BY <1>5 DEF Init, Sent, Worker
  <1>7. QED
    BY <1>1, <1>2, <1>3, <1>4, <1>6 DEF DeliveryInv

LEMMA Delivery == Spec => []DeliveryInv
  <1>1. Init => DeliveryInv
    BY InitDelivery
  <1>2. IInv /\ [Next]_vars => IInv'
    BY TypedStep, CountingStep, DrainsStep, NoneStrayStep DEF IInv
  <1>3. DeliveryInv /\ [Next]_vars => DeliveryInv'
    BY <1>2, TrackingStep, QueueAwaitedStep, SubmittingStep, SeenStep, SentStep DEF DeliveryInv, IInv
  <1>4. QED
    BY <1>1, <1>3, PTL DEF Spec

\* Whatever a worker wrote whose end was seen has been counted when its hook is
\* through, however long the hook waits between its two critical sections
\* (mark_memory_worker_finished).
THEOREM NothingIsOverlooked == Spec => []NothingOverlooked
  <1>1. DeliveryInv => NothingOverlooked
    BY DEF DeliveryInv, Seen, NothingOverlooked, Over, Own, Counting
  <1>2. QED
    BY <1>1, Delivery, PTL

\* A worker's observation reaches one linker launch at most (scheduler.py,
\* _ready_batches_locked, _launch_ready).
THEOREM LinkedAtMostOnce == Spec => []LinkedOnce
  <1>1. ASSUME DeliveryInv, NEW o \in disk \ direct, NEW x \in Places(o), NEW y \in Places(o)
        PROVE  x = y
    <2>1. AtMostOne(o) /\ CreditedOnce
      BY <1>1 DEF DeliveryInv, IInv, Typed, FileTypes, Sent, Worker
    <2>2. \A t, u \in Turns : InHook(t, o) /\ InHook(u, o) => t = u
      BY <2>1 DEF InHook, CreditedOnce, Credited
    <2>3. \A z \in Places(o) :
             \/ \E t \in Turns : z = <<"delta", t>> /\ InHook(t, o)
             \/ \E p \in Projects : z = <<"pending", p>> /\ o \in pending[p]
             \/ \E t \in Turns, p \in Projects : z = <<"batch", <<t, p>>>> /\ InBatch(t, p, o)
             \/ \E f \in offered : z = <<"offered", f>> /\ Offered(f, o)
      BY DEF Places, InHook, InBatch, Offered
    <2>4. ASSUME NEW t \in Turns, x = <<"delta", t>>, InHook(t, o) PROVE x = y
      BY <2>1, <2>2, <2>3, <2>4 DEF AtMostOne, Onward
    <2>5. ASSUME NEW p \in Projects, x = <<"pending", p>>, o \in pending[p] PROVE x = y
      BY <2>1, <2>3, <2>5 DEF AtMostOne, Onward
    <2>6. ASSUME NEW t \in Turns, NEW p \in Projects, x = <<"batch", <<t, p>>>>, InBatch(t, p, o) PROVE x = y
      BY <2>1, <2>3, <2>6 DEF AtMostOne, Onward
    <2>7. ASSUME NEW f \in offered, x = <<"offered", f>>, Offered(f, o) PROVE x = y
      BY <2>1, <2>3, <2>7 DEF AtMostOne, Onward
    <2>8. QED
      BY <2>3, <2>4, <2>5, <2>6, <2>7
  <1>2. DeliveryInv => LinkedOnce
    BY <1>1 DEF LinkedOnce
  <1>3. QED
    BY <1>2, Delivery, PTL

\* When all threads have come to rest, nothing is left in the queue that no
\* hook will look at, unless a watcher lost sight of its run (scheduler.py).
THEOREM NothingStaysStranded == Spec => []NothingStranded
  <1>1. ASSUME DeliveryInv, \A t \in Turns : pc[t] = "done", ~ \E t \in Turns : phase[t] = "status_unknown"
        PROVE  pending = Nothing
    <2>1. \A p \in Projects : ~Awaited(p)
      BY <1>1 DEF Awaited, Ahead
    <2>2. \A p \in Projects : pending[p] = {}
      BY <1>1, <2>1 DEF DeliveryInv, QueueAwaited
    <2>3. pending \in [Projects -> SUBSET Observations]
      BY <1>1 DEF DeliveryInv, IInv, Typed, SchedulerTypes
    <2>4. QED
      BY <2>2, <2>3 DEF Nothing
  <1>2. DeliveryInv => NothingStranded
    BY <1>1 DEF NothingStranded
  <1>3. QED
    BY <1>2, Delivery, PTL
=============================================================================
