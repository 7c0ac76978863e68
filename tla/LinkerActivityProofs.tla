------------------------ MODULE LinkerActivityProofs ------------------------
(***************************************************************************)
(* What the status bar is told of linkers has no gap and comes back to     *)
(* idle, for any number of linkers and relations.                          *)
(***************************************************************************)
EXTENDS LinkerActivity, FiniteSetTheorems, TLAPS

Launching == {l \in Linkers : launcher[l] = "launching"}
Tracked == {l \in Linkers : phase[l] = "tracked"}
HooksDone == {l \in Linkers : hook[l] = "done"}

RunTypes ==
    /\ phase \in [Linkers -> Run!Phases]
    /\ outcome \in [Linkers -> Run!Outcomes \cup {"none"}]
    /\ submitted \subseteq Linkers
HookTypes ==
    /\ launcher \in [Linkers -> {"waiting", "launching", "returned"}]
    /\ hook \in [Linkers -> {"none", "popped", "snapshotted", "done"}]
RelationTypes ==
    /\ links \in [Linkers -> SUBSET Relations]
    /\ before \in [Linkers -> SUBSET Relations]
    /\ found \in [Linkers -> SUBSET Relations]

\* The status is no more and no less than what launchers and hooks have said.
Balanced == active = Tracked /\ launches = Cardinality(Launching)

\* A linker adds at most every relation there is, once.
LinkedBounded == linked \in Nat /\ linked <= Cardinality(HooksDone) * Cardinality(Relations)

\* Only a linker that finished has a hook, so its hook runs once.
HooksAfterFinish == \A l \in Linkers : phase[l] # "finished" => hook[l] = "none"

Typed == RunTypes /\ HookTypes /\ RelationTypes
IInv == Typed /\ Balanced /\ HooksAfterFinish /\ LinkedBounded

-----------------------------------------------------------------------------
\* Sets of linkers are finite, and counted by natural numbers.
LEMMA CountLinkers ==
  ASSUME NEW S, S \subseteq Linkers
  PROVE  IsFiniteSet(S) /\ Cardinality(S) \in Nat /\ Cardinality(S) <= Cardinality(Linkers)
  BY LinkerActivityAssumption, FS_Subset, FS_CardinalityType

LEMMA CountRelations ==
  ASSUME NEW S, S \subseteq Relations
  PROVE  /\ Cardinality(Relations) \in Nat
         /\ Cardinality(S) \in Nat /\ Cardinality(S) <= Cardinality(Relations)
  BY LinkerActivityAssumption, FS_Subset, FS_CardinalityType

LEMMA OneMoreTimes ==
  ASSUME NEW a \in Nat, NEW b \in Nat
  PROVE  (a + 1) * b = a * b + b /\ a * b \in Nat
  OBVIOUS

LEMMA AtMostTimes ==
  ASSUME NEW d \in Nat, NEW n \in Nat, NEW b \in Nat, d <= n
  PROVE  d * b \in Nat /\ n * b \in Nat /\ d * b <= n * b
  <1>1. PICK k \in Nat : n = d + k
    <2>1. n - d \in Nat /\ n = d + (n - d)
      OBVIOUS
    <2>2. QED
      BY <2>1
  <1>2. n * b = d * b + k * b /\ d * b \in Nat /\ k * b \in Nat
    BY <1>1
  <1>3. QED
    BY <1>2

LEMMA InitIInv == Init => IInv
  <1> SUFFICES ASSUME Init PROVE IInv
    OBVIOUS
  <1>1. Typed
    BY DEF Init, Run!Init, Typed, RunTypes, HookTypes, RelationTypes, Run!Phases, Run!Endings, Run!Outcomes
  <1>2. Launching = {} /\ Tracked = {} /\ HooksDone = {}
    BY DEF Init, Run!Init, Launching, Tracked, HooksDone
  <1>3. Cardinality(Launching) = 0 /\ Cardinality(HooksDone) = 0
    BY <1>2, FS_EmptySet
  <1>4. Cardinality(Relations) \in Nat
    BY LinkerActivityAssumption, FS_CardinalityType
  <1>5. Balanced
    BY <1>2, <1>3 DEF Init, Balanced
  <1>6. LinkedBounded
    BY <1>3, <1>4 DEF Init, LinkedBounded
  <1>7. HooksAfterFinish
    BY DEF Init, HooksAfterFinish
  <1>8. QED
    BY <1>1, <1>5, <1>6, <1>7 DEF IInv

-----------------------------------------------------------------------------
\* Types.

LEMMA RunTypesStep == Typed /\ [Next]_vars => RunTypes'
  <1> SUFFICES ASSUME Typed, [Next]_vars PROVE RunTypes'
    OBVIOUS
  <1> USE DEF Typed, RunTypes, Run!Phases, Run!Endings, Run!Outcomes, Run!Failures
  <1>1. ASSUME NEW l \in Linkers,
               GiveUpLaunch(l) \/ PrepareLinker(l) \/ LinkerStarted(l) \/ LinkerPopped(l) \/ ForgetLinker(l)
        PROVE  RunTypes'
    BY <1>1 DEF GiveUpLaunch, PrepareLinker, LinkerStarted, LinkerPopped, ForgetLinker,
                Run!Drop, Run!Prepare, Run!Track, Run!Finish, Run!Abort, Run!LoseSight, Run!Unwatched, Run!Enter
  <1>2. ASSUME NEW l \in Linkers, LinkerSettles(l) PROVE RunTypes'
    BY <1>2 DEF LinkerSettles, Run!Settle
  <1>3. ASSUME NEW l \in Linkers,
               \/ BeginLaunch(l) \/ EndLaunch(l) \/ WriteRelation(l)
               \/ SnapshotRelations(l) \/ AddRelations(l)
        PROVE  RunTypes'
    BY <1>3 DEF BeginLaunch, EndLaunch, WriteRelation, SnapshotRelations, AddRelations, runs
  <1>4. CASE ClearCounts
    BY <1>4 DEF ClearCounts, runs
  <1>5. CASE UNCHANGED vars
    BY <1>5 DEF vars, runs
  <1>6. QED
    BY <1>1, <1>2, <1>3, <1>4, <1>5 DEF Next

LEMMA HookTypesStep == Typed /\ [Next]_vars => HookTypes' /\ RelationTypes'
  <1> SUFFICES ASSUME Typed, [Next]_vars PROVE HookTypes' /\ RelationTypes'
    OBVIOUS
  <1> USE DEF Typed, HookTypes, RelationTypes
  <1>1. OnDisk \subseteq Relations
    BY DEF OnDisk
  <1>2. ASSUME NEW l \in Linkers, BeginLaunch(l) \/ EndLaunch(l) \/ LinkerPopped(l) \/ AddRelations(l)
        PROVE  HookTypes' /\ RelationTypes'
    BY <1>2 DEF BeginLaunch, EndLaunch, LinkerPopped, AddRelations
  <1>3. ASSUME NEW l \in Linkers, PrepareLinker(l) PROVE HookTypes' /\ RelationTypes'
    BY <1>1, <1>3 DEF PrepareLinker
  <1>4. ASSUME NEW l \in Linkers, SnapshotRelations(l) PROVE HookTypes' /\ RelationTypes'
    BY <1>1, <1>4 DEF SnapshotRelations
  <1>5. ASSUME NEW l \in Linkers, WriteRelation(l) PROVE HookTypes' /\ RelationTypes'
    BY <1>5 DEF WriteRelation
  <1>6. ASSUME NEW l \in Linkers,
               GiveUpLaunch(l) \/ LinkerStarted(l) \/ LinkerSettles(l) \/ ForgetLinker(l)
        PROVE  HookTypes' /\ RelationTypes'
    BY <1>6 DEF GiveUpLaunch, LinkerStarted, LinkerSettles, ForgetLinker
  <1>7. CASE ClearCounts
    BY <1>7 DEF ClearCounts
  <1>8. CASE UNCHANGED vars
    BY <1>8 DEF vars
  <1>9. QED
    BY <1>2, <1>3, <1>4, <1>5, <1>6, <1>7, <1>8 DEF Next

-----------------------------------------------------------------------------
\* The status.

LEMMA BalancedStep == Typed /\ Balanced /\ [Next]_vars => Balanced'
  <1> SUFFICES ASSUME Typed, Balanced, [Next]_vars PROVE Balanced'
    OBVIOUS
  <1>0. /\ phase \in [Linkers -> Run!Phases] /\ launcher \in [Linkers -> {"waiting", "launching", "returned"}]
        /\ active = Tracked /\ launches = Cardinality(Launching)
    BY DEF Typed, RunTypes, HookTypes, Balanced
  <1>1. ASSUME NEW l \in Linkers, BeginLaunch(l) PROVE Balanced'
    <2>1. /\ launcher[l] = "waiting" /\ launcher' = [launcher EXCEPT ![l] = "launching"]
          /\ launches' = launches + 1 /\ phase' = phase /\ active' = active
      BY <1>1 DEF BeginLaunch, runs
    <2>2. Launching' = Launching \cup {l} /\ l \notin Launching
      BY <1>0, <2>1 DEF Launching
    <2>3. IsFiniteSet(Launching)
      BY CountLinkers DEF Launching
    <2>4. Cardinality(Launching') = Cardinality(Launching) + 1
      BY <2>2, <2>3, FS_AddElement
    <2>5. Tracked' = Tracked
      BY <2>1 DEF Tracked
    <2>6. QED
      BY <1>0, <2>1, <2>4, <2>5 DEF Balanced
  <1>2. ASSUME NEW l \in Linkers, EndLaunch(l) PROVE Balanced'
    <2>1. /\ launcher[l] = "launching" /\ launcher' = [launcher EXCEPT ![l] = "returned"]
          /\ launches' = Unmarked(l) /\ phase' = phase /\ active' = active
      BY <1>2 DEF EndLaunch, runs
    <2>2. Launching' = Launching \ {l} /\ l \in Launching
      BY <1>0, <2>1 DEF Launching
    <2>3. IsFiniteSet(Launching) /\ Cardinality(Launching) \in Nat
      BY CountLinkers DEF Launching
    <2>4. Cardinality(Launching') = Cardinality(Launching) - 1
      BY <2>2, <2>3, FS_RemoveElement
    <2>5. Cardinality(Launching) > 0
      BY <2>2, <2>3, FS_EmptySet
    <2>6. launches' = Cardinality(Launching')
      BY <1>0, <2>1, <2>4, <2>5 DEF Unmarked
    <2>7. Tracked' = Tracked
      BY <2>1 DEF Tracked
    <2>8. QED
      BY <1>0, <2>1, <2>6, <2>7 DEF Balanced
  <1>3. ASSUME NEW l \in Linkers, LinkerStarted(l) PROVE Balanced'
    <2>1. /\ phase' = [phase EXCEPT ![l] = "tracked"] /\ active' = active \cup {l}
          /\ launcher' = launcher /\ launches' = launches
      BY <1>3 DEF LinkerStarted, Run!Track, Run!Enter
    <2>2. Tracked' = Tracked \cup {l} /\ Launching' = Launching
      BY <1>0, <2>1 DEF Tracked, Launching
    <2>3. QED
      BY <1>0, <2>1, <2>2 DEF Balanced
  <1>4. ASSUME NEW l \in Linkers, LinkerPopped(l) \/ ForgetLinker(l) PROVE Balanced'
    <2>1. PICK to \in Run!Endings : phase' = [phase EXCEPT ![l] = to]
      BY <1>4 DEF LinkerPopped, ForgetLinker, Run!Endings, Run!Finish, Run!Abort, Run!LoseSight, Run!Unwatched, Run!Enter
    <2>2. active' = active \ {l} /\ launcher' = launcher /\ launches' = launches
      BY <1>4 DEF LinkerPopped, ForgetLinker
    <2>3. Tracked' = Tracked \ {l} /\ Launching' = Launching
      BY <1>0, <2>1, <2>2 DEF Tracked, Launching, Run!Endings
    <2>4. QED
      BY <1>0, <2>2, <2>3 DEF Balanced
  <1>5. ASSUME NEW l \in Linkers, GiveUpLaunch(l) \/ PrepareLinker(l) PROVE Balanced'
    <2>1. PICK to \in {"prepared", "dropped"} :
             phase[l] \in {"idle", "prepared"} /\ phase' = [phase EXCEPT ![l] = to]
      BY <1>5 DEF GiveUpLaunch, PrepareLinker, Run!Drop, Run!Prepare, Run!Enter
    <2>2. active' = active /\ launcher' = launcher /\ launches' = launches
      BY <1>5 DEF GiveUpLaunch, PrepareLinker, status
    <2>3. Tracked' = Tracked /\ Launching' = Launching
      BY <1>0, <2>1, <2>2 DEF Tracked, Launching
    <2>4. QED
      BY <1>0, <2>2, <2>3 DEF Balanced
  <1>6. ASSUME phase' = phase, launcher' = launcher, active' = active, launches' = launches
        PROVE  Balanced'
    BY <1>6 DEF Balanced, Tracked, Launching
  <1>7. ASSUME NEW l \in Linkers,
               WriteRelation(l) \/ LinkerSettles(l) \/ SnapshotRelations(l) \/ AddRelations(l)
        PROVE  Balanced'
    BY <1>6, <1>7 DEF WriteRelation, LinkerSettles, SnapshotRelations, AddRelations, Run!Settle, runs, status
  <1>8. CASE ClearCounts \/ UNCHANGED vars
    BY <1>6, <1>8 DEF ClearCounts, vars, runs, status
  <1>9. QED
    BY <1>1, <1>2, <1>3, <1>4, <1>5, <1>7, <1>8 DEF Next

LEMMA HooksAfterFinishStep == Typed /\ HooksAfterFinish /\ [Next]_vars => HooksAfterFinish'
  <1> SUFFICES ASSUME Typed, HooksAfterFinish, [Next]_vars PROVE HooksAfterFinish'
    OBVIOUS
  <1> USE DEF Typed, RunTypes, HookTypes, HooksAfterFinish
  <1>1. ASSUME NEW l \in Linkers,
               \/ GiveUpLaunch(l) \/ PrepareLinker(l) \/ LinkerStarted(l) \/ LinkerPopped(l) \/ ForgetLinker(l)
        PROVE  HooksAfterFinish'
    BY <1>1 DEF GiveUpLaunch, PrepareLinker, LinkerStarted, LinkerPopped, ForgetLinker,
                Run!Drop, Run!Prepare, Run!Track, Run!Finish, Run!Abort, Run!LoseSight, Run!Unwatched, Run!Enter
  <1>2. ASSUME NEW l \in Linkers, SnapshotRelations(l) \/ AddRelations(l) PROVE HooksAfterFinish'
    BY <1>2 DEF SnapshotRelations, AddRelations, runs
  <1>3. ASSUME phase' = phase, hook' = hook PROVE HooksAfterFinish'
    BY <1>3
  <1>4. ASSUME NEW l \in Linkers, BeginLaunch(l) \/ EndLaunch(l) \/ WriteRelation(l) \/ LinkerSettles(l)
        PROVE  HooksAfterFinish'
    BY <1>3, <1>4 DEF BeginLaunch, EndLaunch, WriteRelation, LinkerSettles, Run!Settle, runs
  <1>5. CASE ClearCounts \/ UNCHANGED vars
    BY <1>3, <1>5 DEF ClearCounts, vars, runs
  <1>6. QED
    BY <1>1, <1>2, <1>4, <1>5 DEF Next

\* A hook adds once, and at most all the relations.
LEMMA LinkedBoundedStep ==
        Typed /\ HooksAfterFinish /\ LinkedBounded /\ [Next]_vars => LinkedBounded'
  <1> SUFFICES ASSUME Typed, HooksAfterFinish, LinkedBounded, [Next]_vars PROVE LinkedBounded'
    OBVIOUS
  <1>0. /\ hook \in [Linkers -> {"none", "popped", "snapshotted", "done"}]
        /\ found \in [Linkers -> SUBSET Relations] /\ phase \in [Linkers -> Run!Phases]
    BY DEF Typed, RunTypes, HookTypes, RelationTypes
  <1>1. /\ IsFiniteSet(HooksDone) /\ Cardinality(HooksDone) \in Nat
        /\ Cardinality(Relations) \in Nat
    BY CountLinkers, LinkerActivityAssumption, FS_CardinalityType DEF HooksDone
  <1>2. ASSUME linked' = linked, HooksDone' = HooksDone PROVE LinkedBounded'
    BY <1>2 DEF LinkedBounded
  <1>3. ASSUME NEW l \in Linkers, AddRelations(l) PROVE LinkedBounded'
    <2>1. /\ hook[l] = "snapshotted" /\ hook' = [hook EXCEPT ![l] = "done"]
          /\ linked' = linked + Cardinality(found[l])
      BY <1>3 DEF AddRelations
    <2>2. HooksDone' = HooksDone \cup {l} /\ l \notin HooksDone
      BY <1>0, <2>1 DEF HooksDone
    <2>3. Cardinality(HooksDone') = Cardinality(HooksDone) + 1
      BY <1>1, <2>2, FS_AddElement
    <2>4. Cardinality(found[l]) \in Nat /\ Cardinality(found[l]) <= Cardinality(Relations)
      BY <1>0, CountRelations
    <2> DEFINE a == Cardinality(HooksDone)
               b == Cardinality(Relations)
    <2>5. (a + 1) * b = a * b + b /\ a * b \in Nat
      BY <1>1, OneMoreTimes
    <2>6. Cardinality(HooksDone') * b = a * b + b
      BY <2>3, <2>5
    <2>7. linked \in Nat /\ linked <= a * b
      BY DEF LinkedBounded
    <2>8. linked' \in Nat /\ linked' <= a * b + b
      <3> HIDE DEF a, b
      <3> QED BY <2>1, <2>4, <2>5, <2>7, <1>1 DEF b
    <2>9. QED
      BY <2>6, <2>8 DEF LinkedBounded
  <1>4. ASSUME NEW l \in Linkers, LinkerPopped(l) PROVE LinkedBounded'
    <2>1. hook[l] = "none" /\ hook' = [hook EXCEPT ![l] = "popped"] /\ linked' = linked
      BY <1>4 DEF LinkerPopped, Run!Finish, Run!Enter, HooksAfterFinish
    <2>2. HooksDone' = HooksDone
      BY <1>0, <2>1 DEF HooksDone
    <2>3. QED
      BY <1>2, <2>1, <2>2
  <1>5. ASSUME NEW l \in Linkers, SnapshotRelations(l) PROVE LinkedBounded'
    <2>1. hook[l] = "popped" /\ hook' = [hook EXCEPT ![l] = "snapshotted"] /\ linked' = linked
      BY <1>5 DEF SnapshotRelations, status
    <2>2. HooksDone' = HooksDone
      BY <1>0, <2>1 DEF HooksDone
    <2>3. QED
      BY <1>2, <2>1, <2>2
  <1>6. CASE ClearCounts
    <2>1. linked' = 0 /\ HooksDone' = HooksDone
      BY <1>6 DEF ClearCounts, HooksDone
    <2> DEFINE a == Cardinality(HooksDone)
               b == Cardinality(Relations)
    <2>2. a * b \in Nat
      BY <1>1, OneMoreTimes
    <2>3. QED
      BY <2>1, <2>2 DEF LinkedBounded
  <1>7. ASSUME linked' = linked, hook' = hook PROVE LinkedBounded'
    BY <1>2, <1>7 DEF HooksDone
  <1>8. ASSUME NEW l \in Linkers,
               \/ BeginLaunch(l) \/ GiveUpLaunch(l) \/ PrepareLinker(l) \/ LinkerStarted(l) \/ EndLaunch(l)
               \/ WriteRelation(l) \/ LinkerSettles(l) \/ ForgetLinker(l)
        PROVE  LinkedBounded'
    BY <1>7, <1>8 DEF BeginLaunch, GiveUpLaunch, PrepareLinker, LinkerStarted, EndLaunch,
                      WriteRelation, LinkerSettles, ForgetLinker, status
  <1>9. CASE UNCHANGED vars
    BY <1>7, <1>9 DEF vars, status
  <1>10. QED
    BY <1>3, <1>4, <1>5, <1>6, <1>8, <1>9 DEF Next

LEMMA Inductive == Spec => []IInv
  <1>1. Init => IInv
    BY InitIInv
  <1>2. IInv /\ [Next]_vars => IInv'
    BY RunTypesStep, HookTypesStep, BalancedStep, HooksAfterFinishStep, LinkedBoundedStep DEF IInv, Typed
  <1>3. QED
    BY <1>1, <1>2, PTL DEF Spec

-----------------------------------------------------------------------------
\* The state is well-typed; the launch counter never exceeds the linkers, and
\* the total of relations never what all of them could add
\* (_linker_launches_in_progress, _relations_linked).
THEOREM TypeCorrect == Spec => []TypeOK
  <1>1. IInv => TypeOK
    <2> SUFFICES ASSUME IInv PROVE TypeOK
      OBVIOUS
    <2>1. active \subseteq Linkers
      BY DEF IInv, Balanced, Tracked
    <2>2. launches \in Nat /\ launches <= Cardinality(Linkers) /\ Cardinality(Linkers) \in Nat
      BY CountLinkers DEF IInv, Balanced, Launching
    <2>3. launches \in 0 .. Cardinality(Linkers)
      BY <2>2
    <2>4. linked \in 0 .. Cardinality(Linkers) * Cardinality(Relations)
      <3> DEFINE d == Cardinality(HooksDone)
                 n == Cardinality(Linkers)
                 b == Cardinality(Relations)
      <3>1. d \in Nat /\ n \in Nat /\ d <= n /\ b \in Nat
        BY CountLinkers, LinkerActivityAssumption, FS_CardinalityType DEF HooksDone
      <3>2. linked \in Nat /\ linked <= d * b
        BY DEF IInv, LinkedBounded
      <3> HIDE DEF d, n, b
      <3>3. d * b \in Nat /\ n * b \in Nat /\ d * b <= n * b
        BY <3>1, AtMostTimes
      <3>4. linked \in 0 .. n * b
        BY <3>2, <3>3
      <3>5. QED
        BY <3>4 DEF n, b
    <2>5. QED
      BY <2>1, <2>3, <2>4 DEF IInv, Typed, RunTypes, HookTypes, RelationTypes, TypeOK
  <1>2. QED
    BY <1>1, Inductive, PTL

\* From the start of its launch to its ending hook a linker shows as running
\* (observation_linker_status).
THEOREM RunningWithoutGap == Spec => []NoIdleGap
  <1>1. IInv => NoIdleGap
    <2> SUFFICES ASSUME IInv, NEW l \in Linkers, launcher[l] = "launching" \/ phase[l] = "tracked"
                 PROVE  IsRunning
      BY DEF NoIdleGap
    <2>1. CASE launcher[l] = "launching"
      <3>1. IsFiniteSet(Launching) /\ Cardinality(Launching) \in Nat /\ Launching # {}
        BY <2>1, CountLinkers DEF Launching
      <3>2. Cardinality(Launching) > 0
        BY <3>1, FS_EmptySet
      <3>3. QED
        BY <3>2 DEF IInv, Balanced, IsRunning
    <2>2. CASE phase[l] = "tracked"
      BY <2>2 DEF IInv, Balanced, Tracked, IsRunning
    <2>3. QED
      BY <2>1, <2>2
  <1>2. QED
    BY <1>1, Inductive, PTL

\* No way a launch or a run may fail leaves the counter or the registry behind
\* (mark_observation_linker_launch_finished, mark_observation_linker_aborted).
THEOREM IdleAfterwards == Spec => []IdleInTheEnd
  <1>1. IInv => IdleInTheEnd
    <2> SUFFICES ASSUME IInv, \A l \in Linkers : launcher[l] # "launching" /\ phase[l] # "tracked"
                 PROVE  ~IsRunning
      BY DEF IdleInTheEnd
    <2>1. Launching = {} /\ Tracked = {}
      BY DEF Launching, Tracked
    <2>2. launches = 0 /\ active = {}
      BY <2>1, FS_EmptySet DEF IInv, Balanced
    <2>3. QED
      BY <2>2 DEF IsRunning
  <1>2. QED
    BY <1>1, Inductive, PTL
=============================================================================
