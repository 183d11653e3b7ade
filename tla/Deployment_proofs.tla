-------------------------- MODULE Deployment_proofs --------------------------
(* Theorems about Deployment, for any number of runs, inside and outside of   *)
(* the service, and any number of commits.                                    *)
EXTENDS Deployment, TLAPS

-----------------------------------------------------------------------------
(* The inductive invariant behind DeploymentIsAtomic *)

\* A run in the middle of its work has the lock, and only a run that was started
\* by the service gives it away in between.
LockHeld ==
  \A r \in Runs :
    /\ pc[r] \in {"idle", "scheduled"} \cup Outcomes \/ lock = r
    /\ pc[r] = "scheduled" => r \in Inside

AfterSave == {"half saved", "saved", "linking", "built", "installing", "packaged",
              "scheduled", "restarting", "verifying", "unverified", "stopped",
              "restoring exe", "half restored", "restoring helper", "restored",
              "checking"}

\* A run knows its commit before it builds, and has saved a bridge before it removes
\* one.
Prepared ==
  /\ NothingIsLost
  /\ \A r \in Runs :
       /\ pc[r] \in {"synchronized"} \cup AfterSave => commit[r] \in Commits
       /\ pc[r] \in AfterSave => rollbackExe \in Commits

\* What an undisturbed run has brought about so far.
Progress(r) ==
  /\ pc[r] \in {"built", "installing"} => exe = commit[r]
  /\ pc[r] \in {"packaged", "scheduled", "restarting", "verifying"} =>
       exe = commit[r] /\ helper = commit[r]
  /\ pc[r] \in AfterSave => rollbackExe = before[r]
  /\ pc[r] \in {"half restored", "restoring helper", "restored", "checking"} =>
       exe = before[r]

DeploymentInv ==
  TypeOK /\ LockHeld /\ Prepared /\ \A r \in Runs : Undisturbed(r) => Progress(r)

LEMMA StepType ==
  ASSUME TypeOK, Prepared, NEW r \in Runs, Step(r)
  PROVE  TypeOK'
<1> USE DEF TypeOK, Move, Finish, Outcomes, package, snapshot
<1>1. CASE Begin(r) \/ TurnedAway(r) \/ HandOver(r) \/ WorkerStarts(r) \/ GoOn(r)
  BY ZenonT(30), <1>1 DEF Begin, TurnedAway, HandOver, WorkerStarts, GoOn
<1>2. CASE Synchronize(r)
  BY <1>2 DEF Synchronize
<1>3. CASE SaveExe(r)
  BY <1>3 DEF SaveExe
<1>4. CASE SaveHelper(r)
  BY <1>4 DEF SaveHelper
<1>5. CASE Build(r)
  <2>1. exe' \in {exe, None}
    BY <1>5 DEF Build
  <2> QED
    BY <1>5, <2>1 DEF Build, Unfinished
<1>6. CASE Link(r) \/ HelperInstalled(r)
  <2>1. commit[r] \in Commits
    BY <1>6 DEF Link, HelperInstalled, Prepared, AfterSave
  <2> QED
    BY <1>6, <2>1 DEF Link, HelperInstalled
<1>7. CASE Restart(r) \/ RestartFails(r) \/ Stop(r) \/ StartAgain(r)
  <2>1. live' \in Commits \cup {Waiting, None}
    BY <1>7 DEF Restart, RestartFails, Started, Stop, StartAgain
  <2> QED
    BY <1>7, <2>1 DEF Restart, RestartFails, Stop, StartAgain
<1>8. CASE Verified(r)
  BY <1>8 DEF Verified
<1>9. CASE ExeRestored(r)
  <2>1. rollbackExe \in Commits
    BY <1>9 DEF ExeRestored, Prepared, AfterSave
  <2> QED
    BY <1>9, <2>1 DEF ExeRestored
<1>10. CASE InstallHelper(r) \/ RestoreExe(r) \/ RestoreHelper(r)
  BY <1>10 DEF InstallHelper, RestoreExe, RestoreHelper, Unfinished
<1>11. CASE HelperRestored(r)
  BY <1>11 DEF HelperRestored
<1>12. CASE RolledBack(r) \/ Abort(r)
  BY ZenonT(30), <1>12 DEF RolledBack, Abort
<1> QED
  BY <1>1, <1>2, <1>3, <1>4, <1>5, <1>6, <1>7, <1>8, <1>9, <1>10, <1>11, <1>12 DEF Step

\* A step moves one run, never back to the start, and an outcome is reached from the
\* check that it reports.
LEMMA StepMoves ==
  ASSUME TypeOK, NEW r \in Runs, Step(r)
  PROVE  /\ \A s \in Runs \ {r} : pc'[s] = pc[s]
         /\ pc'[r] # "idle"
         /\ pc[r] \in {"idle", "scheduled"} \cup Outcomes =>
              Begin(r) \/ TurnedAway(r) \/ WorkerStarts(r)
         /\ pc'[r] = "succeeded" => Verified(r)
         /\ pc'[r] = "rolled back" => RolledBack(r)
BY DEF TypeOK, Outcomes, Step, Move, Finish, Begin, TurnedAway, Synchronize, SaveExe,
       SaveHelper, Build, Link, InstallHelper, HelperInstalled, HandOver, WorkerStarts,
       GoOn, Restart, RestartFails, Verified, Stop, RestoreExe, ExeRestored,
       RestoreHelper, HelperRestored, StartAgain, RolledBack, Abort

\* The lock stays with the run that has it.
LEMMA StepLock ==
  ASSUME TypeOK, LockHeld, NEW r \in Runs, Step(r)
  PROVE  LockHeld'
<1>1. \A s \in Runs \ {r} : pc'[s] = pc[s]
  BY StepMoves
<1>2. CASE Begin(r) \/ WorkerStarts(r)
  BY ZenonT(30), <1>1, <1>2, DeploymentAssumption
     DEF TypeOK, LockHeld, Begin, WorkerStarts, Move, Outcomes
<1>3. CASE TurnedAway(r)
  BY <1>1, <1>3 DEF TypeOK, LockHeld, TurnedAway, Move, Outcomes
<1>4. CASE \/ HandOver(r) \/ Verified(r) \/ RolledBack(r) \/ Abort(r)
  BY <1>1, <1>4
     DEF TypeOK, LockHeld, HandOver, Verified, RolledBack, Abort, Finish, Move, Outcomes
<1>5. CASE \/ Synchronize(r) \/ SaveExe(r) \/ SaveHelper(r) \/ Build(r) \/ Link(r)
           \/ InstallHelper(r) \/ HelperInstalled(r) \/ GoOn(r) \/ Restart(r)
           \/ RestartFails(r) \/ Stop(r) \/ RestoreExe(r) \/ ExeRestored(r)
           \/ RestoreHelper(r) \/ HelperRestored(r) \/ StartAgain(r)
  <2>1. /\ lock' = lock /\ lock = r
        /\ pc'[r] # "scheduled"
    BY <1>5 DEF TypeOK, LockHeld, Synchronize, SaveExe, SaveHelper, Build, Link,
                InstallHelper, HelperInstalled, GoOn, Restart, RestartFails, Stop,
                RestoreExe, ExeRestored, RestoreHelper, HelperRestored, StartAgain,
                Move, Outcomes
  <2> QED
    BY <1>1, <2>1 DEF LockHeld
<1> QED
  BY <1>2, <1>3, <1>4, <1>5 DEF Step

\* What was prepared stays so.
LEMMA StepPrepared ==
  ASSUME TypeOK, LockHeld, Prepared, NEW r \in Runs, Step(r)
  PROVE  Prepared'
<1> USE DEF TypeOK, Prepared, NothingIsLost, AfterSave, Move, Finish, Outcomes, package,
            snapshot
<1>1. CASE Begin(r) \/ TurnedAway(r) \/ HandOver(r) \/ WorkerStarts(r) \/ GoOn(r)
  BY <1>1 DEF Begin, TurnedAway, HandOver, WorkerStarts, GoOn
<1>2. CASE Synchronize(r)
  BY <1>2 DEF Synchronize
<1>3. CASE SaveExe(r)
  BY <1>3 DEF SaveExe
<1>4. CASE SaveHelper(r) \/ InstallHelper(r) \/ HelperInstalled(r)
  BY <1>4 DEF SaveHelper, InstallHelper, HelperInstalled
<1>5. CASE Build(r) \/ Link(r)
  BY <1>5 DEF Build, Link
<1>6. CASE Restart(r) \/ RestartFails(r) \/ Stop(r) \/ StartAgain(r)
  BY <1>6 DEF Restart, RestartFails, Stop, StartAgain
<1>7. CASE Verified(r) \/ RolledBack(r) \/ Abort(r)
  BY <1>7 DEF Verified, RolledBack, Abort
<1>8. CASE RestoreExe(r) \/ ExeRestored(r)
  BY <1>8 DEF RestoreExe, ExeRestored
<1>9. CASE RestoreHelper(r) \/ HelperRestored(r)
  BY <1>9 DEF RestoreHelper, HelperRestored
<1> QED
  BY <1>1, <1>2, <1>3, <1>4, <1>5, <1>6, <1>7, <1>8, <1>9 DEF Step

\* A step of a run is progress of that run ...
LEMMA OwnProgress ==
  ASSUME TypeOK, NEW r \in Runs, Progress(r), Step(r)
  PROVE  Progress(r)'
<1> USE DEF TypeOK, Progress, AfterSave, Move, Finish, Outcomes, package, snapshot
<1>1. CASE Begin(r) \/ TurnedAway(r) \/ HandOver(r) \/ WorkerStarts(r) \/ GoOn(r)
  BY <1>1 DEF Begin, TurnedAway, HandOver, WorkerStarts, GoOn
<1>2. CASE Synchronize(r)
  BY <1>2 DEF Synchronize
<1>3. CASE SaveExe(r)
  BY <1>3 DEF SaveExe
<1>4. CASE SaveHelper(r)
  BY <1>4 DEF SaveHelper
<1>5. CASE Build(r) \/ Link(r)
  BY <1>5 DEF Build, Link
<1>6. CASE InstallHelper(r) \/ HelperInstalled(r)
  BY <1>6 DEF InstallHelper, HelperInstalled
<1>7. CASE Restart(r) \/ RestartFails(r) \/ Stop(r) \/ StartAgain(r)
  BY <1>7 DEF Restart, RestartFails, Stop, StartAgain
<1>8. CASE Verified(r) \/ RolledBack(r) \/ Abort(r)
  BY <1>8 DEF Verified, RolledBack, Abort
<1>9. CASE RestoreExe(r) \/ ExeRestored(r)
  BY <1>9 DEF RestoreExe, ExeRestored
<1>10. CASE RestoreHelper(r) \/ HelperRestored(r)
  BY <1>10 DEF RestoreHelper, HelperRestored
<1> QED
  BY <1>1, <1>2, <1>3, <1>4, <1>5, <1>6, <1>7, <1>8, <1>9, <1>10 DEF Step

\* ... and does not touch that of a run it cannot disturb: either nobody else has
\* begun, or the other run has the lock.
LEMMA OthersProgress ==
  ASSUME TypeOK, LockHeld, NEW r \in Runs, Step(r), NEW s \in Runs, s # r,
         Undisturbed(s)', Progress(s)
  PROVE  Progress(s)'
<1>1. /\ pc'[r] # "idle" /\ pc'[s] = pc[s]
      /\ pc[s] \notin AfterSave \/ s \in Inside \/ lock = s
  BY StepMoves DEF LockHeld, AfterSave, Outcomes
<1>2. s \notin Inside
  BY <1>1 DEF Undisturbed
<1>3. CASE pc[s] \notin AfterSave
  BY <1>1, <1>3 DEF Progress, AfterSave
<1>4. CASE lock = s
  <2>1. pc[r] \in {"idle", "scheduled"} \cup Outcomes /\ lock # None
    BY <1>4, DeploymentAssumption DEF LockHeld
  <2>2. TurnedAway(r)
    BY <2>1, StepMoves DEF Begin, WorkerStarts
  <2> QED
    BY <1>1, <2>2 DEF Progress, AfterSave, TurnedAway, package, snapshot
<1> QED
  BY <1>1, <1>2, <1>3, <1>4

\* The inductive invariant holds in every state.
THEOREM DeploymentInvariant == Spec => []DeploymentInv
<1>1. Init => DeploymentInv
  <2> SUFFICES ASSUME Init PROVE DeploymentInv
    OBVIOUS
  <2>1. 1 \in Commits
    BY DeploymentAssumption DEF Commits
  <2> QED
    BY <2>1 DEF Init, DeploymentInv, TypeOK, LockHeld, Prepared, NothingIsLost,
                AfterSave, Progress, Outcomes, Unfinished
<1>2. ASSUME DeploymentInv, [Next]_vars PROVE DeploymentInv'
  <2> USE <1>2 DEF DeploymentInv
  <2>1. CASE Push \/ Crash \/ AutoRestart
    <3>1. TypeOK'
      <4>1. CASE Push
        <5>1. /\ MaxCommit \in Nat
              /\ origin \in 1..MaxCommit /\ origin < MaxCommit /\ origin' = origin + 1
          BY <4>1, DeploymentAssumption DEF TypeOK, Commits, Push
        <5>2. origin' \in 1..MaxCommit
          BY ONLY <5>1
        <5> QED
          BY <4>1, <5>2 DEF TypeOK, Commits, Push, package, snapshot
      <4>2. CASE Crash \/ AutoRestart
        BY <4>2 DEF TypeOK, Crash, AutoRestart, Started, package, snapshot
      <4> QED
        BY <2>1, <4>1, <4>2
    <3> QED
      BY <2>1, <3>1 DEF LockHeld, Prepared, NothingIsLost, Progress, Undisturbed,
                        AfterSave, Push, Crash, AutoRestart, package, snapshot
  <2>2. CASE \E r \in Runs : Step(r)
    <3>1. PICK r \in Runs : Step(r)
      BY <2>2
    <3>2. TypeOK' /\ LockHeld' /\ Prepared'
      BY <3>1, StepType, StepLock, StepPrepared
    <3>3. ASSUME NEW s \in Runs, Undisturbed(s)' PROVE Progress(s)'
      <4>1. \A q \in Runs : pc'[q] = "idle" => pc[q] = "idle"
        BY <3>1, StepMoves
      <4>2. Progress(s)
        BY <3>3, <4>1 DEF Undisturbed
      <4> QED
        BY <3>1, <3>3, <4>2, OwnProgress, OthersProgress
    <3> QED
      BY <3>2, <3>3
  <2>3. CASE UNCHANGED vars
    BY <2>3 DEF vars, package, snapshot, TypeOK, LockHeld, Prepared, NothingIsLost, Progress,
                Undisturbed, AfterSave
  <2> QED
    BY <2>1, <2>2, <2>3 DEF Next, Ended
<1> QED
  BY <1>1, <1>2, PTL DEF Spec

\* Wherever the scripts are killed, there is a whole program on the disk or, of one
\* that has run, in the snapshot.
THEOREM NothingLost == Spec => []NothingIsLost
<1>1. DeploymentInv => NothingIsLost
  BY DEF DeploymentInv, Prepared
<1> QED
  BY <1>1, DeploymentInvariant, PTL

\* A run that nobody can disturb deploys or restores the whole package.
THEOREM Atomic == Spec => DeploymentIsAtomic
<1>1. ASSUME DeploymentInv, Next, NEW r \in Runs, Undisturbed(r)
      PROVE  /\ pc[r] # "succeeded" /\ pc'[r] = "succeeded" =>
                  live' = commit[r] /\ <<exe', helper'>> = <<commit[r], commit[r]>>
             /\ pc[r] # "rolled back" /\ pc'[r] = "rolled back" =>
                  live' = before[r] /\ exe' = before[r]
  <2>1. Progress(r) /\ TypeOK
    BY <1>1 DEF DeploymentInv
  <2>2. CASE Verified(r)
    BY <2>1, <2>2 DEF Verified, Finish, Move, Progress, TypeOK, package
  <2>3. CASE RolledBack(r)
    BY <2>1, <2>3 DEF RolledBack, Finish, Move, Progress, TypeOK, package, snapshot
  <2>4. CASE ~Verified(r) /\ ~RolledBack(r)
    <3>1. CASE Push \/ Crash \/ AutoRestart \/ Ended
      BY <3>1 DEF Push, Crash, AutoRestart, Ended, vars
    <3>2. CASE Step(r)
      BY <2>1, <2>4, <3>2, StepMoves
    <3>3. ASSUME NEW s \in Runs \ {r}, Step(s) PROVE pc'[r] = pc[r]
      BY <2>1, <3>3, StepMoves
    <3> QED
      BY <1>1, <3>1, <3>2, <3>3 DEF Next
  <2> QED
    BY <2>2, <2>3, <2>4
<1>2. DeploymentInv /\ [Next]_vars =>
        [\A r \in Runs :
           Undisturbed(r) =>
             /\ pc[r] # "succeeded" /\ pc'[r] = "succeeded" =>
                  live' = commit[r] /\ <<exe', helper'>> = <<commit[r], commit[r]>>
             /\ pc[r] # "rolled back" /\ pc'[r] = "rolled back" =>
                  live' = before[r] /\ exe' = before[r]]_vars
  BY <1>1
<1> QED
  BY <1>2, DeploymentInvariant, PTL DEF Spec, DeploymentIsAtomic
=============================================================================
