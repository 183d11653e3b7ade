----------------------------- MODULE Deployment -----------------------------
(***************************************************************************)
(* The guarded update of the installed service (deploy-user-service.sh):   *)
(* several runs of the script, the package they replace (the bridge and    *)
(* its browser helper, two files), the snapshot they roll back to, and the *)
(* service. A run started from inside the service hands the restart over   *)
(* to a transient unit, and the lock is free until that unit starts.       *)
(*                                                                         *)
(* A file is the commit it was built from. To replace one, `install` and   *)
(* cargo unlink it first and then write or link the new one: two steps, and *)
(* a script killed in between leaves no file, or a part of one. What the   *)
(* script verifies besides the identity of the running program (health,    *)
(* listeners, provenance) may fail at any time; so may every command, and  *)
(* the script may be killed.                                               *)
(***************************************************************************)
EXTENDS Naturals

CONSTANTS
  Runs,         \* runs of the script
  Inside,       \* those that are started by the service itself
  MaxCommit,    \* bound of the model: commits of origin/main
  Waiting,      \* the service has failed and systemd will start it again
  Partial,      \* a file that is not written to its end
  None          \* no file, no running service, nobody

Commits == 1 .. MaxCommit

ASSUME DeploymentAssumption ==
  /\ Inside \subseteq Runs
  /\ MaxCommit \in Nat \ {0}
  /\ None \notin Runs \cup Nat
  /\ Waiting \notin Nat \cup {None}
  /\ Partial \notin Nat \cup {None}

VARIABLES
  origin,       \* the head of origin/main
  exe, helper,  \* target/release/mcp-bridge and browser.cjs
  rollbackExe, rollbackHelper,   \* the snapshot in the state directory
  live,         \* what the running service was started from, Waiting or None
  lock,         \* who has deploy.lock
  pc,           \* where each run is
  commit,       \* expected_commit
  present,      \* ROLLBACK_BROWSER_PRESENT
  before, after   \* history: what ran when the run took its snapshot, and when it
                  \* reported success

package  == <<exe, helper>>
snapshot == <<rollbackExe, rollbackHelper, before, after>>
vars     == <<origin, package, snapshot, live, lock, pc, commit, present>>

\* The service runs the first package; the helper may be missing beside it.
Init ==
  /\ origin = 1 /\ exe = 1 /\ live = 1
  /\ helper \in {1, None}
  /\ rollbackExe = None /\ rollbackHelper = None
  /\ before = [r \in Runs |-> None] /\ after = [r \in Runs |-> None]
  /\ lock = None
  /\ pc = [r \in Runs |-> "idle"]
  /\ commit = [r \in Runs |-> None]
  /\ present = [r \in Runs |-> FALSE]

Outcomes == {"succeeded", "rolled back", "failed"}

Move(r, from, to) == pc[r] = from /\ pc' = [pc EXCEPT ![r] = to]

Finish(r, from, to) == Move(r, from, to) /\ lock' = None

-----------------------------------------------------------------------------
(* From the lock to the new package *)

\* A file while it is written by `install`: gone, or a part.
Unfinished == {None, Partial}

Begin_Unlocked(r) ==   \* Mutant: flock succeeds for everybody.
  /\ Move(r, "idle", "locked")
  /\ lock' = r
  /\ UNCHANGED <<origin, package, snapshot, live, commit, present>>

Begin(r) ==
  /\ Move(r, "idle", "locked")
  /\ lock = None /\ lock' = r
  /\ UNCHANGED <<origin, package, snapshot, live, commit, present>>

\* flock -n does not wait, neither for a script nor for a worker.
TurnedAway(r) ==
  /\ lock # None
  /\ \/ Move(r, "idle", "failed")
     \/ Move(r, "scheduled", "failed")
  /\ UNCHANGED <<origin, package, snapshot, live, lock, commit, present>>

\* git fetch and merge.
Synchronize(r) ==
  /\ Move(r, "locked", "synchronized")
  /\ commit' = [commit EXCEPT ![r] = origin]
  /\ UNCHANGED <<origin, package, snapshot, live, lock, present>>

SaveExe_Inactive(r) ==   \* Mutant: the service need not be active.
  /\ Move(r, "synchronized", "half saved")
  /\ rollbackExe' = live
  /\ before' = [before EXCEPT ![r] = live]
  /\ UNCHANGED <<origin, package, rollbackHelper, after, live, lock, commit,
                 present>>

\* The executable is copied from the running process, the helper from its path.
SaveExe(r) ==
  /\ Move(r, "synchronized", "half saved")
  /\ live \in Commits
  /\ rollbackExe' = live
  /\ before' = [before EXCEPT ![r] = live]
  /\ UNCHANGED <<origin, package, rollbackHelper, after, live, lock, commit,
                 present>>

SaveHelper(r) ==
  /\ Move(r, "half saved", "saved")
  /\ rollbackHelper' = helper
  /\ present' = [present EXCEPT ![r] = helper # None]
  /\ UNCHANGED <<origin, package, rollbackExe, before, after, live, lock, commit>>

\* package-release.sh: cargo build removes the program, unless it is up to date, and
\* links the new one in its place; then the helper is installed and checked.
Build(r) ==
  /\ Move(r, "saved", "linking")
  /\ exe' \in {exe, None} \cap {commit[r], None}
  /\ UNCHANGED <<origin, helper, snapshot, live, lock, commit, present>>

Link(r) ==
  /\ Move(r, "linking", "built")
  /\ exe' = commit[r]
  /\ UNCHANGED <<origin, helper, snapshot, live, lock, commit, present>>

InstallHelper(r) ==
  /\ Move(r, "built", "installing")
  /\ helper' \in Unfinished
  /\ UNCHANGED <<origin, exe, snapshot, live, lock, commit, present>>

HelperInstalled(r) ==
  /\ Move(r, "installing", "packaged")
  /\ helper' = commit[r]
  /\ UNCHANGED <<origin, exe, snapshot, live, lock, commit, present>>

-----------------------------------------------------------------------------
(* Restart and verification *)

\* systemd-run: the script ends, and its lock with it.
HandOver(r) ==
  /\ r \in Inside
  /\ Finish(r, "packaged", "scheduled")
  /\ UNCHANGED <<origin, package, snapshot, live, commit, present>>

WorkerStarts(r) ==
  /\ Move(r, "scheduled", "restarting")
  /\ lock = None /\ lock' = r
  /\ UNCHANGED <<origin, package, snapshot, live, commit, present>>

GoOn(r) ==
  /\ r \notin Inside
  /\ Move(r, "packaged", "restarting")
  /\ UNCHANGED <<origin, package, snapshot, live, lock, commit, present>>

\* What the service is after it was started from the disk: a program that is not
\* whole does not start, and any may fail afterwards.
Started == ({exe} \cap Commits) \cup {Waiting, None}

Restart(r) ==
  /\ Move(r, "restarting", "verifying")
  /\ live' \in Started
  /\ UNCHANGED <<origin, package, snapshot, lock, commit, present>>

\* systemctl restart fails, and may leave the old service running.
RestartFails(r) ==
  /\ Move(r, "restarting", "unverified")
  /\ live' \in {live, Waiting, None}
  /\ UNCHANGED <<origin, package, snapshot, lock, commit, present>>

\* The service runs the program on the disk, is healthy, and its provenance is
\* compared with the expected commit. But restart_and_verify is called in the
\* condition of an if, where bash ignores set -e, and the comparison is the one
\* check without a "return 1" of its own: its result is lost.
Verified(r) ==
  /\ live = exe /\ live \in Commits
  /\ Finish(r, "verifying", "succeeded")
  /\ after' = [after EXCEPT ![r] = live]
  /\ UNCHANGED <<origin, package, rollbackExe, rollbackHelper, before, live, commit,
                 present>>

-----------------------------------------------------------------------------
(* Rollback *)

\* The restart or the verification fails. That the service cannot be stopped is
\* ignored.
Stop(r) ==
  /\ Move(r, "verifying", "stopped") \/ Move(r, "unverified", "stopped")
  /\ live' \in {live, None}
  /\ UNCHANGED <<origin, package, snapshot, lock, commit, present>>

RestoreExe(r) ==
  /\ Move(r, "stopped", "restoring exe")
  /\ exe' \in Unfinished
  /\ UNCHANGED <<origin, helper, snapshot, live, lock, commit, present>>

ExeRestored(r) ==
  /\ Move(r, "restoring exe", "half restored")
  /\ exe' = rollbackExe
  /\ UNCHANGED <<origin, helper, snapshot, live, lock, commit, present>>

RestoreHelper(r) ==
  /\ present[r]
  /\ Move(r, "half restored", "restoring helper")
  /\ helper' \in Unfinished
  /\ UNCHANGED <<origin, exe, snapshot, live, lock, commit, present>>

HelperRestored(r) ==
  /\ \/ Move(r, "restoring helper", "restored") /\ helper' = rollbackHelper
     \/ ~present[r] /\ Move(r, "half restored", "restored") /\ UNCHANGED helper
  /\ UNCHANGED <<origin, exe, snapshot, live, lock, commit, present>>

StartAgain(r) ==
  /\ Move(r, "restored", "checking")
  /\ live' \in IF live \in Commits THEN {live} ELSE Started
  /\ UNCHANGED <<origin, package, snapshot, lock, commit, present>>

RolledBack(r) ==
  /\ live = exe /\ live \in Commits
  /\ Finish(r, "checking", "rolled back")
  /\ UNCHANGED <<origin, package, snapshot, live, commit, present>>

\* A command fails, a check before the restart or of the rollback does, or the
\* script is killed. Nothing is undone; the lock is freed with the process.
Abort(r) ==
  /\ pc[r] \notin {"idle", "scheduled"} \cup Outcomes
  /\ Finish(r, pc[r], "failed")
  /\ UNCHANGED <<origin, package, snapshot, live, commit, present>>

-----------------------------------------------------------------------------
(* The environment *)

Push ==
  /\ origin < MaxCommit
  /\ origin' = origin + 1
  /\ UNCHANGED <<package, snapshot, live, lock, pc, commit, present>>

\* Restart=on-failure: a service that fails is down for RestartSec, and is then
\* started from what is on the disk, unless systemd has given up.
Crash ==
  /\ live \in Commits
  /\ live' \in {Waiting, None}
  /\ UNCHANGED <<origin, package, snapshot, lock, pc, commit, present>>

AutoRestart ==
  /\ live = Waiting
  /\ live' \in Started
  /\ UNCHANGED <<origin, package, snapshot, lock, pc, commit, present>>

Step(r) ==
  \/ Begin(r) \/ TurnedAway(r) \/ Synchronize(r) \/ SaveExe(r) \/ SaveHelper(r)
  \/ Build(r) \/ Link(r) \/ InstallHelper(r) \/ HelperInstalled(r)
  \/ HandOver(r) \/ WorkerStarts(r) \/ GoOn(r)
  \/ Restart(r) \/ RestartFails(r) \/ Verified(r)
  \/ Stop(r) \/ RestoreExe(r) \/ ExeRestored(r) \/ RestoreHelper(r) \/ HelperRestored(r)
  \/ StartAgain(r) \/ RolledBack(r)
  \/ Abort(r)

Ended == (\A r \in Runs : pc[r] \in Outcomes) /\ UNCHANGED vars

Next == Push \/ Crash \/ AutoRestart \/ (\E r \in Runs : Step(r)) \/ Ended

Spec == Init /\ [][Next]_vars
-----------------------------------------------------------------------------
(* Properties *)

TypeOK ==
  /\ origin \in Commits
  /\ {exe, helper, rollbackHelper} \subseteq Commits \cup Unfinished
  /\ rollbackExe \in Commits \cup {None}
  /\ live \in Commits \cup {Waiting, None}
  /\ lock \in Runs \cup {None}
  /\ pc \in [Runs -> {"idle", "locked", "synchronized", "half saved", "saved",
                      "linking", "built", "installing", "packaged", "scheduled",
                      "restarting", "verifying", "unverified", "stopped",
                      "restoring exe", "half restored", "restoring helper",
                      "restored", "checking"}
                       \cup Outcomes]
  /\ commit \in [Runs -> Commits \cup {None}]
  /\ present \in [Runs -> BOOLEAN]
  /\ before \in [Runs -> Commits \cup {None}]
  /\ after \in [Runs -> Commits \cup {None}]

\* The program on the disk is removed before the next one takes its place, when it is
\* built and when it is restored; wherever a script is killed, and whatever the others
\* do, a whole program that has run is then in the snapshot.
NothingIsLost == exe \notin Commits => rollbackExe \in Commits

Undisturbed(r) == r \notin Inside \/ \A s \in Runs \ {r} : pc[s] = "idle"

\* A run that does not lose the lock, or has nobody to lose it to, either puts the
\* whole new package in place or goes back to the program that ran when it began,
\* whatever other scripts, workers of earlier hand-overs and crashes do meanwhile.
DeploymentIsAtomic ==
  [][\A r \in Runs :
       Undisturbed(r) =>
         /\ pc[r] # "succeeded" /\ pc'[r] = "succeeded" =>
              live' = commit[r] /\ <<exe', helper'>> = <<commit[r], commit[r]>>
         /\ pc[r] # "rolled back" /\ pc'[r] = "rolled back" =>
              live' = before[r] /\ exe' = before[r]]_vars

\* "rolls back the packaged binary/helper if verification fails" (README.md),
\* "snapshots the current package for rollback" (CHANGELOG.md): a rollback ends
\* with a binary and a helper of one package, if there was a helper.
RollbackIsOnePackage ==
  \A r \in Runs :
    pc[r] = "restored" /\ present[r] => helper = exe

\* "verifies process identity/listener/health/build provenance, and rolls back
\* [...] if verification fails" (README.md): a run that reports success has found
\* the commit it was to deploy.
SuccessIsExpectedCommit ==
  \A r \in Runs : pc[r] = "succeeded" => after[r] = commit[r]
=============================================================================
