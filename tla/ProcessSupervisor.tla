--------------------------- MODULE ProcessSupervisor ---------------------------
(***************************************************************************)
(* How a tool call runs a program: a reader task captures what it writes   *)
(* up to a limit, and the call ends when the program exits, when its       *)
(* deadline passes, or when its future is dropped because the client went  *)
(* away. On Unix the program leads a process group of its own, and a guard *)
(* held by the call kills the group by its number when it is dropped while *)
(* armed. On Windows a task of its own supervises the program: it learns   *)
(* that the call was dropped, has taskkill end the program's tree while    *)
(* the program still exists, and removes the script file that a long       *)
(* command was put in.                                                     *)
(*                                                                         *)
(* The operating system is part of the model: the program forks,           *)
(* descendants leave the group with setsid, and the number of a process    *)
(* that is gone is given to the next one, another call's or a stranger's.  *)
(* On Windows the tree of a program is what taskkill finds from it through *)
(* living parents; there a process number is free as soon as its process   *)
(* is gone, and taskkill is assumed to tell a parent from a later process  *)
(* with the parent's number. One stream stands for standard output and     *)
(* standard error.                                                         *)
(***************************************************************************)
EXTENDS Integers

CONSTANTS
  Calls,        \* calls of run_shell and run_program
  Stranger,     \* the owner of every other process of the system
  Pids,         \* process numbers (bound: processes that exist at once)
  Limit,        \* bytes captured from the stream, in units
  PipeSize,     \* capacity of the pipe, in the same units
  MaxSent,      \* bound: units written to one stream
  None

ASSUME SupervisorAssumption ==
  /\ Limit \in Nat /\ PipeSize \in Nat \ {0} /\ MaxSent \in Nat
  /\ Stranger \notin Calls /\ None \notin Pids

VARIABLES
  windows,      \* the system: FALSE on Unix
  procs,        \* the process table
  pc,           \* where the call is
  child,        \* the program the call has not waited for yet, or None
  guard,        \* the group number in the ProcessCleanup guard, or None
  code,         \* how the program ended, as far as the call knows
  gone,         \* Windows: the caller is gone, and the supervisor told
  script,       \* Windows: the temporary script file exists
  reader,       \* the reader task
  pipe,         \* units written and not read yet
  sent,         \* units written
  kept,         \* units captured
  truncated,    \* the flag of the capture
  \* history
  hurt,         \* <<c, o>> when call c signalled a process of o
  failed,       \* the calls whose taskkill failed
  stolen        \* the calls whose program somebody else has waited for

callVars   == <<pc, child, guard, code, script>>
winVars    == <<windows, gone, failed, stolen>>
streamVars == <<reader, pipe, sent, kept, truncated>>
vars       == <<winVars, procs, callVars, streamVars, hurt>>

NoProcess == [of |-> None, group |-> None, away |-> FALSE, up |-> FALSE]

\* away: it left the group it was born in or, on Windows, taskkill does not find it
\* from the program, because a process between them has exited. A process that is
\* not up and not NoProcess is a zombie.
Processes ==
  [of : Calls \cup {Stranger}, group : Pids, away : BOOLEAN, up : BOOLEAN]

Live(p) == procs[p].up
Of(c)   == {p \in Pids : Live(p) /\ procs[p].of = c}

\* The group of the number g or, on Windows, the tree of the program g.
Member(p, g) == procs[p].group = g /\ ~(windows /\ procs[p].away)
Group(g)     == {p \in Pids : Live(p) /\ Member(p, g)}

\* A number is free when no process has it and, on Unix, no process group does.
Free == {p \in Pids : /\ procs[p] = NoProcess
                      /\ \A q \in Pids : ~Member(q, p)}

\* The table after the processes in ps have died: the parent of a program still
\* has to wait for it, everybody else is reaped by init. On Windows no tree is left
\* of a program that has died.
Dead(ps) ==
  [p \in Pids |->
     IF p \in ps
     THEN IF \E c \in Calls : child[c] = p THEN [procs[p] EXCEPT !.up = FALSE]
          ELSE NoProcess
     ELSE IF windows /\ procs[p].group \in ps THEN [procs[p] EXCEPT !.away = TRUE]
     ELSE procs[p]]

Signals(c, ps) == hurt \cup {<<c, procs[p].of>> : p \in ps}

Init ==
  /\ windows \in BOOLEAN
  /\ procs = [p \in Pids |-> NoProcess]
  /\ pc = [c \in Calls |-> "new"]
  /\ child = [c \in Calls |-> None]
  /\ guard = [c \in Calls |-> None]
  /\ code = [c \in Calls |-> "none"]
  /\ reader = [c \in Calls |-> "none"]
  /\ pipe = [c \in Calls |-> 0]
  /\ sent = [c \in Calls |-> 0]
  /\ kept = [c \in Calls |-> 0]
  /\ truncated = [c \in Calls |-> FALSE]
  /\ gone = [c \in Calls |-> FALSE]
  /\ script = [c \in Calls |-> FALSE]
  /\ hurt = {} /\ failed = {} /\ stolen = {}

-----------------------------------------------------------------------------
(* The operating system *)

\* A process forks; the new one inherits its group and its streams.
Fork(q) ==
  /\ Live(q)
  /\ \E p \in Free : procs' = [procs EXCEPT ![p] = procs[q]]
  /\ UNCHANGED <<winVars, callVars, streamVars, hurt>>

\* setsid, by a process that leads no group.
Detach(q) ==
  /\ ~windows
  /\ Live(q) /\ procs[q].group # q
  /\ procs' = [procs EXCEPT ![q].group = q, ![q].away = TRUE]
  /\ UNCHANGED <<winVars, callVars, streamVars, hurt>>

\* It exits by itself, or because of a SIGTERM. On Windows those that were found
\* through it are not found any more.
Die(q) ==
  /\ Live(q)
  /\ \E lost \in SUBSET (Group(procs[q].group) \ {q, procs[q].group}) :
       /\ lost # {} => windows
       /\ procs' = [p \in Pids |-> IF p \in lost THEN [procs[p] EXCEPT !.away = TRUE]
                                   ELSE Dead({q})[p]]
  /\ UNCHANGED <<winVars, callVars, streamVars, hurt>>

\* A program the bridge has nothing to do with starts.
StrangerStarts ==
  /\ \E p \in Free :
       procs' = [procs EXCEPT ![p] =
                   [of |-> Stranger, group |-> p, away |-> FALSE, up |-> TRUE]]
  /\ UNCHANGED <<winVars, callVars, streamVars, hurt>>

\* A process of call c writes, when the pipe has room.
Write(c) ==
  /\ Of(c) # {} /\ reader[c] = "reading"
  /\ pipe[c] < PipeSize /\ sent[c] < MaxSent
  /\ pipe' = [pipe EXCEPT ![c] = @ + 1]
  /\ sent' = [sent EXCEPT ![c] = @ + 1]
  /\ UNCHANGED <<winVars, procs, callVars, reader, kept, truncated, hurt>>

-----------------------------------------------------------------------------
(* The reader task *)

\* What of n units fits in the capture.
Fits(c, n) == LET room == Limit - kept[c] IN IF n < room THEN n ELSE room

Append_Silent(c, n) ==   \* Mutant: what does not fit is dropped unnoticed.
  /\ kept' = [kept EXCEPT ![c] = @ + Fits(c, n)]
  /\ UNCHANGED truncated

Append_Late(c, n) ==   \* Mutant: the limit is looked at before the append only.
  LET keep == IF kept[c] < Limit THEN n ELSE 0
  IN  /\ kept' = [kept EXCEPT ![c] = @ + keep]
      /\ truncated' = [truncated EXCEPT ![c] = @ \/ keep < n]

\* Capture::append of n units.
Append(c, n) ==
  /\ kept' = [kept EXCEPT ![c] = @ + Fits(c, n)]
  /\ truncated' = [truncated EXCEPT ![c] = @ \/ Fits(c, n) < n]

Read_Stops(c) ==   \* Mutant: it stops reading when the capture is full.
  /\ reader[c] = "reading" /\ ~truncated[c]
  /\ \E n \in 1..pipe[c] :
       /\ Append(c, n)
       /\ pipe' = [pipe EXCEPT ![c] = @ - n]
  /\ UNCHANGED <<winVars, procs, callVars, reader, sent, hurt>>

\* It goes on reading after the capture is full.
Read(c) ==
  /\ reader[c] = "reading"
  /\ \E n \in 1..pipe[c] :
       /\ Append(c, n)
       /\ pipe' = [pipe EXCEPT ![c] = @ - n]
  /\ UNCHANGED <<winVars, procs, callVars, reader, sent, hurt>>

\* Reading fails: a report, of one unit, is appended, and nothing more is read. The
\* capture is not marked.
ReadFails(c) ==
  /\ reader[c] = "reading"
  /\ Append(c, 1)
  /\ reader' = [reader EXCEPT ![c] = "failed"]
  /\ UNCHANGED <<winVars, procs, callVars, pipe, sent, hurt>>

\* End of file: nobody is left who could write.
ReadEnd(c) ==
  /\ reader[c] = "reading"
  /\ pipe[c] = 0 /\ Of(c) = {}
  /\ reader' = [reader EXCEPT ![c] = "finished"]
  /\ UNCHANGED <<winVars, procs, callVars, pipe, sent, kept, truncated, hurt>>

-----------------------------------------------------------------------------
(* The call: run_command_inner, on Windows in a task of its own *)

\* run_shell: on Windows a long command is written to a script file first.
RunShell(c) == script' = [script EXCEPT ![c] = windows]

Spawn(c) ==
  /\ pc[c] = "new"
  /\ \E p \in Free :
       /\ procs' = [procs EXCEPT ![p] =
                      [of |-> c, group |-> p, away |-> FALSE, up |-> TRUE]]
       /\ child' = [child EXCEPT ![c] = p]
       /\ guard' = [guard EXCEPT ![c] = IF windows THEN None ELSE p]
  /\ RunShell(c)
  /\ pc' = [pc EXCEPT ![c] = "running"]
  /\ reader' = [reader EXCEPT ![c] = "reading"]
  /\ UNCHANGED <<winVars, code, pipe, sent, kept, truncated, hurt>>

\* Or the script file cannot be written. The output is process_error's report.
SpawnFails(c) ==
  /\ pc[c] = "new"
  /\ pc' = [pc EXCEPT ![c] = "done"]
  /\ code' = [code EXCEPT ![c] = "not_started"]
  /\ Append(c, 1)
  /\ UNCHANGED <<winVars, procs, child, guard, script, reader, pipe, sent, hurt>>

\* The program has exited and is waited for: from here its number may be given
\* away. Background work it left behind is not touched.
Exited_StaysArmed(c) ==   \* Mutant: the guard is not disarmed.
  /\ pc[c] = "running" /\ ~Live(child[c])
  /\ procs' = [procs EXCEPT ![child[c]] = NoProcess]
  /\ child' = [child EXCEPT ![c] = None]
  /\ code' = [code EXCEPT ![c] = "exited"]
  /\ pc' = [pc EXCEPT ![c] = "draining"]
  /\ UNCHANGED <<winVars, guard, script, streamVars, hurt>>

Exited(c) ==
  /\ pc[c] = "running" /\ ~Live(child[c])
  /\ procs' = [procs EXCEPT ![child[c]] = NoProcess]
  /\ child' = [child EXCEPT ![c] = None]
  /\ guard' = [guard EXCEPT ![c] = None]
  /\ code' = [code EXCEPT ![c] = "exited"]
  /\ pc' = [pc EXCEPT ![c] = "draining"]
  /\ UNCHANGED <<winVars, script, streamVars, hurt>>

\* Waiting fails: the guard stays armed until the call returns. On Unix perhaps
\* because somebody else has waited for the program: then its number may already be
\* another's.
WaitFails(c) ==
  /\ pc[c] = "running"
  /\ \/ UNCHANGED <<procs, child, stolen>>
     \/ /\ ~windows /\ ~Live(child[c])
        /\ procs' = [procs EXCEPT ![child[c]] = NoProcess]
        /\ child' = [child EXCEPT ![c] = None]
        /\ stolen' = stolen \cup {c}
  /\ code' = [code EXCEPT ![c] = "wait_failed"]
  /\ pc' = [pc EXCEPT ![c] = "draining"]
  /\ UNCHANGED <<windows, gone, failed, guard, script, streamVars, hurt>>

\* The deadline passes (child.wait() is polled first): on Unix, SIGTERM to the
\* group.
TimedOut(c) ==
  /\ pc[c] = "running" /\ Live(child[c])
  /\ hurt' = IF windows THEN hurt ELSE Signals(c, Group(child[c]))
  /\ pc' = [pc EXCEPT ![c] = "terminating"]
  /\ UNCHANGED <<winVars, procs, child, guard, code, script, streamVars>>

\* The supervisor learns that the caller is gone, whatever the program does.
Cancelled(c) ==
  /\ pc[c] = "running" /\ gone[c]
  /\ pc' = [pc EXCEPT ![c] = "terminating"]
  /\ UNCHANGED <<winVars, procs, child, guard, code, script, streamVars, hurt>>

\* 250 ms later: SIGKILL to the group.
KillGroup_RootOnly(c) ==   \* Mutant: child.kill().
  /\ ~windows /\ pc[c] = "terminating"
  /\ procs' = Dead(Group(child[c]) \cap {child[c]})
  /\ hurt' = Signals(c, Group(child[c]) \cap {child[c]})
  /\ pc' = [pc EXCEPT ![c] = "reaping"]
  /\ UNCHANGED <<winVars, child, guard, code, script, streamVars>>

KillGroup(c) ==
  /\ ~windows /\ pc[c] = "terminating"
  /\ procs' = Dead(Group(child[c]))
  /\ hurt' = Signals(c, Group(child[c]))
  /\ pc' = [pc EXCEPT ![c] = "reaping"]
  /\ UNCHANGED <<winVars, child, guard, code, script, streamVars>>

\* taskkill ends the tree; or it fails, which it does when the program has exited,
\* or runs for 2 s, having ended a part: then the program is killed by itself.
TaskKill(c) ==
  LET tree == Group(child[c]) IN
  /\ windows /\ pc[c] = "terminating"
  /\ \E doomed \in SUBSET tree, ended \in BOOLEAN :
       /\ IF ended THEN Live(child[c]) /\ doomed = tree
          ELSE tree \cap {child[c]} \subseteq doomed
       /\ procs' = Dead(doomed)
       /\ hurt' = Signals(c, doomed)
       /\ failed' = IF ended THEN failed ELSE failed \cup {c}
  /\ pc' = [pc EXCEPT ![c] = "reaping"]
  /\ UNCHANGED <<windows, gone, stolen, child, guard, code, script, streamVars>>

Reaped(c) ==
  /\ pc[c] = "reaping" /\ ~Live(child[c])
  /\ procs' = [procs EXCEPT ![child[c]] = NoProcess]
  /\ child' = [child EXCEPT ![c] = None]
  /\ guard' = [guard EXCEPT ![c] = None]
  /\ code' = [code EXCEPT ![c] = "timed_out"]
  /\ pc' = [pc EXCEPT ![c] = "draining"]
  /\ UNCHANGED <<winVars, script, streamVars, hurt>>

\* The locals of the call are dropped: an armed guard kills the group, then the
\* handle of a program not waited for kills it by its number and leaves it to be
\* reaped, and last the script file is removed.
DropLocals(c) ==
  LET doomed == {p \in Pids : /\ Live(p)
                              /\ \/ p = child[c]
                                 \/ guard[c] \in {p, procs[p].group}}
  IN  /\ procs' = [p \in Pids |-> IF p = child[c] THEN NoProcess
                                  ELSE Dead(doomed)[p]]
      /\ hurt' = Signals(c, doomed)
      /\ child' = [child EXCEPT ![c] = None]
      /\ guard' = [guard EXCEPT ![c] = None]
      /\ script' = [script EXCEPT ![c] = FALSE]

\* finish_reader: the reader has ended; then a failed wait is reported.
Drained(c) ==
  /\ pc[c] = "draining" /\ reader[c] \in {"finished", "failed"}
  /\ Append(c, IF code[c] = "wait_failed" THEN 1 ELSE 0)
  /\ DropLocals(c)
  /\ pc' = [pc EXCEPT ![c] = "done"]
  /\ UNCHANGED <<winVars, code, reader, pipe, sent>>

\* Somebody keeps the stream open: after 100 ms the reader is aborted.
GraceOver_Patient(c) ==   \* Mutant: it waits until a capture is full.
  /\ pc[c] = "draining" /\ reader[c] = "reading" /\ truncated[c]
  /\ reader' = [reader EXCEPT ![c] = "aborted"]
  /\ DropLocals(c)
  /\ pc' = [pc EXCEPT ![c] = "done"]
  /\ UNCHANGED <<winVars, code, pipe, sent, kept, truncated>>

GraceOver(c) ==
  /\ pc[c] = "draining" /\ reader[c] = "reading"
  /\ reader' = [reader EXCEPT ![c] = "aborted"]
  /\ truncated' = [truncated EXCEPT ![c] = TRUE]
  /\ kept' = [kept EXCEPT ![c] = @ + Fits(c, IF code[c] = "wait_failed" THEN 1 ELSE 0)]
  /\ DropLocals(c)
  /\ pc' = [pc EXCEPT ![c] = "done"]
  /\ UNCHANGED <<winVars, code, pipe, sent>>

Underway == {"running", "terminating", "reaping", "draining"}

\* The future that runs the program is dropped at any await.
Abandoned(c, end) ==
  /\ pc[c] \in Underway
  /\ reader' = [reader EXCEPT ![c] = IF @ = "reading" THEN "aborted" ELSE @]
  /\ DropLocals(c)
  /\ pc' = [pc EXCEPT ![c] = end]
  /\ UNCHANGED <<winVars, code, pipe, sent, kept, truncated>>

\* Mutant: the script file belongs to the caller.
Dropped_WithScript(c) ==
  IF ~windows THEN Abandoned(c, "dropped")
  ELSE /\ pc[c] \in Underway \cup {"new"} /\ ~gone[c]
       /\ gone' = [gone EXCEPT ![c] = TRUE]
       /\ script' = [script EXCEPT ![c] = FALSE]
       /\ UNCHANGED <<windows, failed, stolen, procs, pc, child, guard, code, streamVars,
                      hurt>>

\* The client goes away: on Unix the future of the call runs the program; on
\* Windows the supervisor, perhaps before it has started the program.
Dropped(c) ==
  IF ~windows THEN Abandoned(c, "dropped")
  ELSE /\ pc[c] \in Underway \cup {"new"} /\ ~gone[c]
       /\ gone' = [gone EXCEPT ![c] = TRUE]
       /\ UNCHANGED <<windows, failed, stolen, procs, callVars, streamVars, hurt>>

\* Windows: the bridge itself ends, and with it the supervisor.
BridgeEnds(c) == windows /\ Abandoned(c, "stopped")

Next ==
  \/ \E q \in Pids : Fork(q) \/ Detach(q) \/ Die(q)
  \/ StrangerStarts
  \/ \E c \in Calls :
       \/ Write(c) \/ Read(c) \/ ReadFails(c) \/ ReadEnd(c)
       \/ Spawn(c) \/ SpawnFails(c)
       \/ Exited(c) \/ WaitFails(c)
       \/ TimedOut(c) \/ Cancelled(c) \/ KillGroup(c) \/ TaskKill(c) \/ Reaped(c)
       \/ Drained(c) \/ GraceOver(c) \/ Dropped(c) \/ BridgeEnds(c)

Spec == Init /\ [][Next]_vars

\* What the call, or its supervisor, does next when it is polled.
Polled(c) ==
  \/ Exited(c) \/ Cancelled(c) \/ KillGroup(c) \/ TaskKill(c) \/ Reaped(c)
  \/ Drained(c) \/ GraceOver(c)

\* The runtime polls the call, its supervisor and its reader, short timers fire,
\* taskkill runs for 2 s at most, and a program that wants to write does when it can.
\* Nothing else is assumed of the program, of what it leaves behind, or of the
\* deadline.
PolledSpec ==
  Spec /\ \A c \in Calls : WF_vars(Polled(c)) /\ WF_vars(Read(c)) /\ WF_vars(Write(c))

-----------------------------------------------------------------------------
(* Properties *)

TypeOK ==
  /\ procs \in [Pids -> Processes \cup {NoProcess}]
  /\ pc \in [Calls -> {"new", "running", "terminating", "reaping", "draining",
                       "done", "dropped", "stopped"}]
  /\ child \in [Calls -> Pids \cup {None}]
  /\ guard \in [Calls -> Pids \cup {None}]
  /\ code \in [Calls -> {"none", "not_started", "exited", "wait_failed",
                         "timed_out"}]
  /\ reader \in [Calls -> {"none", "reading", "finished", "failed", "aborted"}]
  /\ pipe \in [Calls -> 0..PipeSize]
  /\ sent \in [Calls -> 0..MaxSent]
  /\ kept \in [Calls -> 0..Limit]
  /\ truncated \in [Calls -> BOOLEAN]
  /\ windows \in BOOLEAN
  /\ gone \in [Calls -> BOOLEAN] /\ script \in [Calls -> BOOLEAN]
  /\ hurt \subseteq Calls \X (Calls \cup {Stranger})
  /\ failed \subseteq Calls /\ stolen \subseteq Calls

\* A call signals groups by number, and numbers are given away again: still it
\* never reaches a process that another call or a stranger started, unless somebody
\* else has waited for its program; and once the program has exited in time, nothing
\* it left behind is signalled, whatever happens to the call after that ("Successful
\* completion may intentionally leave detached background work").
OnlyOwnProcesses ==
  \A s \in hurt : (s[1] = s[2] \/ s[1] \in stolen) /\ code[s[1]] # "exited"

\* A call that timed out or was dropped while the program ran leaves no process in
\* the program's group or, on Windows, in its tree, unless taskkill fails: there
\* the dropped call is cleaned up "while the root process still exists, so that
\* taskkill can find its descendants". The same on Unix when waiting fails.
GroupIsGone ==
  \A c \in Calls \ failed :
    \/ code[c] = "timed_out"
    \/ pc[c] = "dropped" /\ code[c] # "exited"
    \/ gone[c] /\ pc[c] = "done" /\ code[c] \notin {"exited", "wait_failed"}
    \/ ~windows /\ pc[c] = "done" /\ code[c] = "wait_failed"
    => \A p \in Of(c) : procs[p].away

\* On Windows the program finds its script for as long as it runs, also when the
\* caller is gone, and no end of the call leaves the file behind, as long as the
\* bridge is not killed itself.
ScriptIsHeld ==
  \A c \in Calls :
    /\ windows /\ child[c] # None /\ Live(child[c]) => script[c]
    /\ pc[c] \notin Underway => ~script[c]

\* The reports in the output of a call that is done: of the reader, and of the call.
Reports(c) ==
  (IF reader[c] = "failed" THEN 1 ELSE 0)
  + (IF code[c] \in {"not_started", "wait_failed"} THEN 1 ELSE 0)

\* An output that is not marked truncated is everything that was, and ever will
\* be, written to the stream, and the report of each error; if the reader has met
\* one, its report is in it and what was left in the pipe, or came later, is not.
UnmarkedIsComplete ==
  \A c \in Calls :
    pc[c] = "done" /\ ~truncated[c] =>
      /\ kept[c] = sent[c] - pipe[c] + Reports(c)
      /\ pipe[c] > 0 \/ Of(c) # {} => reader[c] = "failed"

\* When its deadline does pass, as long as its caller waits, the call ends, though the
\* program hangs and descendants hold its streams; and it needs no deadline when the
\* caller is gone.
EveryCallEnds ==
  \A c \in Calls :
    WF_vars(~gone[c] /\ TimedOut(c)) => (pc[c] = "running" ~> pc[c] \notin Underway)

\* A program that writes more than the capture takes is not blocked by it, and
\* needs no deadline to go on, as long as its output can be read.
OutputNeverBlocks ==
  \A c \in Calls :
    pc[c] = "running" ~>
      \/ sent[c] = MaxSent \/ reader[c] # "reading"
      \/ pc[c] # "running" \/ ~Live(child[c])
=============================================================================
