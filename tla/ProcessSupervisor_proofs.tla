----------------------- MODULE ProcessSupervisor_proofs -----------------------
(* Theorems about ProcessSupervisor, for any calls, any process numbers, any   *)
(* limits, on Unix and on Windows.                                             *)
EXTENDS ProcessSupervisor, TLAPS

-----------------------------------------------------------------------------
(* The inductive invariant behind the safety properties *)

\* A number in use as a group, or as the root of a tree, is not the number of a
\* process outside it, and the processes of a group have one owner.
TableOK ==
  \A p, q \in Pids :
    /\ procs[p] # NoProcess /\ ~Member(p, p) => ~Member(q, p)
    /\ \A g \in Pids : Member(p, g) /\ Member(q, g) => procs[p].of = procs[q].of

\* The number of the group, or of the tree, that the call would kill.
Leader(c) == IF guard[c] = None THEN child[c] ELSE guard[c]

\* Until it is waited for, the program leads a group that has its number, on Unix
\* the one in the guard; what is not in the group any more is away.
OwnsGroup(c) ==
  /\ child[c] # None => procs[child[c]].of = c /\ Member(child[c], child[c])
  /\ c \notin stolen => guard[c] = IF windows THEN None ELSE child[c]
  /\ Leader(c) # None => \A p \in Of(c) : procs[p].away \/ procs[p].group = Leader(c)

\* What the stages of a call have in common with its program, its script and whom
\* it has signalled.
StageOK(c) ==
  /\ child[c] # None <=>
       \/ pc[c] \in {"running", "terminating", "reaping"}
       \/ pc[c] = "draining" /\ code[c] = "wait_failed" /\ c \notin stolen
  /\ c \in stolen => /\ ~windows /\ code[c] = "wait_failed"
                     /\ pc[c] = "draining" => guard[c] # None
  /\ pc[c] \in {"new", "running", "terminating", "reaping"} => code[c] = "none"
  /\ pc[c] \in {"draining", "done"} => code[c] # "none"
  /\ code[c] = "not_started" => pc[c] = "done"
  /\ pc[c] = "new" \/ code[c] = "not_started" => Of(c) = {}
  /\ pc[c] = "dropped" => ~windows
  /\ script[c] <=> windows /\ pc[c] \in Underway
  /\ \A o \in Calls \cup {Stranger} : <<c, o>> \in hurt =>
       /\ o = c \/ c \in stolen
       /\ pc[c] \notin {"new", "running"} /\ code[c] # "exited"

\* Once its group, or its tree, has been killed, all that is left of a call is away.
CleanOK(c) ==
  c \notin failed /\ \/ pc[c] = "reaping" \/ code[c] = "timed_out"
                     \/ pc[c] = "dropped" /\ code[c] # "exited"
                     \/ ~windows /\ pc[c] = "done" /\ code[c] = "wait_failed"
    => \A p \in Of(c) : procs[p].away

\* The reports made so far.
Filed(c) ==
  (IF reader[c] = "failed" THEN 1 ELSE 0)
  + (IF code[c] = "not_started" \/ (code[c] = "wait_failed" /\ pc[c] = "done")
     THEN 1 ELSE 0)

\* What is not in the capture and not marked is in the pipe, and the reader only
\* finishes when nobody can write any more.
StreamOK(c) ==
  /\ reader[c] = "none" <=> pc[c] = "new" \/ code[c] = "not_started"
  /\ reader[c] = "none" => pipe[c] = 0
  /\ reader[c] = "finished" => pipe[c] = 0 /\ Of(c) = {}
  /\ truncated[c] \/ kept[c] + pipe[c] = sent[c] + Filed(c)
  /\ pc[c] = "done" => truncated[c] \/ reader[c] \in {"none", "finished", "failed"}

CallOK(c) == OwnsGroup(c) /\ StageOK(c) /\ CleanOK(c) /\ StreamOK(c)

SupervisorInv == TypeOK /\ TableOK /\ \A c \in Calls : CallOK(c)

-----------------------------------------------------------------------------
(* The process table *)

Rows == Processes \cup {NoProcess}

LEMMA RowTypes ==
  ASSUME NEW row \in Rows
  PROVE  /\ row.up \in BOOLEAN /\ row.away \in BOOLEAN
         /\ row = NoProcess <=> row.group \notin Pids
         /\ row = NoProcess <=> row.group = None
         /\ row.up => row # NoProcess /\ row.of \in Calls \cup {Stranger}
         /\ row # NoProcess => row \in Processes
<1>1. CASE row = NoProcess
  BY <1>1, SupervisorAssumption DEF NoProcess
<1>2. CASE row \in Processes
  <2>1. /\ row.up \in BOOLEAN /\ row.away \in BOOLEAN /\ row.group \in Pids
        /\ row.of \in Calls \cup {Stranger}
    BY <1>2 DEF Processes
  <2>2. row.group # None
    BY <2>1, SupervisorAssumption
  <2>3. row # NoProcess
    BY <2>2 DEF NoProcess
  <2> QED
    BY <1>2, <2>1, <2>2, <2>3
<1> QED
  BY <1>1, <1>2 DEF Rows

\* Changing one field of a row.
LEMMA RowUpdates ==
  ASSUME NEW row \in Rows, NEW new
  PROVE  /\ new = [row EXCEPT !.up = FALSE] =>
              /\ new \in Rows /\ new.up = FALSE /\ new.away = row.away
              /\ new.of = row.of /\ new.group = row.group
         /\ row # NoProcess /\ new = [row EXCEPT !.away = TRUE] =>
              /\ new \in Rows /\ new.up = row.up /\ new.away = TRUE
              /\ new.of = row.of /\ new.group = row.group
<1>1. CASE row = NoProcess
  <2>1. new = [row EXCEPT !.up = FALSE] => new = NoProcess
    BY <1>1 DEF NoProcess
  <2>2. NoProcess.up = FALSE
    BY DEF NoProcess
  <2> QED
    BY <1>1, <2>1, <2>2
<1>2. CASE row \in Processes
  <2>1. ASSUME new = [row EXCEPT !.up = FALSE]
        PROVE  /\ new \in Processes /\ new.up = FALSE /\ new.away = row.away
               /\ new.of = row.of /\ new.group = row.group
    BY <1>2, <2>1 DEF Processes
  <2>2. ASSUME new = [row EXCEPT !.away = TRUE]
        PROVE  /\ new \in Processes /\ new.up = row.up /\ new.away = TRUE
               /\ new.of = row.of /\ new.group = row.group
    BY <1>2, <2>2 DEF Processes
  <2> QED
    BY <2>1, <2>2 DEF Rows
<1> QED
  BY <1>1, <1>2 DEF Rows

\* A step that starts no process and changes no group.
Shrinks ==
  \A p \in Pids :
    \/ procs'[p] = NoProcess
    \/ /\ procs'[p].of = procs[p].of /\ procs'[p].group = procs[p].group
       /\ procs[p].away => procs'[p].away
       /\ procs[p].group = p => procs'[p].away = procs[p].away
       /\ procs'[p].up => procs[p].up

\* A live process of call d is one that lived before, or was forked by one; it may
\* have got away, never back.
Inherits(d) ==
  \A p \in Pids : procs'[p].up /\ procs'[p].of = d =>
    \E q \in Of(d) :
      \/ procs'[p].away
      \/ ~procs[q].away /\ procs'[p].group = procs[q].group

\* The program of call d is still there.
KeepsProgram(d) ==
  child[d] # None => /\ procs'[child[d]].of = procs[child[d]].of
                     /\ procs'[child[d]].group = procs[child[d]].group
                     /\ procs'[child[d]].away = procs[child[d]].away

LEMMA ShrinksSafe ==
  ASSUME SupervisorInv, Shrinks, procs' \in [Pids -> Rows], windows' = windows
  PROVE  TableOK' /\ \A d \in Calls : Inherits(d)
<1>1. TableOK /\ procs \in [Pids -> Rows]
  BY DEF SupervisorInv, TypeOK, Rows
<1>2. ASSUME NEW x \in Pids, NEW g \in Pids, Member(x, g)'
      PROVE  Member(x, g) /\ procs'[x].of = procs[x].of
  <2>1. procs'[x] # NoProcess /\ procs[x] \in Rows /\ procs'[x] \in Rows
    BY <1>1, <1>2, RowTypes DEF Member
  <2> QED
    BY <1>2, <2>1, RowTypes DEF Shrinks, Member
<1>3. ASSUME NEW x \in Pids, procs'[x] # NoProcess, Member(x, x)
      PROVE  Member(x, x)'
  BY <1>3 DEF Shrinks, Member
<1>4. ASSUME NEW p \in Pids, NEW q \in Pids
      PROVE  /\ procs'[p] # NoProcess /\ ~Member(p, p)' => ~Member(q, p)'
             /\ \A g \in Pids : Member(p, g)' /\ Member(q, g)' => procs'[p].of = procs'[q].of
  <2>1. procs[p] \in Rows /\ procs'[p] \in Rows
    BY <1>1
  <2>2. ASSUME procs'[p] # NoProcess, ~Member(p, p)'
        PROVE  procs[p] # NoProcess /\ ~Member(p, p)
    <3>1. ~Member(p, p)
      BY <1>3, <2>2
    <3>2. procs'[p].group = procs[p].group
      BY <2>2 DEF Shrinks
    <3> QED
      BY <2>1, <2>2, <3>1, <3>2, RowTypes
  <2> QED
    BY <1>1, <1>2, <2>2 DEF TableOK
<1>5. TableOK'
  BY <1>4 DEF TableOK
<1>6. ASSUME NEW d \in Calls, NEW p \in Pids, procs'[p].up, procs'[p].of = d
      PROVE  \E q \in Of(d) :
               \/ procs'[p].away
               \/ ~procs[q].away /\ procs'[p].group = procs[q].group
  <2>1. procs'[p] # NoProcess /\ procs[p] \in Rows /\ procs'[p] \in Rows
    BY <1>1, <1>6, RowTypes
  <2>2. p \in Of(d)
    BY <1>6, <2>1 DEF Shrinks, Of, Live
  <2> QED
    BY <2>1, <2>2 DEF Shrinks
<1> QED
  BY <1>5, <1>6 DEF Inherits

\* What becomes of the row of process p when those in ps are killed.
DeadRow(p, ps, new) ==
  /\ p \in ps => ~new.up
  /\ \/ new = NoProcess /\ p \in ps
     \/ /\ new.of = procs[p].of /\ new.group = procs[p].group
        /\ procs[p].away => new.away
        /\ procs[p].group = p => new.away = procs[p].away
        /\ new.up => procs[p].up
  /\ ~windows /\ p \notin ps => new = procs[p]
  /\ \A d \in Calls : p = child[d] =>
       /\ new.of = procs[p].of /\ new.group = procs[p].group
       /\ new.away = procs[p].away

\* Killing processes shrinks the table, and leaves a program to be waited for.
LEMMA DeadSafe ==
  ASSUME SupervisorInv, NEW ps \in SUBSET Pids, NEW table, table = Dead(ps)
  PROVE  /\ table \in [Pids -> Rows]
         /\ \A p \in Pids : DeadRow(p, ps, table[p])
<1>1. procs \in [Pids -> Rows]
  BY DEF SupervisorInv, TypeOK, Rows
<1>2. ASSUME NEW p \in Pids
      PROVE  table[p] \in Rows /\ DeadRow(p, ps, table[p])
  <2>1. procs[p] \in Rows
    BY <1>1
  <2>2. \A d \in Calls : p = child[d] => procs[p].group = p
    <3> SUFFICES ASSUME NEW d \in Calls, p = child[d]
                 PROVE  procs[p].group = p
      OBVIOUS
    <3>1. OwnsGroup(d) /\ child[d] # None
      BY SupervisorAssumption DEF SupervisorInv, CallOK
    <3> QED
      BY <3>1 DEF OwnsGroup, Member
  <2>3. CASE p \notin ps /\ ~(windows /\ procs[p].group \in ps)
    <3>1. table[p] = procs[p]
      BY <2>3 DEF Dead
    <3> QED
      BY <2>1, <2>3, <3>1 DEF DeadRow
  <2>4. CASE p \notin ps /\ windows /\ procs[p].group \in ps
    <3>1. table[p] = [procs[p] EXCEPT !.away = TRUE]
      BY <2>4 DEF Dead
    <3>2. procs[p] # NoProcess /\ procs[p].group # p
      BY <2>1, <2>4, RowTypes
    <3>3. /\ table[p] \in Rows /\ table[p].up = procs[p].up /\ table[p].of = procs[p].of
          /\ table[p].group = procs[p].group /\ table[p].away
      BY <2>1, <3>1, <3>2, RowUpdates, ZenonT(30)
    <3> QED
      BY <2>2, <2>4, <3>2, <3>3 DEF DeadRow
  <2>5. CASE p \in ps /\ \E c \in Calls : child[c] = p
    <3>1. table[p] = [procs[p] EXCEPT !.up = FALSE]
      BY <2>5 DEF Dead
    <3>2. /\ table[p] \in Rows /\ ~table[p].up /\ table[p].of = procs[p].of
          /\ table[p].group = procs[p].group /\ table[p].away = procs[p].away
      BY <2>1, <3>1, RowUpdates
    <3> QED
      BY <2>5, <3>2 DEF DeadRow
  <2>6. CASE p \in ps /\ ~\E c \in Calls : child[c] = p
    <3>1. table[p] = NoProcess /\ ~NoProcess.up
      BY <2>6 DEF Dead, NoProcess
    <3> QED
      BY <2>6, <3>1 DEF DeadRow, Rows
  <2> QED
    BY <2>3, <2>4, <2>5, <2>6
<1>3. table = [p \in Pids |-> table[p]]
  BY DEF Dead
<1> QED
  BY <1>2, <1>3

\* Such a table, or one in which more processes are not found any more, shrinks.
LEMMA DeadShrinks ==
  ASSUME SupervisorInv, NEW ps \in SUBSET Pids,
         \A p \in Pids : DeadRow(p, ps, procs'[p])
  PROVE  Shrinks /\ \A d \in Calls : KeepsProgram(d)
<1>1. Shrinks
  BY DEF Shrinks, DeadRow
<1>2. \A d \in Calls : child[d] # None => child[d] \in Pids
  BY DEF SupervisorInv, TypeOK
<1> QED
  BY <1>1, <1>2 DEF KeepsProgram, DeadRow

\* A new process, under a free number: a copy of another, or the first of a group.
LEMMA FreeNumber ==
  ASSUME SupervisorInv, NEW p \in Free
  PROVE  /\ p \in Pids /\ procs[p] = NoProcess /\ \A q \in Pids : ~Member(q, p)
         /\ \A d \in Calls : child[d] # p
<1>1. p \in Pids /\ procs[p] = NoProcess /\ \A q \in Pids : ~Member(q, p)
  BY DEF Free
<1>2. ASSUME NEW d \in Calls, child[d] = p
      PROVE  FALSE
  <2>1. child[d] # None
    BY <1>1, <1>2, SupervisorAssumption
  <2> QED
    BY <1>1, <1>2, <2>1 DEF SupervisorInv, CallOK, OwnsGroup
<1> QED
  BY <1>1, <1>2

LEMMA ForkSafe ==
  ASSUME SupervisorInv, NEW q \in Pids, Fork(q)
  PROVE  /\ procs' \in [Pids -> Rows] /\ TableOK'
         /\ \A d \in Calls : Inherits(d) /\ KeepsProgram(d)
<1>1. TableOK /\ procs \in [Pids -> Rows] /\ child \in [Calls -> Pids \cup {None}]
  BY DEF SupervisorInv, TypeOK, Rows
<1>2. PICK p \in Free : procs' = [procs EXCEPT ![p] = procs[q]]
  BY DEF Fork
<1>3. /\ p \in Pids /\ procs[p] = NoProcess /\ \A x \in Pids : ~Member(x, p)
      /\ \A d \in Calls : child[d] # p
  BY FreeNumber
<1>4. procs' \in [Pids -> Rows] /\ windows' = windows
  BY <1>1, <1>2 DEF Fork, winVars
<1>5. procs'[p] = procs[q] /\ \A x \in Pids \ {p} : procs'[x] = procs[x]
  BY <1>1, <1>2, <1>3
<1>6. procs[q].up /\ procs[q] \in Rows /\ procs[q] # NoProcess
  BY <1>1, RowTypes DEF Fork, Live
<1>7. TableOK'
  <2> SUFFICES ASSUME NEW x \in Pids, NEW y \in Pids
      PROVE  /\ procs'[x] # NoProcess /\ ~Member(x, x)' => ~Member(y, x)'
             /\ \A g \in Pids : Member(x, g)' /\ Member(y, g)' => procs'[x].of = procs'[y].of
    BY DEF TableOK
  <2>1. PICK u \in Pids : procs'[x] = procs[u] /\ (x # p => u = x)
    BY <1>5
  <2>2. PICK v \in Pids : procs'[y] = procs[v]
    BY <1>5
  <2>3. \A g : Member(x, g)' <=> Member(u, g)
    BY <1>4, <2>1 DEF Member
  <2>4. \A g : Member(y, g)' <=> Member(v, g)
    BY <1>4, <2>2 DEF Member
  <2>5. x = p => ~Member(y, x)'
    BY <1>3, <2>4
  <2> QED
    BY <1>1, <2>1, <2>2, <2>3, <2>4, <2>5 DEF TableOK
<1>8. ASSUME NEW d \in Calls
      PROVE  Inherits(d)
  <2> SUFFICES ASSUME NEW x \in Pids, procs'[x].up, procs'[x].of = d
               PROVE  \E y \in Of(d) :
                        \/ procs'[x].away
                        \/ ~procs[y].away /\ procs'[x].group = procs[y].group
    BY DEF Inherits
  <2>1. PICK y \in Pids : procs'[x] = procs[y]
    BY <1>5
  <2>2. y \in Of(d) /\ procs[y].away \in BOOLEAN
    BY <1>1, <2>1, RowTypes DEF Of, Live
  <2> QED
    BY <2>1, <2>2
<1>9. ASSUME NEW d \in Calls
      PROVE  KeepsProgram(d)
  BY <1>1, <1>3, <1>5 DEF KeepsProgram
<1> QED
  BY <1>4, <1>7, <1>8, <1>9

LEMMA DetachSafe ==
  ASSUME SupervisorInv, NEW q \in Pids, Detach(q)
  PROVE  /\ procs' \in [Pids -> Rows] /\ TableOK'
         /\ \A d \in Calls : Inherits(d) /\ KeepsProgram(d)
<1>1. TableOK /\ procs \in [Pids -> Rows] /\ child \in [Calls -> Pids \cup {None}]
  BY DEF SupervisorInv, TypeOK, Rows
<1>2. /\ procs[q].up /\ procs[q].group # q
      /\ procs' = [procs EXCEPT ![q].group = q, ![q].away = TRUE]
      /\ ~windows /\ ~windows'
  BY DEF Detach, Live, winVars
<1>3. procs[q] \in Processes /\ procs[q] # NoProcess
  BY <1>1, <1>2, RowTypes
<1>4. /\ procs'[q] = [procs[q] EXCEPT !.group = q, !.away = TRUE]
      /\ \A x \in Pids \ {q} : procs'[x] = procs[x]
  BY <1>1, <1>2
<1>5. /\ procs'[q] \in Processes /\ procs'[q].group = q /\ procs'[q].away
      /\ procs'[q].of = procs[q].of /\ procs'[q].up
  <2> DEFINE row == [procs[q] EXCEPT !.group = q]
  <2>1. /\ row \in Processes /\ row.group = q /\ row.of = procs[q].of
        /\ row.up = procs[q].up
    BY <1>3 DEF Processes
  <2>2. procs'[q] = [row EXCEPT !.away = TRUE]
    BY <1>4
  <2> HIDE DEF row
  <2>3. /\ procs'[q] \in Processes /\ procs'[q].group = q /\ procs'[q].away
        /\ procs'[q].of = row.of /\ procs'[q].up = row.up
    BY <2>1, <2>2 DEF Processes
  <2> QED
    BY <1>2, <2>1, <2>3
<1>6. procs' \in [Pids -> Rows]
  BY <1>1, <1>2, <1>4, <1>5 DEF Rows
<1>7. \A x \in Pids : procs[x].group # q
  BY <1>1, <1>2, <1>3 DEF TableOK, Member
<1>8. TableOK'
  <2> SUFFICES ASSUME NEW x \in Pids, NEW y \in Pids
      PROVE  /\ procs'[x] # NoProcess /\ ~Member(x, x)' => ~Member(y, x)'
             /\ \A g \in Pids : Member(x, g)' /\ Member(y, g)' => procs'[x].of = procs'[y].of
    BY DEF TableOK
  <2>1. CASE x = q
    <3>1. CASE y = q
      BY <1>2, <1>5, <2>1, <3>1 DEF Member
    <3>2. CASE y # q
      <4>1. procs'[y].group # x /\ procs'[x].group = x
        BY <1>4, <1>5, <1>7, <2>1, <3>2
      <4> QED
        BY <1>2, <4>1 DEF Member
    <3> QED
      BY <3>1, <3>2
  <2>2. CASE x # q /\ y # q
    BY <1>1, <1>2, <1>4, <2>2 DEF TableOK, Member
  <2>3. CASE x # q /\ y = q
    BY <1>2, <1>4, <1>5, <1>7, <2>3 DEF Member
  <2> QED
    BY <2>1, <2>2, <2>3
<1>9. ASSUME NEW d \in Calls
      PROVE  Inherits(d)
  <2> SUFFICES ASSUME NEW x \in Pids, procs'[x].up, procs'[x].of = d
               PROVE  \E y \in Of(d) :
                        \/ procs'[x].away
                        \/ ~procs[y].away /\ procs'[x].group = procs[y].group
    BY DEF Inherits
  <2>1. x \in Of(d) /\ procs[x].away \in BOOLEAN
    BY <1>1, <1>2, <1>4, <1>5, RowTypes DEF Of, Live
  <2> QED
    BY <1>4, <1>5, <2>1
<1>10. ASSUME NEW d \in Calls
       PROVE  KeepsProgram(d)
  <2>1. child[d] # None => child[d] # q
    BY <1>2 DEF SupervisorInv, CallOK, OwnsGroup, Member
  <2> QED
    BY <1>1, <1>4, <2>1 DEF KeepsProgram
<1> QED
  BY <1>6, <1>8, <1>9, <1>10

\* A group of one, of a call or of the stranger.
LEMMA NewGroupSafe ==
  ASSUME SupervisorInv, NEW p \in Free, NEW o \in Calls \cup {Stranger},
         procs' = [procs EXCEPT ![p] =
                     [of |-> o, group |-> p, away |-> FALSE, up |-> TRUE]],
         windows' = windows
  PROVE  /\ procs' \in [Pids -> Rows] /\ TableOK'
         /\ procs'[p] = [of |-> o, group |-> p, away |-> FALSE, up |-> TRUE]
         /\ \A x \in Pids \ {p} : procs'[x] = procs[x]
         /\ \A d \in Calls \ {o} : Inherits(d)
         /\ \A d \in Calls : KeepsProgram(d)
<1>1. TableOK /\ procs \in [Pids -> Rows] /\ child \in [Calls -> Pids \cup {None}]
  BY DEF SupervisorInv, TypeOK, Rows
<1>2. /\ p \in Pids /\ procs[p] = NoProcess /\ \A x \in Pids : ~Member(x, p)
      /\ \A d \in Calls : child[d] # p
  BY FreeNumber
<1>3. [of |-> o, group |-> p, away |-> FALSE, up |-> TRUE] \in Rows
  BY <1>2 DEF Rows, Processes
<1>4. /\ procs' \in [Pids -> Rows]
      /\ procs'[p] = [of |-> o, group |-> p, away |-> FALSE, up |-> TRUE]
      /\ \A x \in Pids \ {p} : procs'[x] = procs[x]
  BY <1>1, <1>2, <1>3
<1>5. TableOK'
  <2>1. \A x \in Pids \ {p} : \A g : Member(x, g)' <=> Member(x, g)
    BY <1>4 DEF Member
  <2>2. \A g : Member(p, g)' <=> g = p
    BY <1>4 DEF Member
  <2> QED
    BY <1>1, <1>2, <1>4, <2>1, <2>2 DEF TableOK
<1>6. ASSUME NEW d \in Calls \ {o}
      PROVE  Inherits(d)
  <2> SUFFICES ASSUME NEW x \in Pids, procs'[x].up, procs'[x].of = d
               PROVE  \E y \in Of(d) :
                        \/ procs'[x].away
                        \/ ~procs[y].away /\ procs'[x].group = procs[y].group
    BY DEF Inherits
  <2>1. x # p /\ procs'[x] = procs[x] /\ procs[x].away \in BOOLEAN
    BY <1>1, <1>4, RowTypes
  <2> QED
    BY <2>1 DEF Of, Live
<1>7. ASSUME NEW d \in Calls
      PROVE  KeepsProgram(d)
  BY <1>1, <1>2, <1>4 DEF KeepsProgram
<1> QED
  BY <1>4, <1>5, <1>6, <1>7

-----------------------------------------------------------------------------
(* Calls *)

\* What the invariant says of a call survives when nothing of it is started.
LEMMA Inherited ==
  ASSUME SupervisorInv, NEW d \in Calls, Inherits(d)
  PROVE  /\ Of(d) = {} => Of(d)' = {}
         /\ (\A p \in Of(d) : procs[p].away) => \A p \in Of(d)' : procs'[p].away
         /\ Leader(d) # None =>
              \A p \in Of(d)' : procs'[p].away \/ procs'[p].group = Leader(d)
<1>1. CallOK(d)
  BY DEF SupervisorInv
<1>2. ASSUME NEW p \in Of(d)'
      PROVE  \E q \in Of(d) :
               \/ procs'[p].away
               \/ ~procs[q].away /\ procs'[p].group = procs[q].group
  BY <1>2 DEF Of, Live, Inherits
<1>3. Leader(d) # None => \A q \in Of(d) : procs[q].away \/ procs[q].group = Leader(d)
  BY <1>1 DEF CallOK, OwnsGroup
<1> QED
  BY <1>2, <1>3

\* The step changes nothing of call d but, perhaps, its processes.
SameCall(d) ==
  /\ pc'[d] = pc[d] /\ child'[d] = child[d] /\ guard'[d] = guard[d]
  /\ code'[d] = code[d] /\ script'[d] = script[d] /\ reader'[d] = reader[d]
  /\ pipe'[d] = pipe[d] /\ sent'[d] = sent[d] /\ kept'[d] = kept[d]
  /\ truncated'[d] = truncated[d]
  /\ d \in failed' <=> d \in failed
  /\ d \in stolen' <=> d \in stolen
  /\ \A o \in Calls \cup {Stranger} : <<d, o>> \in hurt' => <<d, o>> \in hurt

LEMMA OtherCall ==
  ASSUME SupervisorInv, NEW d \in Calls, SameCall(d), Inherits(d), KeepsProgram(d),
         windows' = windows
  PROVE  CallOK(d)'
<1>1. OwnsGroup(d) /\ StageOK(d) /\ CleanOK(d) /\ StreamOK(d)
  BY DEF SupervisorInv, CallOK
<1>2. OwnsGroup(d)'
  BY <1>1, Inherited DEF OwnsGroup, SameCall, KeepsProgram, Member, Leader
<1>3. StageOK(d)'
  BY <1>1, Inherited DEF StageOK, SameCall
<1>4. CleanOK(d)'
  BY <1>1, Inherited DEF CleanOK, SameCall
<1>5. StreamOK(d)'
  BY <1>1, Inherited DEF StreamOK, SameCall, Filed
<1> QED
  BY <1>2, <1>3, <1>4, <1>5 DEF CallOK

\* A step of call c leaves the others alone.
LEMMA CallStep ==
  ASSUME SupervisorInv, NEW c \in Calls, TypeOK', TableOK', CallOK(c)',
         windows' = windows,
         \A d \in Calls \ {c} : SameCall(d) /\ Inherits(d) /\ KeepsProgram(d)
  PROVE  SupervisorInv'
<1>1. ASSUME NEW d \in Calls
      PROVE  CallOK(d)'
  BY OtherCall
<1> QED
  BY <1>1 DEF SupervisorInv

\* A step of call c that does not touch the process table.
LEMMA SameTable ==
  ASSUME SupervisorInv, procs' = procs, windows' = windows
  PROVE  TableOK' /\ \A d \in Calls : Inherits(d) /\ KeepsProgram(d) /\ Of(d)' = Of(d)
<1>1. procs \in [Pids -> Rows] /\ TableOK
  BY DEF SupervisorInv, TypeOK, Rows
<1>2. Shrinks
  BY DEF Shrinks
<1>3. \A d \in Calls : KeepsProgram(d) /\ Of(d)' = Of(d)
  BY DEF KeepsProgram, Of, Live
<1> QED
  BY <1>1, <1>2, <1>3, ShrinksSafe

\* The group of a program consists of processes of its call.
LEMMA GroupIsOwn ==
  ASSUME SupervisorInv, NEW c \in Calls, child[c] # None
  PROVE  /\ child[c] \in Pids
         /\ Group(child[c]) \subseteq Of(c)
         /\ \A ps \in SUBSET Group(child[c]) : Signals(c, ps) \subseteq hurt \cup {<<c, c>>}
         /\ \A d \in Calls \ {c} : child[d] # child[c]
<1>1. TypeOK /\ TableOK /\ \A d \in Calls : OwnsGroup(d)
  BY DEF SupervisorInv, CallOK
<1>2. child[c] \in Pids
  BY <1>1 DEF TypeOK
<1>3. procs[child[c]].of = c /\ Member(child[c], child[c])
  BY <1>1 DEF OwnsGroup
<1>4. ASSUME NEW p \in Pids, Member(p, child[c])
      PROVE  procs[p].of = c
  BY <1>1, <1>2, <1>3, <1>4 DEF TableOK
<1>5. Group(child[c]) \subseteq Of(c)
  BY <1>4 DEF Group, Of
<1>6. ASSUME NEW ps \in SUBSET Group(child[c])
      PROVE  Signals(c, ps) \subseteq hurt \cup {<<c, c>>}
  BY <1>5 DEF Signals, Of
<1>7. ASSUME NEW d \in Calls \ {c}
      PROVE  child[d] # child[c]
  BY <1>1, <1>3 DEF OwnsGroup
<1> QED
  BY <1>2, <1>4, <1>5, <1>6, <1>7

-----------------------------------------------------------------------------
(* Steps of the system *)

LEMMA SystemSafe ==
  ASSUME SupervisorInv, UNCHANGED <<winVars, callVars, streamVars, hurt>>,
         procs' \in [Pids -> Rows], TableOK',
         \A d \in Calls : Inherits(d) /\ KeepsProgram(d)
  PROVE  SupervisorInv'
<1>1. UNCHANGED <<windows, gone, failed, stolen, pc, child, guard, code, script, reader, pipe,
                  sent, kept, truncated, hurt>>
  BY DEF winVars, callVars, streamVars
<1>2. TypeOK'
  BY <1>1 DEF SupervisorInv, TypeOK, Rows
<1>3. \A d \in Calls : SameCall(d)
  BY <1>1 DEF SameCall
<1>4. \A d \in Calls : CallOK(d)'
  BY <1>1, <1>3, OtherCall
<1> QED
  BY <1>2, <1>4 DEF SupervisorInv

LEMMA DieSafe ==
  ASSUME SupervisorInv, NEW q \in Pids, Die(q)
  PROVE  SupervisorInv'
<1>1. procs \in [Pids -> Rows]
  BY DEF SupervisorInv, TypeOK, Rows
<1>2. PICK lost \in SUBSET (Group(procs[q].group) \ {q, procs[q].group}) :
        /\ lost # {} => windows
        /\ procs' = [p \in Pids |-> IF p \in lost THEN [procs[p] EXCEPT !.away = TRUE]
                                    ELSE Dead({q})[p]]
  BY DEF Die
<1> DEFINE table == Dead({q})
<1>3. table \in [Pids -> Rows] /\ \A p \in Pids : DeadRow(p, {q}, table[p])
  <2> HIDE DEF table
  <2> QED
    BY DeadSafe DEF table
<1>4. \A p \in Pids : procs'[p] = IF p \in lost THEN [procs[p] EXCEPT !.away = TRUE]
                                  ELSE table[p]
  BY <1>2
<1> HIDE DEF table
<1>5. ASSUME NEW p \in lost
      PROVE  /\ p \in Pids /\ procs'[p] \in Rows /\ procs'[p].away /\ p # q
             /\ procs'[p].up = procs[p].up
             /\ procs'[p].of = procs[p].of /\ procs'[p].group = procs[p].group
             /\ procs[p].group # p /\ windows
  <2>1. p \in Pids /\ procs[p].up /\ p # q /\ procs[p].group # p /\ windows
    BY <1>2 DEF Group, Live, Member
  <2>2. procs[p] \in Rows /\ procs[p] # NoProcess
    BY <1>1, <2>1, RowTypes
  <2>3. procs'[p] = [procs[p] EXCEPT !.away = TRUE]
    BY <1>4, <2>1
  <2> QED
    BY ZenonT(30), <2>1, <2>2, <2>3, RowUpdates
<1>6. \A p \in Pids \ lost : procs'[p] = table[p]
  BY <1>4
<1>7. procs' \in [Pids -> Rows]
  <2>1. \A p \in Pids : procs'[p] \in Rows
    BY <1>3, <1>5, <1>6
  <2>2. procs' = [p \in Pids |-> procs'[p]]
    BY <1>2
  <2> QED
    BY <2>1, <2>2
<1>8. ASSUME NEW p \in Pids
      PROVE  DeadRow(p, {q}, procs'[p])
  <2>1. CASE p \in lost
    <3>1. ASSUME NEW d \in Calls
          PROVE  child[d] # p
      <4>1. p # None /\ procs[p].group # p
        BY <1>5, <2>1, SupervisorAssumption
      <4>2. OwnsGroup(d)
        BY DEF SupervisorInv, CallOK
      <4> QED
        BY <4>1, <4>2 DEF OwnsGroup, Member
    <3> QED
      BY <1>5, <2>1, <3>1 DEF DeadRow
  <2>2. CASE p \notin lost
    BY <1>3, <1>6, <2>2
  <2> QED
    BY <2>1, <2>2
<1>9. Shrinks /\ \A d \in Calls : KeepsProgram(d)
  BY <1>8, DeadShrinks
<1>10. UNCHANGED <<winVars, callVars, streamVars, hurt>>
  BY DEF Die
<1>11. TableOK' /\ \A d \in Calls : Inherits(d)
  BY <1>7, <1>9, <1>10, ShrinksSafe DEF winVars
<1> QED
  BY <1>7, <1>9, <1>11, <1>10, SystemSafe

LEMMA ProcessSafe ==
  ASSUME SupervisorInv,
         (\E q \in Pids : Fork(q) \/ Detach(q) \/ Die(q)) \/ StrangerStarts
  PROVE  SupervisorInv'
<1>1. ASSUME NEW q \in Pids, Fork(q)
      PROVE  SupervisorInv'
  BY <1>1, ForkSafe, SystemSafe DEF Fork
<1>2. ASSUME NEW q \in Pids, Detach(q)
      PROVE  SupervisorInv'
  BY <1>2, DetachSafe, SystemSafe DEF Detach
<1>3. ASSUME NEW q \in Pids, Die(q)
      PROVE  SupervisorInv'
  BY <1>3, DieSafe
<1>4. CASE StrangerStarts
  <2>1. PICK p \in Free :
          procs' = [procs EXCEPT ![p] =
                      [of |-> Stranger, group |-> p, away |-> FALSE, up |-> TRUE]]
    BY <1>4 DEF StrangerStarts
  <2>2. windows' = windows
    BY <1>4 DEF StrangerStarts, winVars
  <2>3. /\ procs' \in [Pids -> Rows] /\ TableOK'
        /\ \A d \in Calls \ {Stranger} : Inherits(d)
        /\ \A d \in Calls : KeepsProgram(d)
    BY <2>1, <2>2, NewGroupSafe
  <2>4. \A d \in Calls : Inherits(d) /\ KeepsProgram(d)
    BY <2>3, SupervisorAssumption
  <2>5. UNCHANGED <<winVars, callVars, streamVars, hurt>>
    BY <1>4 DEF StrangerStarts
  <2> QED
    BY <2>3, <2>4, <2>5, SystemSafe
<1> QED
  BY <1>1, <1>2, <1>3, <1>4

-----------------------------------------------------------------------------
(* Steps of the reader, and of a writer *)

LEMMA StreamStep ==
  ASSUME SupervisorInv, NEW c \in Calls, UNCHANGED <<winVars, procs, callVars, hurt>>,
         \A d \in Calls \ {c} :
           /\ reader'[d] = reader[d] /\ pipe'[d] = pipe[d] /\ sent'[d] = sent[d]
           /\ kept'[d] = kept[d] /\ truncated'[d] = truncated[d],
         TypeOK', StreamOK(c)'
  PROVE  SupervisorInv'
<1>1. /\ UNCHANGED <<windows, gone, failed, stolen, procs, pc, child, guard, code, script, hurt>>
  BY DEF winVars, callVars
<1>2. OwnsGroup(c) /\ StageOK(c) /\ CleanOK(c)
  BY DEF SupervisorInv, CallOK
<1>3. /\ TableOK' /\ \A d \in Calls : Inherits(d) /\ KeepsProgram(d)
      /\ Of(c)' = Of(c)
  BY <1>1, SameTable
<1>4. OwnsGroup(c)' /\ StageOK(c)' /\ CleanOK(c)'
  BY <1>1, <1>2, <1>3 DEF OwnsGroup, StageOK, CleanOK, Leader, Member
<1>5. CallOK(c)'
  BY <1>4 DEF CallOK
<1>6. \A d \in Calls \ {c} : SameCall(d)
  BY <1>1 DEF SameCall
<1> QED
  BY <1>1, <1>3, <1>5, <1>6, CallStep

LEMMA AppendSafe ==
  ASSUME TypeOK, NEW c \in Calls, NEW n \in Nat, Append(c, n)
  PROVE  /\ kept' \in [Calls -> 0..Limit] /\ truncated' \in [Calls -> BOOLEAN]
         /\ \A d \in Calls \ {c} : kept'[d] = kept[d] /\ truncated'[d] = truncated[d]
         /\ truncated[c] => truncated'[c]
         /\ truncated'[c] \/ kept'[c] = kept[c] + n
<1> DEFINE keep == Fits(c, n)
<1>1. kept[c] \in 0..Limit /\ Limit \in Nat /\ truncated[c] \in BOOLEAN
  BY SupervisorAssumption DEF TypeOK
<1>2. keep \in Nat /\ keep <= Limit - kept[c] /\ keep <= n
  BY <1>1 DEF Fits
<1>3. /\ kept' = [kept EXCEPT ![c] = kept[c] + keep]
      /\ truncated' = [truncated EXCEPT ![c] = truncated[c] \/ keep < n]
  BY DEF Append
<1>4. kept[c] + keep \in 0..Limit
  BY <1>1, <1>2
<1> HIDE DEF keep
<1>5. /\ kept' \in [Calls -> 0..Limit] /\ kept'[c] = kept[c] + keep
      /\ \A d \in Calls \ {c} : kept'[d] = kept[d]
  BY <1>3, <1>4 DEF TypeOK
<1>6. /\ truncated' \in [Calls -> BOOLEAN]
      /\ truncated'[c] = (truncated[c] \/ keep < n)
      /\ \A d \in Calls \ {c} : truncated'[d] = truncated[d]
  BY <1>1, <1>3 DEF TypeOK
<1>7. ~(keep < n) => keep = n
  BY <1>2
<1> QED
  BY <1>5, <1>6, <1>7

LEMMA ReaderSafe ==
  ASSUME SupervisorInv, NEW c \in Calls, Write(c) \/ Read(c) \/ ReadFails(c) \/ ReadEnd(c)
  PROVE  SupervisorInv'
<1>1. TypeOK /\ StageOK(c) /\ StreamOK(c) /\ reader[c] = "reading"
  BY DEF SupervisorInv, CallOK, Write, Read, ReadFails, ReadEnd
<1>2. /\ pipe[c] \in 0..PipeSize /\ sent[c] \in 0..MaxSent /\ kept[c] \in 0..Limit
      /\ PipeSize \in Nat /\ MaxSent \in Nat /\ Limit \in Nat
  BY <1>1, SupervisorAssumption DEF TypeOK
<1>3. UNCHANGED <<winVars, procs, callVars, hurt>>
  BY DEF Write, Read, ReadFails, ReadEnd
<1>4. /\ UNCHANGED <<windows, gone, failed, stolen, procs, pc, child, guard, code, script, hurt>>
  BY <1>3 DEF winVars, callVars
<1>5. Of(c)' = Of(c)
  BY <1>4 DEF Of, Live
<1>6. CASE Write(c)
  <2>1. /\ pipe[c] + 1 \in 0..PipeSize /\ sent[c] + 1 \in 0..MaxSent
        /\ pipe' = [pipe EXCEPT ![c] = pipe[c] + 1]
        /\ sent' = [sent EXCEPT ![c] = sent[c] + 1]
        /\ UNCHANGED <<reader, kept, truncated>>
    BY <1>2, <1>6 DEF Write
  <2>2. TypeOK'
    BY <1>1, <1>4, <2>1 DEF TypeOK
  <2>3. /\ pipe'[c] = pipe[c] + 1 /\ sent'[c] = sent[c] + 1
        /\ \A d \in Calls \ {c} : pipe'[d] = pipe[d] /\ sent'[d] = sent[d]
    BY <1>1, <2>1 DEF TypeOK
  <2>4. StreamOK(c)'
    BY <1>1, <1>2, <1>4, <2>1, <2>3 DEF StreamOK, Filed
  <2> QED
    BY <1>3, <2>1, <2>2, <2>3, <2>4, StreamStep
<1>7. CASE Read(c)
  <2>1. PICK n \in 1..pipe[c] :
          Append(c, n) /\ pipe' = [pipe EXCEPT ![c] = pipe[c] - n]
    BY <1>7 DEF Read
  <2>2. n \in Nat /\ pipe[c] - n \in 0..PipeSize /\ UNCHANGED <<reader, sent>>
    BY <1>2, <1>7, <2>1 DEF Read
  <2>3. /\ kept' \in [Calls -> 0..Limit] /\ truncated' \in [Calls -> BOOLEAN]
        /\ \A d \in Calls \ {c} : kept'[d] = kept[d] /\ truncated'[d] = truncated[d]
        /\ truncated[c] => truncated'[c]
        /\ truncated'[c] \/ kept'[c] = kept[c] + n
    BY <1>1, <2>1, <2>2, AppendSafe
  <2>4. TypeOK'
    BY <1>1, <1>4, <2>1, <2>2, <2>3 DEF TypeOK
  <2>5. /\ pipe'[c] = pipe[c] - n
        /\ \A d \in Calls \ {c} : pipe'[d] = pipe[d]
    BY <1>1, <2>1 DEF TypeOK
  <2>6. truncated'[c] \/ kept'[c] + pipe'[c] = sent'[c] + Filed(c)'
    <3>1. truncated[c] \/ kept[c] + pipe[c] = sent[c] + Filed(c)
      BY <1>1 DEF StreamOK
    <3>2. Filed(c)' = Filed(c) /\ Filed(c) \in Nat
      BY <1>4, <2>2 DEF Filed
    <3> QED
      BY <1>2, <2>2, <2>3, <2>5, <3>1, <3>2
  <2>7. StreamOK(c)'
    BY <1>1, <1>4, <2>2, <2>3, <2>6 DEF StreamOK
  <2> QED
    BY <1>3, <2>2, <2>3, <2>4, <2>5, <2>7, StreamStep
<1>8. CASE ReadEnd(c)
  <2>1. /\ pipe[c] = 0 /\ Of(c) = {}
        /\ reader' = [reader EXCEPT ![c] = "finished"]
        /\ UNCHANGED <<pipe, sent, kept, truncated>>
    BY <1>8 DEF ReadEnd
  <2>2. TypeOK'
    BY <1>1, <1>4, <2>1 DEF TypeOK
  <2>3. /\ reader'[c] = "finished" /\ \A d \in Calls \ {c} : reader'[d] = reader[d]
    BY <1>1, <2>1 DEF TypeOK
  <2>4. StreamOK(c)'
    BY <1>1, <1>4, <1>5, <2>1, <2>3 DEF StreamOK, Filed
  <2> QED
    BY <1>3, <2>1, <2>2, <2>3, <2>4, StreamStep
<1>9. CASE ReadFails(c)
  <2>1. /\ Append(c, 1) /\ reader' = [reader EXCEPT ![c] = "failed"]
        /\ UNCHANGED <<pipe, sent>>
    BY <1>9 DEF ReadFails
  <2>2. /\ kept' \in [Calls -> 0..Limit] /\ truncated' \in [Calls -> BOOLEAN]
        /\ \A d \in Calls \ {c} : kept'[d] = kept[d] /\ truncated'[d] = truncated[d]
        /\ truncated[c] => truncated'[c]
        /\ truncated'[c] \/ kept'[c] = kept[c] + 1
    BY <1>1, <2>1, AppendSafe
  <2>3. TypeOK'
    BY <1>1, <1>4, <2>1, <2>2 DEF TypeOK
  <2>4. /\ reader'[c] = "failed" /\ \A d \in Calls \ {c} : reader'[d] = reader[d]
    BY <1>1, <2>1 DEF TypeOK
  <2>5. truncated'[c] \/ kept'[c] + pipe'[c] = sent'[c] + Filed(c)'
    <3>1. truncated[c] \/ kept[c] + pipe[c] = sent[c] + Filed(c)
      BY <1>1 DEF StreamOK
    <3>2. Filed(c)' = Filed(c) + 1 /\ Filed(c) \in Nat
      BY <1>1, <1>4, <2>4 DEF Filed
    <3> QED
      BY <1>2, <2>1, <2>2, <3>1, <3>2
  <2>6. StreamOK(c)'
    BY <1>1, <1>4, <2>1, <2>2, <2>4, <2>5 DEF StreamOK
  <2> QED
    BY <1>3, <2>1, <2>2, <2>3, <2>4, <2>6, StreamStep
<1> QED
  BY <1>6, <1>7, <1>8, <1>9

-----------------------------------------------------------------------------
(* Steps of a call that leave its program alone *)

LEMMA SpawnSafe ==
  ASSUME SupervisorInv, NEW c \in Calls, Spawn(c)
  PROVE  SupervisorInv'
<1>1. TypeOK /\ OwnsGroup(c) /\ StageOK(c) /\ CleanOK(c) /\ StreamOK(c)
  BY DEF SupervisorInv, CallOK
<1>2. PICK p \in Free :
        /\ procs' = [procs EXCEPT ![p] =
                       [of |-> c, group |-> p, away |-> FALSE, up |-> TRUE]]
        /\ child' = [child EXCEPT ![c] = p]
        /\ guard' = [guard EXCEPT ![c] = IF windows THEN None ELSE p]
  BY DEF Spawn
<1>3. /\ pc[c] = "new" /\ script' = [script EXCEPT ![c] = windows]
      /\ pc' = [pc EXCEPT ![c] = "running"]
      /\ reader' = [reader EXCEPT ![c] = "reading"]
      /\ UNCHANGED <<windows, gone, failed, stolen, code, pipe, sent, kept, truncated, hurt>>
  BY DEF Spawn, RunShell, winVars
<1>4. p \in Pids /\ p # None
  BY SupervisorAssumption DEF Free
<1>5. /\ procs' \in [Pids -> Rows] /\ TableOK'
      /\ procs'[p] = [of |-> c, group |-> p, away |-> FALSE, up |-> TRUE]
      /\ \A x \in Pids \ {p} : procs'[x] = procs[x]
      /\ \A d \in Calls \ {c} : Inherits(d)
      /\ \A d \in Calls : KeepsProgram(d)
  BY <1>2, <1>3, NewGroupSafe
<1>6. TypeOK'
  BY <1>1, <1>2, <1>3, <1>4, <1>5 DEF TypeOK, Rows
<1>7. /\ pc'[c] = "running" /\ child'[c] = p /\ script'[c] = windows
      /\ guard'[c] = IF windows THEN None ELSE p
      /\ reader'[c] = "reading" /\ code'[c] = code[c]
  BY <1>1, <1>2, <1>3 DEF TypeOK
<1>8. Of(c)' = {p}
  BY <1>1, <1>3, <1>4, <1>5 DEF StageOK, Of, Live
<1>9. OwnsGroup(c)'
  BY <1>3, <1>4, <1>5, <1>7, <1>8 DEF OwnsGroup, Member, Leader
<1>10. StageOK(c)'
  BY <1>1, <1>3, <1>4, <1>7 DEF StageOK, Underway
<1>11. CleanOK(c)'
  BY <1>1, <1>3, <1>7 DEF CleanOK, StageOK
<1>12. StreamOK(c)'
  BY <1>1, <1>3, <1>7 DEF StreamOK, StageOK, Filed
<1>13. \A d \in Calls \ {c} : SameCall(d)
  BY <1>1, <1>2, <1>3 DEF SameCall, TypeOK
<1> QED
  BY <1>3, <1>5, <1>6, <1>9, <1>10, <1>11, <1>12, <1>13, CallStep DEF CallOK

\* Steps that change the stage of a call only, or signal its group with SIGTERM.
LEMMA StageSafe ==
  ASSUME SupervisorInv, NEW c \in Calls,
         \/ TimedOut(c) \/ Cancelled(c)
         \/ WaitFails(c) /\ UNCHANGED <<procs, child, stolen>>
  PROVE  SupervisorInv'
<1>1. TypeOK /\ OwnsGroup(c) /\ StageOK(c) /\ CleanOK(c) /\ StreamOK(c)
  BY DEF SupervisorInv, CallOK
<1>2. /\ UNCHANGED <<windows, gone, failed, stolen, procs, child, guard, script, reader,
                     pipe, sent, kept, truncated>>
      /\ \A d \in Calls \ {c} : pc'[d] = pc[d] /\ code'[d] = code[d]
  BY <1>1 DEF WaitFails, TimedOut, Cancelled, winVars, streamVars, TypeOK
<1>3. /\ TableOK' /\ \A d \in Calls : Inherits(d) /\ KeepsProgram(d)
      /\ Of(c)' = Of(c)
  BY <1>2, SameTable
<1>4. hurt' \subseteq hurt \cup {<<c, c>>}
  <2>1. CASE TimedOut(c)
    <3>1. child[c] # None
      BY <1>1, <2>1 DEF TimedOut, StageOK
    <3> QED
      BY <2>1, <3>1, GroupIsOwn DEF TimedOut
  <2>2. CASE ~TimedOut(c)
    BY <2>2 DEF WaitFails, Cancelled
  <2> QED
    BY <2>1, <2>2
<1>5. TypeOK'
  BY <1>1, <1>2, <1>4 DEF TypeOK, WaitFails, TimedOut, Cancelled
<1>6. OwnsGroup(c)'
  BY <1>1, <1>2, <1>3 DEF OwnsGroup, Member, Leader
<1>7. \A d \in Calls \ {c} : SameCall(d)
  BY <1>2, <1>4 DEF SameCall
<1>8. StageOK(c)' /\ CleanOK(c)' /\ StreamOK(c)'
  <2>2. CASE WaitFails(c)
    <3>1. /\ pc[c] = "running" /\ pc'[c] = "draining" /\ code'[c] = "wait_failed"
          /\ hurt' = hurt
      BY <1>1, <2>2 DEF WaitFails, TypeOK
    <3> QED
      BY <1>1, <1>2, <1>3, <3>1 DEF StageOK, CleanOK, StreamOK, Underway, Filed
  <2>3. CASE TimedOut(c) \/ Cancelled(c)
    <3>1. pc[c] = "running" /\ pc'[c] = "terminating" /\ code'[c] = code[c]
      BY <1>1, <2>3 DEF TimedOut, Cancelled, TypeOK
    <3> QED
      BY <1>1, <1>2, <1>3, <1>4, <3>1 DEF StageOK, CleanOK, StreamOK, Underway, Filed
  <2> QED
    BY <2>2, <2>3
<1> QED
  BY <1>2, <1>3, <1>5, <1>6, <1>7, <1>8, CallStep DEF CallOK

\* Nothing was started: the output is the report.
LEMMA SpawnFailsSafe ==
  ASSUME SupervisorInv, NEW c \in Calls, SpawnFails(c)
  PROVE  SupervisorInv'
<1>1. TypeOK /\ OwnsGroup(c) /\ StageOK(c) /\ CleanOK(c) /\ StreamOK(c)
  BY DEF SupervisorInv, CallOK
<1>2. /\ UNCHANGED <<windows, gone, failed, stolen, procs, child, guard, script, reader,
                     pipe, sent, hurt>>
      /\ pc' = [pc EXCEPT ![c] = "done"] /\ code' = [code EXCEPT ![c] = "not_started"]
      /\ pc[c] = "new" /\ Append(c, 1)
  BY DEF SpawnFails, winVars
<1>3. /\ TableOK' /\ \A d \in Calls : Inherits(d) /\ KeepsProgram(d)
      /\ Of(c)' = Of(c)
  BY <1>2, SameTable
<1>4. /\ pc'[c] = "done" /\ code'[c] = "not_started"
      /\ \A d \in Calls \ {c} : pc'[d] = pc[d] /\ code'[d] = code[d]
  BY <1>1, <1>2 DEF TypeOK
<1>5. /\ kept' \in [Calls -> 0..Limit] /\ truncated' \in [Calls -> BOOLEAN]
      /\ \A d \in Calls \ {c} : kept'[d] = kept[d] /\ truncated'[d] = truncated[d]
      /\ truncated[c] => truncated'[c]
      /\ truncated'[c] \/ kept'[c] = kept[c] + 1
  BY <1>1, <1>2, AppendSafe
<1>6. TypeOK'
  BY <1>1, <1>2, <1>5 DEF TypeOK
<1>7. OwnsGroup(c)'
  BY <1>1, <1>2, <1>3 DEF OwnsGroup, Member, Leader
<1>8. StageOK(c)' /\ CleanOK(c)'
  BY <1>1, <1>2, <1>3, <1>4 DEF StageOK, CleanOK, Underway
<1>9. StreamOK(c)'
  <2>1. /\ kept[c] \in Nat /\ sent[c] \in Nat /\ pipe[c] = 0 /\ reader[c] = "none"
        /\ code[c] = "none"
    BY <1>1, <1>2, SupervisorAssumption DEF TypeOK, StreamOK, StageOK
  <2>2. truncated[c] \/ kept[c] = sent[c]
    BY <1>1, <1>2, <2>1 DEF StreamOK, Filed
  <2>3. Filed(c)' = 1
    BY <1>2, <1>4, <2>1 DEF Filed
  <2> QED
    BY <1>2, <1>4, <1>5, <2>1, <2>2, <2>3 DEF StreamOK
<1>10. \A d \in Calls \ {c} : SameCall(d)
  BY <1>2, <1>4, <1>5 DEF SameCall
<1> QED
  BY <1>2, <1>3, <1>6, <1>7, <1>8, <1>9, <1>10, CallStep DEF CallOK

-----------------------------------------------------------------------------
(* Steps of a call that end its program, or wait for it *)

\* The program has exited and its number is free.
LEMMA WaitedSafe ==
  ASSUME SupervisorInv, NEW c \in Calls, child[c] # None, ~Live(child[c]),
         procs' = [procs EXCEPT ![child[c]] = NoProcess], windows' = windows
  PROVE  /\ procs' \in [Pids -> Rows] /\ TableOK'
         /\ \A d \in Calls : Inherits(d)
         /\ \A d \in Calls \ {c} : KeepsProgram(d)
         /\ Of(c)' = Of(c) /\ \A p \in Of(c) : procs'[p] = procs[p]
<1>1. procs \in [Pids -> Rows] /\ child[c] \in Pids
  BY GroupIsOwn DEF SupervisorInv, TypeOK, Rows
<1>2. /\ procs'[child[c]] = NoProcess
      /\ \A p \in Pids \ {child[c]} : procs'[p] = procs[p]
      /\ procs' \in [Pids -> Rows]
  BY <1>1 DEF Rows
<1>3. Shrinks
  BY <1>2 DEF Shrinks
<1>4. ASSUME NEW d \in Calls \ {c}
      PROVE  KeepsProgram(d)
  <2>1. child[d] # child[c] /\ (child[d] # None => child[d] \in Pids)
    BY GroupIsOwn DEF SupervisorInv, TypeOK
  <2> QED
    BY <1>2, <2>1 DEF KeepsProgram
<1>5. ~NoProcess.up
  BY DEF NoProcess
<1>6. Of(c)' = Of(c) /\ \A p \in Of(c) : procs'[p] = procs[p]
  BY <1>1, <1>2, <1>5 DEF Of, Live
<1> QED
  BY <1>2, <1>3, <1>4, <1>6, ShrinksSafe

\* Processes of the program's group are killed, or none.
LEMMA KillSafe ==
  ASSUME SupervisorInv, NEW ps \in SUBSET Pids, procs' = Dead(ps), windows' = windows
  PROVE  /\ procs' \in [Pids -> Rows] /\ TableOK'
         /\ \A d \in Calls : Inherits(d) /\ KeepsProgram(d)
         /\ \A d \in Calls : \A p \in Of(d)' :
              p \in Of(d) \ ps /\ (procs[p].away => procs'[p].away)
<1> DEFINE table == procs'
<1>1. procs' \in [Pids -> Rows] /\ \A p \in Pids : DeadRow(p, ps, procs'[p])
  <2>1. table = Dead(ps)
    OBVIOUS
  <2>2. table \in [Pids -> Rows] /\ \A p \in Pids : DeadRow(p, ps, table[p])
    <3> HIDE DEF table
    <3> QED
      BY <2>1, DeadSafe
  <2> QED
    BY <2>2
<1>2. Shrinks /\ \A d \in Calls : KeepsProgram(d)
  BY <1>1, DeadShrinks
<1>3. ASSUME NEW d \in Calls, NEW p \in Of(d)'
      PROVE  p \in Of(d) \ ps /\ (procs[p].away => procs'[p].away)
  <2>1. p \in Pids /\ procs'[p].up /\ procs'[p].of = d
    BY <1>3 DEF Of, Live
  <2>2. p \notin ps /\ procs'[p].of = procs[p].of /\ procs[p].up
    BY <1>1, <2>1 DEF DeadRow
  <2> QED
    BY <1>1, <2>1, <2>2 DEF Of, Live, DeadRow
<1> QED
  BY <1>1, <1>2, <1>3, ShrinksSafe

\* Exited and Reaped: the guard is disarmed, the number may be given away.
LEMMA WaitSafe ==
  ASSUME SupervisorInv, NEW c \in Calls, Exited(c) \/ Reaped(c)
  PROVE  SupervisorInv'
<1>1. TypeOK /\ OwnsGroup(c) /\ StageOK(c) /\ CleanOK(c) /\ StreamOK(c)
  BY DEF SupervisorInv, CallOK
<1>2. child[c] # None /\ pc[c] \in {"running", "reaping"}
  BY <1>1 DEF Exited, Reaped, StageOK
<1>3. /\ ~Live(child[c]) /\ procs' = [procs EXCEPT ![child[c]] = NoProcess]
      /\ child' = [child EXCEPT ![c] = None]
      /\ guard' = [guard EXCEPT ![c] = None]
      /\ pc' = [pc EXCEPT ![c] = "draining"]
      /\ UNCHANGED <<windows, gone, failed, stolen, script, reader, pipe, sent, kept,
                     truncated, hurt>>
  BY DEF Exited, Reaped, winVars, streamVars
<1>4. /\ procs' \in [Pids -> Rows] /\ TableOK'
      /\ \A d \in Calls : Inherits(d)
      /\ \A d \in Calls \ {c} : KeepsProgram(d)
      /\ Of(c)' = Of(c) /\ \A p \in Of(c) : procs'[p] = procs[p]
  BY <1>2, <1>3, WaitedSafe
<1>5. PICK how \in {"exited", "timed_out"} :
        /\ code' = [code EXCEPT ![c] = how]
        /\ how = "exited" => pc[c] = "running"
        /\ how = "timed_out" => pc[c] = "reaping"
  BY DEF Exited, Reaped
<1>6. TypeOK'
  BY <1>1, <1>3, <1>4, <1>5 DEF TypeOK, Rows
<1>7. /\ child'[c] = None /\ guard'[c] = None /\ pc'[c] = "draining" /\ code'[c] = how
  BY <1>1, <1>3, <1>5 DEF TypeOK
<1>8. OwnsGroup(c)'
  BY <1>7 DEF OwnsGroup, Leader
<1>9. StageOK(c)'
  BY <1>1, <1>2, <1>3, <1>4, <1>5, <1>7 DEF StageOK, Underway
<1>10. CleanOK(c)'
  BY <1>1, <1>3, <1>4, <1>5, <1>7 DEF CleanOK
<1>11. StreamOK(c)'
  BY <1>1, <1>2, <1>3, <1>4, <1>5, <1>7 DEF StreamOK, StageOK, Filed
<1>12. \A d \in Calls \ {c} : SameCall(d)
  BY <1>1, <1>3, <1>5 DEF SameCall, TypeOK
<1> QED
  BY <1>3, <1>4, <1>6, <1>8, <1>9, <1>10, <1>11, <1>12, CallStep DEF CallOK

\* Somebody else has waited for the program: its number is free, the guard armed.
LEMMA StolenSafe ==
  ASSUME SupervisorInv, NEW c \in Calls, WaitFails(c),
         ~UNCHANGED <<procs, child, stolen>>
  PROVE  SupervisorInv'
<1>1. TypeOK /\ OwnsGroup(c) /\ StageOK(c) /\ CleanOK(c) /\ StreamOK(c)
  BY DEF SupervisorInv, CallOK
<1>2. /\ pc[c] = "running" /\ ~windows /\ ~Live(child[c])
      /\ procs' = [procs EXCEPT ![child[c]] = NoProcess]
      /\ child' = [child EXCEPT ![c] = None]
      /\ stolen' = stolen \cup {c}
      /\ code' = [code EXCEPT ![c] = "wait_failed"]
      /\ pc' = [pc EXCEPT ![c] = "draining"]
      /\ UNCHANGED <<windows, gone, failed, guard, script, reader, pipe, sent, kept,
                     truncated, hurt>>
  BY DEF WaitFails, streamVars
<1>3. child[c] # None /\ code[c] = "none" /\ c \notin stolen /\ guard[c] = child[c]
  BY <1>1, <1>2 DEF OwnsGroup, StageOK
<1>4. /\ procs' \in [Pids -> Rows] /\ TableOK'
      /\ \A d \in Calls : Inherits(d)
      /\ \A d \in Calls \ {c} : KeepsProgram(d)
      /\ Of(c)' = Of(c) /\ \A p \in Of(c) : procs'[p] = procs[p]
  BY <1>2, <1>3, WaitedSafe
<1>5. /\ child'[c] = None /\ guard'[c] = guard[c] /\ pc'[c] = "draining"
      /\ code'[c] = "wait_failed" /\ c \in stolen'
  BY <1>1, <1>2 DEF TypeOK
<1>6. TypeOK'
  BY <1>1, <1>2, <1>4 DEF TypeOK, Rows
<1>7. OwnsGroup(c)'
  BY <1>1, <1>3, <1>4, <1>5 DEF OwnsGroup, Leader
<1>8. StageOK(c)'
  BY <1>1, <1>2, <1>3, <1>4, <1>5 DEF StageOK, Underway
<1>9. CleanOK(c)' /\ StreamOK(c)'
  BY <1>1, <1>2, <1>3, <1>4, <1>5 DEF CleanOK, StreamOK, Filed
<1>10. \A d \in Calls \ {c} : SameCall(d)
  BY <1>1, <1>2 DEF SameCall, TypeOK
<1> QED
  BY <1>2, <1>4, <1>6, <1>7, <1>8, <1>9, <1>10, CallStep DEF CallOK

\* KillGroup and TaskKill: unless taskkill failed, what is left is away.
LEMMA KillGroupSafe ==
  ASSUME SupervisorInv, NEW c \in Calls, KillGroup(c) \/ TaskKill(c)
  PROVE  SupervisorInv'
<1>1. TypeOK /\ OwnsGroup(c) /\ StageOK(c) /\ CleanOK(c) /\ StreamOK(c)
  BY DEF SupervisorInv, CallOK
<1>2. /\ pc[c] = "terminating" /\ pc' = [pc EXCEPT ![c] = "reaping"]
      /\ UNCHANGED <<windows, gone, stolen, child, guard, code, script, reader, pipe,
                     sent, kept, truncated>>
  BY DEF KillGroup, TaskKill, winVars, streamVars
<1>3. child[c] # None /\ Leader(c) = child[c]
  BY <1>1, <1>2 DEF StageOK, OwnsGroup, Leader
<1>4. PICK doomed \in SUBSET Group(child[c]) :
        /\ procs' = Dead(doomed) /\ hurt' = Signals(c, doomed)
        /\ failed' \in {failed, failed \cup {c}}
        /\ c \in failed' \/ doomed = Group(child[c])
  <2>1. CASE KillGroup(c)
    BY <2>1 DEF KillGroup, winVars
  <2>2. CASE TaskKill(c)
    <3>1. PICK doomed \in SUBSET Group(child[c]), ended \in BOOLEAN :
            /\ ended => doomed = Group(child[c])
            /\ procs' = Dead(doomed)
            /\ hurt' = Signals(c, doomed)
            /\ failed' = IF ended THEN failed ELSE failed \cup {c}
      BY <2>2 DEF TaskKill
    <3> QED
      BY <3>1
  <2> QED
    BY <2>1, <2>2
<1>5. doomed \in SUBSET Pids /\ hurt' \subseteq hurt \cup {<<c, c>>}
  BY <1>3, <1>4, GroupIsOwn DEF Group
<1>6. /\ procs' \in [Pids -> Rows] /\ TableOK'
      /\ \A d \in Calls : Inherits(d) /\ KeepsProgram(d)
      /\ \A p \in Of(c)' : p \in Of(c) \ doomed /\ (procs[p].away => procs'[p].away)
  BY <1>2, <1>4, <1>5, KillSafe
<1>7. TypeOK'
  BY <1>1, <1>2, <1>4, <1>5, <1>6 DEF TypeOK, Rows
<1>8. pc'[c] = "reaping" /\ \A d \in Calls \ {c} : pc'[d] = pc[d]
  BY <1>1, <1>2 DEF TypeOK
<1>9. OwnsGroup(c)'
  BY <1>1, <1>2, <1>3, <1>6, Inherited DEF OwnsGroup, KeepsProgram, Leader, Member
<1>10. StageOK(c)'
  BY <1>1, <1>2, <1>5, <1>6, <1>8 DEF StageOK, Underway
<1>11. c \in failed' \/ \A p \in Of(c)' : procs'[p].away
  <2> SUFFICES ASSUME c \notin failed', NEW p \in Of(c)'
               PROVE  procs'[p].away
    OBVIOUS
  <2>1. p \in Of(c) \ doomed /\ (procs[p].away => procs'[p].away)
    BY <1>6
  <2>2. procs[p].away \/ procs[p].group = child[c]
    BY <1>1, <1>3, <2>1 DEF OwnsGroup
  <2>3. procs[p].away \/ procs[p].group # child[c]
    BY <1>4, <2>1 DEF Group, Of, Member
  <2> QED
    BY <1>4, <2>1, <2>2, <2>3
<1>12. CleanOK(c)'
  BY <1>11 DEF CleanOK
<1>13. StreamOK(c)'
  BY <1>1, <1>2, <1>6, <1>8, Inherited DEF StreamOK, Filed
<1>14. \A d \in Calls \ {c} : SameCall(d)
  BY <1>2, <1>4, <1>5, <1>8 DEF SameCall
<1> QED
  BY <1>2, <1>6, <1>7, <1>9, <1>10, <1>12, <1>13, <1>14, CallStep DEF CallOK

-----------------------------------------------------------------------------
(* The ends of a call *)

\* Whatever the call still holds goes: with an armed guard, the whole group.
LEMMA DropSafe ==
  ASSUME SupervisorInv, NEW c \in Calls, DropLocals(c), windows' = windows
  PROVE  /\ procs' \in [Pids -> Rows] /\ TableOK'
         /\ \A d \in Calls : Inherits(d)
         /\ \A d \in Calls \ {c} : KeepsProgram(d)
         /\ child' = [child EXCEPT ![c] = None]
         /\ guard' = [guard EXCEPT ![c] = None]
         /\ script' = [script EXCEPT ![c] = FALSE]
         /\ hurt' \subseteq hurt \cup {<<c, o>> : o \in Calls \cup {Stranger}}
         /\ c \notin stolen => hurt' \subseteq hurt \cup {<<c, c>>}
         /\ child[c] = None /\ guard[c] = None => hurt' = hurt
         /\ guard[c] # None => \A p \in Of(c)' : procs'[p].away
<1>1. TypeOK /\ OwnsGroup(c) /\ procs \in [Pids -> Rows]
  BY DEF SupervisorInv, CallOK, TypeOK, Rows
<1> DEFINE doomed == {p \in Pids : /\ Live(p)
                                   /\ \/ p = child[c]
                                      \/ guard[c] \in {p, procs[p].group}}
<1>2. /\ procs' = [p \in Pids |-> IF p = child[c] THEN NoProcess ELSE Dead(doomed)[p]]
      /\ hurt' = Signals(c, doomed)
      /\ child' = [child EXCEPT ![c] = None]
      /\ guard' = [guard EXCEPT ![c] = None]
      /\ script' = [script EXCEPT ![c] = FALSE]
  BY DEF DropLocals
<1>3. \A p \in Pids : Live(p) => /\ procs[p].of \in Calls \cup {Stranger}
                                /\ procs[p].group # None /\ p # None
  BY <1>1, RowTypes, SupervisorAssumption DEF Live
<1>4. ASSUME c \notin stolen, NEW p \in doomed
      PROVE  procs[p].of = c
  <2>1. p \in Pids /\ Live(p) /\ (p = child[c] \/ guard[c] \in {p, procs[p].group})
    BY <1>4
  <2>2. child[c] # None /\ (p = child[c] \/ (~windows /\ procs[p].group = child[c]))
    BY <1>1, <1>3, <1>4, <2>1 DEF OwnsGroup
  <2>3. CASE p = child[c]
    BY <1>1, <2>2, <2>3 DEF OwnsGroup
  <2>4. CASE ~windows /\ procs[p].group = child[c]
    <3>1. p \in Group(child[c])
      BY <2>1, <2>4 DEF Group, Member
    <3> QED
      BY <2>2, <3>1, GroupIsOwn DEF Of
  <2> QED
    BY <2>2, <2>3, <2>4
<1>5. /\ hurt' \subseteq hurt \cup {<<c, o>> : o \in Calls \cup {Stranger}}
      /\ c \notin stolen => hurt' \subseteq hurt \cup {<<c, c>>}
  <2>1. \A p \in doomed : procs[p].of \in Calls \cup {Stranger}
    BY <1>3
  <2> HIDE DEF doomed
  <2> QED
    BY <1>2, <1>4, <2>1 DEF Signals
<1>6. child[c] = None /\ guard[c] = None => hurt' = hurt
  <2> SUFFICES ASSUME child[c] = None, guard[c] = None
               PROVE  hurt' = hurt
    OBVIOUS
  <2>1. doomed = {}
    BY <1>3
  <2> HIDE DEF doomed
  <2> QED
    BY <1>2, <2>1 DEF Signals
<1>7. doomed \in SUBSET Pids /\ \A p \in Pids : Live(p) /\ procs[p].group = guard[c] => p \in doomed
  OBVIOUS
<1> HIDE DEF doomed
<1> DEFINE table == Dead(doomed)
<1>8. table \in [Pids -> Rows] /\ \A p \in Pids : DeadRow(p, doomed, table[p])
  <2> HIDE DEF table
  <2> QED
    BY <1>7, DeadSafe DEF table
<1>9. \A p \in Pids : procs'[p] = IF p = child[c] THEN NoProcess ELSE table[p]
  BY <1>2
<1>10. procs' = [p \in Pids |-> procs'[p]]
  BY <1>2
<1> HIDE DEF table
<1>11. procs' \in [Pids -> Rows]
  BY <1>8, <1>9, <1>10 DEF Rows
<1>12. Shrinks
  <2> SUFFICES ASSUME NEW p \in Pids, procs'[p] # NoProcess
               PROVE  /\ procs'[p].of = procs[p].of /\ procs'[p].group = procs[p].group
                      /\ procs[p].away => procs'[p].away
                      /\ procs[p].group = p => procs'[p].away = procs[p].away
                      /\ procs'[p].up => procs[p].up
    BY DEF Shrinks
  <2>1. procs'[p] = table[p] /\ DeadRow(p, doomed, table[p])
    BY <1>8, <1>9
  <2> QED
    BY <2>1 DEF DeadRow
<1>13. ASSUME NEW d \in Calls \ {c}
       PROVE  KeepsProgram(d)
  <2>1. child[d] # None => child[d] \in Pids /\ child[d] # child[c]
    <3>1. child[d] # None => child[d] \in Pids
      BY <1>1 DEF TypeOK
    <3>2. child[c] # None => child[d] # child[c]
      BY GroupIsOwn
    <3> QED
      BY <3>1, <3>2
  <2> QED
    BY <1>8, <1>9, <2>1 DEF KeepsProgram, DeadRow
<1>14. ASSUME guard[c] # None, NEW p \in Of(c)'
       PROVE  procs'[p].away
  <2>1. p \in Pids /\ procs'[p].up /\ procs'[p].of = c
    BY <1>14 DEF Of, Live
  <2>2. p # child[c] /\ procs'[p] = table[p] /\ DeadRow(p, doomed, table[p])
    BY <1>8, <1>9, <2>1 DEF NoProcess
  <2>3. p \notin doomed /\ p \in Of(c) /\ (procs[p].away => procs'[p].away)
    BY <2>1, <2>2 DEF DeadRow, Of, Live
  <2>4. procs[p].group # guard[c]
    BY <1>7, <2>3 DEF Of
  <2>5. procs[p].away
    BY <1>1, <1>14, <2>3, <2>4 DEF OwnsGroup, Leader
  <2> QED
    BY <2>3, <2>5
<1> QED
  BY <1>2, <1>5, <1>6, <1>11, <1>12, <1>13, <1>14, ShrinksSafe

LEMMA EndSafe ==
  ASSUME SupervisorInv, NEW c \in Calls,
         \/ Drained(c) \/ GraceOver(c)
         \/ ~windows /\ Abandoned(c, "dropped")
         \/ BridgeEnds(c)
  PROVE  SupervisorInv'
<1>1. TypeOK /\ OwnsGroup(c) /\ StageOK(c) /\ CleanOK(c) /\ StreamOK(c)
  BY DEF SupervisorInv, CallOK
<1>2. /\ pc[c] \in Underway /\ DropLocals(c)
      /\ UNCHANGED <<windows, gone, failed, stolen, code, pipe, sent>>
  BY DEF Drained, GraceOver, Abandoned, BridgeEnds, winVars, streamVars, Underway
<1>3. /\ procs' \in [Pids -> Rows] /\ TableOK'
      /\ \A d \in Calls : Inherits(d)
      /\ \A d \in Calls \ {c} : KeepsProgram(d)
      /\ child' = [child EXCEPT ![c] = None]
      /\ guard' = [guard EXCEPT ![c] = None]
      /\ script' = [script EXCEPT ![c] = FALSE]
      /\ hurt' \subseteq hurt \cup {<<c, o>> : o \in Calls \cup {Stranger}}
      /\ c \notin stolen => hurt' \subseteq hurt \cup {<<c, c>>}
      /\ child[c] = None /\ guard[c] = None => hurt' = hurt
      /\ guard[c] # None => \A p \in Of(c)' : procs'[p].away
  BY <1>2, DropSafe
<1>4. PICK end \in {"done", "dropped", "stopped"}, how \in {"finished", "failed", "aborted"} :
        /\ pc' = [pc EXCEPT ![c] = end]
        /\ reader' = [reader EXCEPT ![c] = how]
        /\ how \in {"finished", "failed"} => reader[c] = how
        /\ reader[c] = "failed" => how = "failed"
        /\ end = "done" => pc[c] = "draining" /\ (how # "aborted" \/ truncated'[c])
        /\ end = "dropped" => ~windows
  <2>0. reader[c] \in {"reading", "finished", "failed", "aborted"}
    BY <1>1, <1>2 DEF TypeOK, StreamOK, StageOK, Underway
  <2>1. CASE Drained(c)
    <3>1. /\ pc' = [pc EXCEPT ![c] = "done"] /\ reader[c] \in {"finished", "failed"}
          /\ reader' = reader /\ pc[c] = "draining"
      BY <2>1 DEF Drained
    <3>2. reader' = [reader EXCEPT ![c] = reader[c]]
      BY <1>1, <3>1 DEF TypeOK
    <3> QED
      BY <3>1, <3>2
  <2>2. CASE GraceOver(c)
    <3>1. /\ pc' = [pc EXCEPT ![c] = "done"] /\ pc[c] = "draining"
          /\ reader' = [reader EXCEPT ![c] = "aborted"] /\ truncated'[c]
          /\ reader[c] = "reading"
      BY <1>1, <2>2 DEF GraceOver, TypeOK
    <3> QED
      BY <3>1
  <2>3. CASE (~windows /\ Abandoned(c, "dropped")) \/ BridgeEnds(c)
    <3>1. PICK end \in {"dropped", "stopped"} :
            Abandoned(c, end) /\ (end = "dropped" => ~windows)
      BY <2>3 DEF BridgeEnds
    <3>2. /\ pc' = [pc EXCEPT ![c] = end]
          /\ reader' = [reader EXCEPT ![c] = IF reader[c] = "reading" THEN "aborted"
                                             ELSE reader[c]]
      BY <3>1 DEF Abandoned
    <3>3. CASE reader[c] = "reading"
      BY <3>1, <3>2, <3>3
    <3>4. CASE reader[c] # "reading"
      BY <2>0, <3>1, <3>2, <3>4
    <3> QED
      BY <3>3, <3>4
  <2> QED
    BY <2>1, <2>2, <2>3
<1>5. /\ pc'[c] = end /\ reader'[c] = how /\ child'[c] = None /\ guard'[c] = None
      /\ ~script'[c] /\ code'[c] = code[c]
  BY <1>1, <1>2, <1>3, <1>4 DEF TypeOK
<1> DEFINE report == IF end = "done" /\ code[c] = "wait_failed" THEN 1 ELSE 0
<1>6. /\ truncated' \in [Calls -> BOOLEAN] /\ kept' \in [Calls -> 0..Limit]
      /\ truncated[c] => truncated'[c]
      /\ truncated'[c] \/ kept'[c] = kept[c] + report
      /\ \A d \in Calls \ {c} : truncated'[d] = truncated[d] /\ kept'[d] = kept[d]
  <2>1. CASE Drained(c)
    <3>1. Append(c, report) /\ report \in Nat
      <4>1. pc' = [pc EXCEPT ![c] = "done"]
        BY <2>1 DEF Drained
      <4>2. end = "done"
        BY <1>1, <1>4, <4>1 DEF TypeOK
      <4> QED
        BY <2>1, <4>2 DEF Drained
    <3> HIDE DEF report
    <3> QED
      BY <1>1, <3>1, AppendSafe
  <2>2. CASE GraceOver(c)
    <3> DEFINE n == IF code[c] = "wait_failed" THEN 1 ELSE 0
    <3>1. /\ truncated' = [truncated EXCEPT ![c] = TRUE]
          /\ kept' = [kept EXCEPT ![c] = kept[c] + Fits(c, n)]
      BY <2>2 DEF GraceOver
    <3>2. n \in Nat
      OBVIOUS
    <3> HIDE DEF n
    <3>3. kept[c] + Fits(c, n) \in 0..Limit
      BY <1>1, <3>2, SupervisorAssumption DEF TypeOK, Fits
    <3> QED
      BY <1>1, <3>1, <3>3 DEF TypeOK
  <2>3. CASE (~windows /\ Abandoned(c, "dropped")) \/ BridgeEnds(c)
    <3>1. PICK e \in {"dropped", "stopped"} : Abandoned(c, e)
      BY <2>3 DEF BridgeEnds
    <3>2. pc' = [pc EXCEPT ![c] = e] /\ UNCHANGED <<kept, truncated>>
      BY <3>1 DEF Abandoned
    <3>3. end # "done"
      BY <1>1, <1>4, <3>2 DEF TypeOK
    <3>4. kept[c] \in Nat
      BY <1>1, SupervisorAssumption DEF TypeOK
    <3> QED
      BY <1>1, <3>2, <3>3, <3>4 DEF TypeOK
  <2> QED
    BY <2>1, <2>2, <2>3
<1> HIDE DEF report
<1>7. TypeOK'
  <2>1. /\ pc' \in [Calls -> {"new", "running", "terminating", "reaping", "draining",
                              "done", "dropped", "stopped"}]
        /\ reader' \in [Calls -> {"none", "reading", "finished", "failed", "aborted"}]
    BY <1>1, <1>4 DEF TypeOK
  <2>2. /\ child' \in [Calls -> Pids \cup {None}] /\ guard' \in [Calls -> Pids \cup {None}]
        /\ script' \in [Calls -> BOOLEAN]
        /\ hurt' \subseteq Calls \X (Calls \cup {Stranger})
    BY <1>1, <1>3 DEF TypeOK
  <2> QED
    BY <1>1, <1>2, <1>3, <1>6, <2>1, <2>2 DEF TypeOK, Rows
<1>8. OwnsGroup(c)'
  BY <1>5 DEF OwnsGroup, Leader
<1>9. child[c] # None \/ guard[c] # None => code[c] \in {"none", "wait_failed"}
  BY <1>1, <1>2 DEF OwnsGroup, StageOK, Underway
<1>10. StageOK(c)'
  <2>1. \A o \in Calls \cup {Stranger} : <<c, o>> \in hurt' =>
          /\ o = c \/ c \in stolen
          /\ pc'[c] \notin {"new", "running"} /\ code'[c] # "exited"
    BY <1>1, <1>3, <1>4, <1>5, <1>9 DEF StageOK
  <2>2. code[c] # "not_started" /\ pc[c] # "new"
    BY <1>1, <1>2 DEF StageOK, Underway
  <2>3. pc[c] = "draining" => code[c] # "none"
    BY <1>1 DEF StageOK
  <2>4. c \in stolen => ~windows /\ code[c] = "wait_failed"
    BY <1>1 DEF StageOK
  <2> QED
    BY <1>2, <1>4, <1>5, <2>1, <2>2, <2>3, <2>4 DEF StageOK, Underway
<1>11. CleanOK(c)'
  <2> SUFFICES ASSUME c \notin failed,
                      \/ code[c] = "timed_out"
                      \/ end = "dropped" /\ code[c] # "exited"
                      \/ ~windows /\ end = "done" /\ code[c] = "wait_failed"
               PROVE  \A p \in Of(c)' : procs'[p].away
    BY <1>2, <1>4, <1>5 DEF CleanOK
  <2>1. CASE code[c] = "timed_out"
    BY <1>1, <1>3, <2>1, Inherited DEF CleanOK
  <2>2. CASE code[c] # "timed_out"
    <3>1. ~windows /\ pc[c] \in Underway
      BY <1>2, <1>4, <2>2
    <3>2. guard[c] # None
      BY <1>1, <1>4, <2>2, <3>1 DEF StageOK, OwnsGroup, Underway, TypeOK
    <3> QED
      BY <1>3, <3>2
  <2> QED
    BY <2>1, <2>2
<1>12. StreamOK(c)'
  <2>1. reader[c] = "finished" => pipe[c] = 0 /\ Of(c)' = {}
    BY <1>1, <1>3, Inherited DEF StreamOK
  <2>2. code[c] # "not_started" /\ pc[c] \notin {"new", "done"}
    BY <1>1, <1>2 DEF StageOK, Underway
  <2>3. truncated'[c] \/ kept'[c] + pipe[c] = sent[c] + Filed(c)'
    <3>1. truncated[c] \/ kept[c] + pipe[c] = sent[c] + Filed(c)
      BY <1>1 DEF StreamOK
    <3>2. Filed(c)' = Filed(c) + report /\ Filed(c) \in Nat /\ report \in Nat
      BY <1>4, <1>5, <2>2 DEF Filed, report
    <3>3. kept[c] \in Nat /\ sent[c] \in Nat /\ pipe[c] \in Nat
      BY <1>1, SupervisorAssumption DEF TypeOK
    <3> QED
      BY <1>6, <3>1, <3>2, <3>3
  <2> QED
    BY <1>1, <1>2, <1>4, <1>5, <2>1, <2>2, <2>3 DEF StreamOK
<1>13. \A d \in Calls \ {c} : SameCall(d)
  BY <1>1, <1>2, <1>3, <1>4, <1>6 DEF SameCall, TypeOK
<1> QED
  BY <1>2, <1>3, <1>7, <1>8, <1>10, <1>11, <1>12, <1>13, CallStep DEF CallOK

\* On Windows the dropped call only tells its supervisor.
LEMMA DroppedSafe ==
  ASSUME SupervisorInv, NEW c \in Calls, windows, Dropped(c)
  PROVE  SupervisorInv'
<1>1. /\ gone' = [gone EXCEPT ![c] = TRUE]
      /\ UNCHANGED <<windows, failed, stolen, procs, callVars, streamVars, hurt>>
  BY DEF Dropped
<1>2. UNCHANGED <<windows, failed, stolen, procs, pc, child, guard, code, script, reader, pipe,
                  sent, kept, truncated, hurt>>
  BY <1>1 DEF callVars, streamVars
<1>3. TypeOK'
  BY <1>1, <1>2 DEF SupervisorInv, TypeOK
<1>4. TableOK' /\ \A d \in Calls : Inherits(d) /\ KeepsProgram(d)
  BY <1>2, SameTable
<1>5. \A d \in Calls : SameCall(d)
  BY <1>2 DEF SameCall
<1>6. \A d \in Calls : CallOK(d)'
  BY <1>2, <1>4, <1>5, OtherCall
<1> QED
  BY <1>3, <1>4, <1>6 DEF SupervisorInv

-----------------------------------------------------------------------------
(* The theorems *)

LEMMA InitSafe ==
  ASSUME Init
  PROVE  SupervisorInv
<1>1. \A p \in Pids : procs[p] = NoProcess
  BY DEF Init
<1>2. /\ TypeOK
  BY SupervisorAssumption DEF Init, TypeOK
<1>3. TableOK
  BY <1>1 DEF TableOK
<1>4. ASSUME NEW c \in Calls
      PROVE  CallOK(c)
  <2>1. Of(c) = {}
    BY <1>1 DEF Of, Live, NoProcess
  <2> QED
    BY <2>1 DEF Init, CallOK, OwnsGroup, StageOK, CleanOK, StreamOK, Underway, Leader, Filed
<1> QED
  BY <1>2, <1>3, <1>4 DEF SupervisorInv

LEMMA NextSafe ==
  ASSUME SupervisorInv, [Next]_vars
  PROVE  SupervisorInv'
<1>1. CASE UNCHANGED vars
  <2>1. UNCHANGED <<winVars, callVars, streamVars, hurt>> /\ procs' = procs
    BY <1>1 DEF vars
  <2>2. procs' \in [Pids -> Rows]
    BY <2>1 DEF SupervisorInv, TypeOK, Rows
  <2> QED
    BY <2>1, <2>2, SameTable, SystemSafe DEF winVars
<1>2. CASE (\E q \in Pids : Fork(q) \/ Detach(q) \/ Die(q)) \/ StrangerStarts
  BY <1>2, ProcessSafe
<1>3. ASSUME NEW c \in Calls,
             \/ Write(c) \/ Read(c) \/ ReadFails(c) \/ ReadEnd(c)
             \/ Spawn(c) \/ SpawnFails(c)
             \/ Exited(c) \/ WaitFails(c)
             \/ TimedOut(c) \/ Cancelled(c) \/ KillGroup(c) \/ TaskKill(c) \/ Reaped(c)
             \/ Drained(c) \/ GraceOver(c) \/ Dropped(c) \/ BridgeEnds(c)
      PROVE  SupervisorInv'
  <2>1. CASE Write(c) \/ Read(c) \/ ReadFails(c) \/ ReadEnd(c)
    BY <2>1, ReaderSafe
  <2>2. CASE Spawn(c)
    BY <2>2, SpawnSafe
  <2>3. CASE SpawnFails(c) \/ WaitFails(c) \/ TimedOut(c) \/ Cancelled(c)
    <3>1. CASE SpawnFails(c)
      BY <3>1, SpawnFailsSafe
    <3>2. CASE WaitFails(c) /\ ~UNCHANGED <<procs, child, stolen>>
      BY <3>2, StolenSafe
    <3>3. CASE \/ TimedOut(c) \/ Cancelled(c)
               \/ WaitFails(c) /\ UNCHANGED <<procs, child, stolen>>
      BY <3>3, StageSafe
    <3> QED
      BY <2>3, <3>1, <3>2, <3>3
  <2>4. CASE Exited(c) \/ Reaped(c)
    BY <2>4, WaitSafe
  <2>5. CASE KillGroup(c) \/ TaskKill(c)
    BY <2>5, KillGroupSafe
  <2>6. CASE Drained(c) \/ GraceOver(c) \/ BridgeEnds(c)
    BY <2>6, EndSafe
  <2>7. CASE Dropped(c)
    <3>1. CASE windows
      BY <2>7, <3>1, DroppedSafe
    <3>2. CASE ~windows
      BY <2>7, <3>2, EndSafe DEF Dropped
    <3> QED
      BY <3>1, <3>2
  <2> QED
    BY <1>3, <2>1, <2>2, <2>3, <2>4, <2>5, <2>6, <2>7
<1> QED
  BY <1>1, <1>2, <1>3 DEF Next

\* In every reachable state of a run of process.rs, numbers in use name one group and
\* one owner, each call knows the group it may signal, and what a call has captured,
\* dropped and cleaned up fits the stage it is in.
THEOREM SupervisorInvariant == Spec => []SupervisorInv
<1>1. Init => SupervisorInv
  BY InitSafe
<1>2. SupervisorInv /\ [Next]_vars => SupervisorInv'
  BY NextSafe
<1> QED
  BY <1>1, <1>2, PTL DEF Spec

\* The variables stay within their types: nothing captured beyond Limit, nothing in a
\* pipe beyond its size.
THEOREM TypeCorrect == Spec => []TypeOK
<1>1. SupervisorInv => TypeOK
  BY DEF SupervisorInv
<1> QED
  BY <1>1, SupervisorInvariant, PTL

\* The signals that terminate, cleanup and the guard of process.rs send by number
\* reach no process of another call or of the system, unless somebody else has waited
\* for the call's program, and none once the program has exited in time.
THEOREM OnlyOwnIsSignalled == Spec => []OnlyOwnProcesses
<1>1. ASSUME SupervisorInv
      PROVE  OnlyOwnProcesses
  <2> SUFFICES ASSUME NEW s \in hurt
               PROVE  (s[1] = s[2] \/ s[1] \in stolen) /\ code[s[1]] # "exited"
    BY DEF OnlyOwnProcesses
  <2>1. PICK c \in Calls, o \in Calls \cup {Stranger} : s = <<c, o>>
    BY <1>1 DEF SupervisorInv, TypeOK
  <2>2. StageOK(c)
    BY <1>1 DEF SupervisorInv, CallOK
  <2> QED
    BY <2>1, <2>2 DEF StageOK
<1> QED
  BY <1>1, SupervisorInvariant, PTL

\* After a timeout, a dropped call or a failed wait, no process is left in the
\* program's group (on Windows in its tree, unless taskkill failed).
THEOREM GroupIsCleaned == Spec => []GroupIsGone
<1>1. ASSUME SupervisorInv
      PROVE  GroupIsGone
  <2> SUFFICES ASSUME NEW c \in Calls \ failed,
                      \/ code[c] = "timed_out"
                      \/ pc[c] = "dropped" /\ code[c] # "exited"
                      \/ gone[c] /\ pc[c] = "done" /\ code[c] \notin {"exited", "wait_failed"}
                      \/ ~windows /\ pc[c] = "done" /\ code[c] = "wait_failed"
               PROVE  \A p \in Of(c) : procs[p].away
    BY DEF GroupIsGone
  <2>1. StageOK(c) /\ CleanOK(c) /\ TypeOK
    BY <1>1 DEF SupervisorInv, CallOK
  <2>2. CASE pc[c] = "done" /\ code[c] = "not_started"
    BY <2>1, <2>2 DEF StageOK
  <2>3. CASE ~(pc[c] = "done" /\ code[c] = "not_started")
    BY <2>1, <2>3 DEF StageOK, CleanOK, TypeOK
  <2> QED
    BY <2>2, <2>3
<1> QED
  BY <1>1, SupervisorInvariant, PTL

\* The temporary script of a long command on Windows is there for as long as the
\* program runs, and gone whenever the call is over.
THEOREM ScriptOutlivesCaller == Spec => []ScriptIsHeld
<1>1. ASSUME SupervisorInv
      PROVE  ScriptIsHeld
  <2> SUFFICES ASSUME NEW c \in Calls
               PROVE  /\ windows /\ child[c] # None /\ Live(child[c]) => script[c]
                      /\ pc[c] \notin Underway => ~script[c]
    BY DEF ScriptIsHeld
  <2>1. StageOK(c)
    BY <1>1 DEF SupervisorInv, CallOK
  <2> QED
    BY <2>1 DEF StageOK, Underway
<1> QED
  BY <1>1, SupervisorInvariant, PTL

\* An answer whose output is not marked truncated holds all that the program and its
\* descendants wrote, and will ever write, to that stream, and the report of every
\* error; of what a failed reader left behind, it holds the report.
THEOREM UnmarkedOutputIsComplete == Spec => []UnmarkedIsComplete
<1>1. ASSUME SupervisorInv
      PROVE  UnmarkedIsComplete
  <2> SUFFICES ASSUME NEW c \in Calls, pc[c] = "done", ~truncated[c]
               PROVE  /\ kept[c] = sent[c] - pipe[c] + Reports(c)
                      /\ pipe[c] > 0 \/ Of(c) # {} => reader[c] = "failed"
    BY DEF UnmarkedIsComplete
  <2>1. /\ StreamOK(c) /\ StageOK(c) /\ kept[c] \in Nat /\ pipe[c] \in Nat
        /\ sent[c] \in Nat
    BY <1>1, SupervisorAssumption DEF SupervisorInv, CallOK, TypeOK
  <2>2. Filed(c) = Reports(c) /\ Filed(c) \in Nat
    BY DEF Filed, Reports
  <2>3. kept[c] = sent[c] - pipe[c] + Reports(c)
    BY <2>1, <2>2 DEF StreamOK
  <2>4. reader[c] # "failed" => pipe[c] = 0 /\ Of(c) = {}
    BY <2>1 DEF StreamOK, StageOK
  <2> QED
    BY <2>1, <2>3, <2>4
<1> QED
  BY <1>1, SupervisorInvariant, PTL
=============================================================================
