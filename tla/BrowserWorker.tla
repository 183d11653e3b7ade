---------------------------- MODULE BrowserWorker ----------------------------
(***************************************************************************)
(* The persistent browser helper: one slot, shared under a mutex, holds    *)
(* the helper process that scripted browser actions talk to over its       *)
(* standard input and output. An action takes the helper out of the slot   *)
(* and puts it back only after it has read and checked the whole answer; a *)
(* cancelled action drops the helper, which kills it. The module includes  *)
(* the prewarm task and the shutdown of the process.                       *)
(*                                                                         *)
(* A request stands for one scripted action that holds a permit of the     *)
(* browser ToolGate. What the action does in the browser is left out; an   *)
(* answer is identified with the request it was computed for.              *)
(***************************************************************************)
EXTENDS Integers, Sequences, FiniteSets

CONSTANTS
  Requests,     \* scripted browser actions
  Prewarm,      \* the task that starts the first helper at startup
  Workers,      \* helper processes (bound: those that can be spawned)
  MaxId,        \* the largest request id (2^64 - 1 in the code)
  None

Tasks == Requests \cup {Prewarm}

ASSUME BrowserAssumption ==
  /\ Prewarm \notin Requests
  /\ MaxId \in Nat \ {0}
  /\ None \notin Tasks \cup Workers

VARIABLES
  phase,        \* where main() is
  pc,           \* where each task is
  lock,         \* the holder of the browser_worker mutex, or None
  slot,         \* the helper in the shared slot, or None
  own,          \* own[t]: the helper that task t owns (starting or in flight)
  asked,        \* asked[t]: the id of the request in flight
  outcome,      \* how the action ended
  up,           \* state of each helper process
  nextId,       \* next_id of each helper
  stdin,        \* requests written to the helper and not read by it
  stdout        \* answers written by the helper and not read by the bridge

tasksVars  == <<pc, lock, slot, own, asked, outcome>>
workerVars == <<up, nextId, stdin, stdout>>
vars       == <<phase, tasksVars, workerVars>>

Alive == {w \in Workers : up[w] \in {"booting", "serving"}}

Pending    == [answer : {"pending"}, to : {None}]
Failures   == [answer : {"failed", "sequence", "cancelled"}, to : {None}]
Answers    == [answer : {"answered"}, to : Requests]
Failed(why) == [answer |-> why, to |-> None]

Init ==
  /\ phase = "serving"
  /\ pc = [t \in Tasks |-> IF t = Prewarm THEN "waiting" ELSE "new"]
  /\ lock = None /\ slot = None
  /\ own = [t \in Tasks |-> None]
  /\ asked = [t \in Tasks |-> 0]
  /\ outcome = [t \in Tasks |-> Failed("pending")]
  /\ up = [w \in Workers |-> "unused"]
  /\ nextId = [w \in Workers |-> 1]
  /\ stdin = [w \in Workers |-> <<>>]
  /\ stdout = [w \in Workers |-> <<>>]

-----------------------------------------------------------------------------
(* Tasks *)

\* The action has its permit and waits for the mutex; its deadline is running.
Start(r) ==
  /\ phase # "stopped"
  /\ pc[r] = "new"
  /\ pc' = [pc EXCEPT ![r] = "waiting"]
  /\ UNCHANGED <<phase, lock, slot, own, asked, outcome, workerVars>>

Acquire(t) ==
  /\ pc[t] = "waiting"
  /\ lock = None
  /\ lock' = t
  /\ pc' = [pc EXCEPT ![t] = "holding"]
  /\ UNCHANGED <<phase, slot, own, asked, outcome, workerVars>>

\* The task ends, and the mutex is free again if the task held it.
End(t, how) ==
  /\ pc' = [pc EXCEPT ![t] = "done"]
  /\ outcome' = [outcome EXCEPT ![t] = how]
  /\ own' = [own EXCEPT ![t] = None]
  /\ asked' = [asked EXCEPT ![t] = 0]
  /\ lock' = IF lock = t THEN None ELSE lock

\* The helper is killed: by kill() or by being dropped. Its input closes; what
\* it wrote is gone with the handle.
Kill(ws) ==
  /\ up' = [w \in Workers |-> IF w \in ws THEN "gone" ELSE up[w]]
  /\ stdin' = [w \in Workers |-> IF w \in ws THEN <<>> ELSE stdin[w]]
  /\ stdout' = [w \in Workers |-> IF w \in ws THEN <<>> ELSE stdout[w]]
  /\ UNCHANGED nextId

\* wrapping_add(1).max(1)
NextId_Zero(id) == (id + 1) % (MaxId + 1)   \* Mutant: 0 is not skipped.

NextId(id) == IF id = MaxId THEN 1 ELSE id + 1

\* The task has helper w and writes its request; the slot is empty. (A helper that has
\* just died does not read it.) What was in the slot before w, if it was another
\* helper, is dropped.
Ask(t, w) ==
  LET old == {slot} \ {w} IN
  /\ slot' = None
  /\ own' = [own EXCEPT ![t] = w]
  /\ asked' = [asked EXCEPT ![t] = nextId[w]]
  /\ nextId' = [nextId EXCEPT ![w] = NextId(@)]
  /\ up' = [v \in Workers |-> IF v \in old THEN "gone" ELSE up[v]]
  /\ stdin' = [v \in Workers |->
                 IF v \in old THEN <<>>
                 ELSE IF v = w THEN Append(stdin[w], [id |-> nextId[w], from |-> t])
                 ELSE stdin[v]]
  /\ stdout' = [v \in Workers |-> IF v \in old THEN <<>> ELSE stdout[v]]
  /\ pc' = [pc EXCEPT ![t] = "inflight"]
  /\ UNCHANGED <<phase, lock, outcome>>

\* try_wait finds the helper in the slot running.
Reuse(r) ==
  /\ r \in Requests
  /\ pc[r] = "holding" /\ slot \in Alive
  /\ Ask(r, slot)

AlreadyWarm ==
  /\ pc[Prewarm] = "holding" /\ slot \in Alive
  /\ End(Prewarm, Failed("failed"))
  /\ UNCHANGED <<phase, slot, workerVars>>

\* The slot is empty, its helper has exited, or try_wait fails, whatever the helper
\* does: start another one. The old one stays in the slot until the new one is ready.
Spawn(t) ==
  /\ pc[t] = "holding"
  /\ \E w \in Workers :
       /\ up[w] = "unused"
       /\ up' = [up EXCEPT ![w] = "booting"]
       /\ own' = [own EXCEPT ![t] = w]
  /\ pc' = [pc EXCEPT ![t] = "spawning"]
  /\ UNCHANGED <<phase, lock, slot, asked, outcome, nextId, stdin, stdout>>

\* The program cannot be started.
SpawnFails(t) ==
  /\ pc[t] = "holding"
  /\ End(t, Failed("failed"))
  /\ UNCHANGED <<phase, slot, workerVars>>

\* The handshake arrived. An action goes on with its request, the prewarm task
\* leaves the helper in the slot; the old one is dropped.
Handshake(t) ==
  /\ pc[t] = "spawning" /\ up[own[t]] = "serving"
  /\ IF t = Prewarm
     THEN /\ slot' = own[t]
          /\ Kill({slot})
          /\ End(t, Failed("failed"))
          /\ UNCHANGED phase
     ELSE Ask(t, own[t])

\* The helper exited before its handshake, or speaks another protocol: it is
\* dropped, and the slot stays as it was.
HandshakeFails(t) ==
  /\ pc[t] = "spawning"
  /\ Kill({own[t]})
  /\ End(t, Failed("failed"))
  /\ UNCHANGED <<phase, slot>>

\* A complete answer was read: the helper goes back into the slot, unless the
\* answer is not the one to this request.
Receive(t) ==
  /\ pc[t] = "inflight" /\ stdout[own[t]] # <<>>
  /\ LET w == own[t]  m == Head(stdout[own[t]]) IN
     IF m.id = asked[t]
     THEN /\ slot' = w
          /\ stdout' = [stdout EXCEPT ![w] = Tail(@)]
          /\ End(t, [answer |-> "answered", to |-> m.from])
          /\ UNCHANGED <<phase, up, nextId, stdin>>
     ELSE /\ Kill({w})
          /\ End(t, Failed("sequence"))
          /\ UNCHANGED <<phase, slot>>

\* The answer cannot be read. The helper cuts a long result after a fixed number
\* of UTF-16 units; half of a surrogate pair makes JSON that the bridge refuses.
Unreadable(t) ==
  /\ pc[t] = "inflight" /\ stdout[own[t]] # <<>>
  /\ Kill({own[t]})
  /\ End(t, Failed("failed"))
  /\ UNCHANGED <<phase, slot>>

\* The pipe closed before a whole answer arrived: kill and wait.
Broken(t) ==
  /\ pc[t] = "inflight"
  /\ up[own[t]] = "gone" /\ stdout[own[t]] = <<>>
  /\ Kill({own[t]})
  /\ End(t, Failed("failed"))
  /\ UNCHANGED <<phase, slot>>

\* The deadline of the action passes, or its future is dropped, wherever it is;
\* the helper it owns is dropped with it.
Cancel_PutsBack(t) ==   \* Mutant: the helper was only borrowed from the slot.
  /\ pc[t] \notin {"new", "done"}
  /\ slot' = IF own[t] # None THEN own[t] ELSE slot
  /\ End(t, Failed("cancelled"))
  /\ UNCHANGED <<phase, workerVars>>

Cancel_RequestOnly(t) ==   \* Mutant: no deadline for the start of the helper.
  /\ pc[t] = "inflight"
  /\ Kill({own[t]})
  /\ End(t, Failed("cancelled"))
  /\ UNCHANGED <<phase, slot>>

Cancel(t) ==
  /\ pc[t] \notin {"new", "done"}
  /\ Kill({own[t]})
  /\ End(t, Failed("cancelled"))
  /\ UNCHANGED <<phase, slot>>

-----------------------------------------------------------------------------
(* The helper process: scripts/browser.cjs serve *)

\* It writes its handshake.
Boot(w) ==
  /\ up[w] = "booting"
  /\ up' = [up EXCEPT ![w] = "serving"]
  /\ UNCHANGED <<phase, tasksVars, nextId, stdin, stdout>>

\* It reads a request, performs the action and answers under the same id.
Serve(w) ==
  /\ up[w] = "serving" /\ stdin[w] # <<>>
  /\ stdin' = [stdin EXCEPT ![w] = Tail(@)]
  /\ stdout' = [stdout EXCEPT ![w] = Append(@, Head(stdin[w]))]
  /\ UNCHANGED <<phase, tasksVars, up, nextId>>

\* It crashes; answers written before that can still be read.
Die(w) ==
  /\ w \in Alive
  /\ up' = [up EXCEPT ![w] = "gone"]
  /\ stdin' = [stdin EXCEPT ![w] = <<>>]
  /\ UNCHANGED <<phase, tasksVars, nextId, stdout>>

-----------------------------------------------------------------------------
(* Shutdown, in main() *)

\* SIGINT or SIGTERM: no new connections; requests under way may finish.
Signal ==
  /\ phase = "serving"
  /\ phase' = "draining"
  /\ UNCHANGED <<tasksVars, workerVars>>

\* The server is dropped; the prewarm task is aborted and awaited.
StopServing ==
  /\ phase' = "cleaning"
  /\ IF pc[Prewarm] # "done"
     THEN Kill({own[Prewarm]}) /\ End(Prewarm, Failed("cancelled"))
     ELSE UNCHANGED <<workerVars, pc, lock, own, asked, outcome>>
  /\ UNCHANGED slot

\* All connections closed or the drain deadline passed. Requests that outlived the
\* deadline go on running.
EndDrain == phase = "draining" /\ StopServing

\* The server ends by itself, with an error: there is no drain.
ServerFails == phase = "serving" /\ StopServing

\* shutdown_browser_worker gets the mutex and kills the helper in the slot.
TerminateWorker ==
  /\ phase = "cleaning"
  /\ lock = None
  /\ Kill({slot})
  /\ slot' = None
  /\ phase' = "cleaned"
  /\ UNCHANGED <<pc, lock, own, asked, outcome>>

\* main() returns, after the cleanup or its deadline; the runtime drops every
\* task and the shared state.
Exit_Polite ==   \* Mutant: the cleanup has no deadline.
  /\ phase = "cleaned"
  /\ phase' = "stopped"
  /\ Kill({slot} \cup {own[t] : t \in Tasks})
  /\ pc' = [t \in Tasks |-> "done"]
  /\ own' = [t \in Tasks |-> None]
  /\ lock' = None /\ slot' = None
  /\ UNCHANGED <<asked, outcome>>

Exit_Detaches ==   \* Mutant: without kill_on_drop.
  /\ phase \in {"cleaning", "cleaned"}
  /\ phase' = "stopped"
  /\ pc' = [t \in Tasks |-> "done"]
  /\ own' = [t \in Tasks |-> None]
  /\ lock' = None /\ slot' = None
  /\ UNCHANGED <<asked, outcome, workerVars>>

Exit ==
  /\ phase \in {"cleaning", "cleaned"}
  /\ phase' = "stopped"
  /\ Kill({slot} \cup {own[t] : t \in Tasks})
  /\ pc' = [t \in Tasks |-> "done"]
  /\ own' = [t \in Tasks |-> None]
  /\ lock' = None /\ slot' = None
  /\ UNCHANGED <<asked, outcome>>

\* The process is gone.
Stopped == phase = "stopped" /\ UNCHANGED vars

Next ==
  \/ \E r \in Requests : Start(r) \/ Reuse(r)
  \/ AlreadyWarm
  \/ \E t \in Tasks :
       \/ Acquire(t) \/ Spawn(t) \/ SpawnFails(t)
       \/ Handshake(t) \/ HandshakeFails(t)
       \/ Receive(t) \/ Unreadable(t) \/ Broken(t) \/ Cancel(t)
  \/ \E w \in Workers : Boot(w) \/ Serve(w) \/ Die(w)
  \/ Signal \/ EndDrain \/ ServerFails \/ TerminateWorker \/ Exit
  \/ Stopped

Spec == Init /\ [][Next]_vars

\* The deadline of a task that holds the mutex, wherever it waits.
HolderDeadline(t) == pc[t] \in {"holding", "spawning", "inflight"} /\ Cancel(t)

\* Timers fire: the deadline of whoever holds the mutex, of the drain and of the
\* cleanup; and a free mutex is given to one that waits for it. Nothing is assumed of
\* the helper, nor of the deadlines of those that wait.
FairSpec ==
  /\ Spec
  /\ \A t \in Tasks : WF_vars(HolderDeadline(t)) /\ WF_vars(Acquire(t))
  /\ WF_vars(EndDrain) /\ WF_vars(Exit)
-----------------------------------------------------------------------------
(* Properties *)

Messages == [id : 1..MaxId, from : Tasks]

TypeOK ==
  /\ phase \in {"serving", "draining", "cleaning", "cleaned", "stopped"}
  /\ pc \in [Tasks -> {"new", "waiting", "holding", "spawning", "inflight", "done"}]
  /\ lock \in Tasks \cup {None}
  /\ slot \in Workers \cup {None}
  /\ own \in [Tasks -> Workers \cup {None}]
  /\ asked \in [Tasks -> 0..MaxId]
  /\ outcome \in [Tasks -> Pending \cup Failures \cup Answers]
  /\ up \in [Workers -> {"unused", "booting", "serving", "gone"}]
  /\ nextId \in [Workers -> 1..MaxId]
  /\ stdin \in [Workers -> Seq(Messages)]
  /\ stdout \in [Workers -> Seq(Messages)]

\* Whatever was cancelled before, the helper in the shared slot is idle: no
\* request on its way to it and no answer left in its pipe (run_worker_request:
\* "keep the slot empty until the response is fully consumed and validated").
SlotIsQuiescent ==
  slot # None => /\ stdin[slot] = <<>> /\ stdout[slot] = <<>>
                 /\ \A t \in Tasks : own[t] # slot

\* An action is never given the answer to another action, and a cancelled action
\* does no harm to the next one: nobody ever finds an answer out of sequence.
AnswersAreOwn ==
  \A r \in Requests : outcome[r].to \in {None, r} /\ outcome[r].answer # "sequence"

\* However starts, crashes and cancellations interleave, no helper process runs that
\* cannot be reached: it is in the slot, or the task that holds the mutex owns it; and
\* there is one, or two while one is started in the place of another. So no helper
\* outlives the bridge.
NoOrphan ==
  /\ Alive \subseteq {slot} \cup {own[t] : t \in {u \in Tasks : lock = u}}
  /\ Cardinality(Alive) <= IF \E t \in Tasks : pc[t] = "spawning" THEN 2 ELSE 1

\* The helper may hang for ever, in its start or in an action: who waits for the mutex
\* behind those that it keeps gets it all the same, by their deadlines and not only
\* its own ("one execution budget covers [...] worker startup, lock waits, and the
\* action").
MutexIsHandedOn == \A t \in Tasks : pc[t] = "waiting" ~> pc[t] # "waiting"

\* After the signal, or an error of the server, the process stops, even when actions
\* and helper hang.
ShutdownEnds == phase \in {"draining", "cleaning"} ~> phase = "stopped"
=============================================================================
