------------------------------ MODULE ToolGate ------------------------------
(***************************************************************************)
(* The gate in front of the shell, browser and backend tools (limits.rs).  *)
(* Two semaphores: `admitted` bounds everybody inside, running or waiting; *)
(* `running` bounds the running work. Waiting for `running` is first come, *)
(* first served, and gives up after a deadline; a caller may be cancelled  *)
(* at any await. Permits come back when their owner is dropped.            *)
(*                                                                         *)
(* Of tokio's semaphore the model has what the gate relies on: a released  *)
(* permit goes to the first waiter, which is then woken; a waiter that is  *)
(* dropped after it was given a permit, and before it ran again, passes    *)
(* the permit on.                                                          *)
(***************************************************************************)
EXTENDS Naturals, FiniteSets, Sequences

CONSTANTS
  Callers,      \* concurrent tool calls
  Concurrency   \* permits of `running`

ASSUME GateAssumption == Concurrency \in Nat \ {0} /\ IsFiniteSet(Callers)

Capacity == 4 * Concurrency

VARIABLES
  pc,           \* where each call is
  admitted,     \* available permits of the semaphore `admitted`
  running,      \* available permits of the semaphore `running`
  queue,        \* callers waiting for a permit of `running`, in order
  assigned      \* waiters that were given one, and have not run since

vars == <<pc, admitted, running, queue, assigned>>

At(where) == {c \in Callers : pc[c] \in where}

Init ==
  /\ pc = [c \in Callers |-> "outside"]
  /\ admitted = Capacity
  /\ running = Concurrency
  /\ queue = <<>>
  /\ assigned = {}

-----------------------------------------------------------------------------
\* try_acquire_owned on `admitted`. A call that finds no permit is refused at
\* once ("busy"): nothing changes.
Admit(c) ==
  /\ pc[c] = "outside"
  /\ admitted > 0
  /\ admitted' = admitted - 1
  /\ pc' = [pc EXCEPT ![c] = "admitted"]
  /\ UNCHANGED <<running, queue, assigned>>

\* The first poll of acquire_owned on `running`: takes a permit or joins the
\* queue. Other threads may act between the two semaphores.
Enter(c) ==
  /\ pc[c] = "admitted"
  /\ \/ /\ running > 0
        /\ running' = running - 1
        /\ pc' = [pc EXCEPT ![c] = "running"]
        /\ UNCHANGED queue
     \/ /\ running = 0
        /\ queue' = Append(queue, c)
        /\ pc' = [pc EXCEPT ![c] = "waiting"]
        /\ UNCHANGED running
  /\ UNCHANGED <<admitted, assigned>>

\* The woken waiter is polled and owns its permit (also after the deadline:
\* timeout polls the acquisition first).
Resume(c) ==
  /\ pc[c] = "waiting"
  /\ c \in assigned
  /\ pc' = [pc EXCEPT ![c] = "running"]
  /\ assigned' = assigned \ {c}
  /\ UNCHANGED <<admitted, running, queue>>

\* The deadline is noticed while the caller has no permit. It is still in the
\* queue until the acquisition is dropped, and may be given a permit by then.
Expire(c) ==
  /\ pc[c] = "waiting"
  /\ c \notin assigned
  /\ pc' = [pc EXCEPT ![c] = "expired"]
  /\ UNCHANGED <<admitted, running, queue, assigned>>

\* Mutant of HandBack: no waiter is woken.
HandBack_WakesNobody(waiters, owners) ==
  /\ running' = running + 1
  /\ queue' = waiters
  /\ assigned' = owners

\* A permit of `running` comes back: to the first waiter, if there is one.
HandBack(waiters, owners) ==
  IF waiters = <<>>
  THEN /\ running' = running + 1
       /\ queue' = waiters
       /\ assigned' = owners
  ELSE /\ queue' = Tail(waiters)
       /\ assigned' = owners \cup {Head(waiters)}
       /\ UNCHANGED running

Without(waiters, c) ==
  LET at == CHOOSE i \in DOMAIN waiters : waiters[i] = c
  IN  SubSeq(waiters, 1, at - 1) \o SubSeq(waiters, at + 1, Len(waiters))

\* Mutant of Withdraw: a permit already given to the caller is lost.
Withdraw_LosesPermit(c) ==
  /\ pc[c] \in {"waiting", "expired"}
  /\ pc' = [pc EXCEPT ![c] = "leaving"]
  /\ IF c \in assigned
     THEN assigned' = assigned \ {c} /\ UNCHANGED <<running, queue>>
     ELSE queue' = Without(queue, c) /\ UNCHANGED <<running, assigned>>
  /\ UNCHANGED admitted

\* The acquisition is dropped: its deadline passed, or the caller was cancelled.
Withdraw(c) ==
  /\ pc[c] \in {"waiting", "expired"}
  /\ pc' = [pc EXCEPT ![c] = "leaving"]
  /\ IF c \in assigned
     THEN HandBack(queue, assigned \ {c})
     ELSE queue' = Without(queue, c) /\ UNCHANGED <<running, assigned>>
  /\ UNCHANGED admitted

\* The ToolPermit is dropped, field by field, at the end of the work or when the
\* call is cancelled: first the permit of `running` ...
ReleaseRunning(c) ==
  /\ pc[c] = "running"
  /\ pc' = [pc EXCEPT ![c] = "leaving"]
  /\ HandBack(queue, assigned)
  /\ UNCHANGED admitted

\* ... then that of `admitted`; a failed acquisition drops it as well.
ReleaseAdmitted(c) ==
  /\ pc[c] = "leaving"
  /\ pc' = [pc EXCEPT ![c] = "outside"]
  /\ admitted' = admitted + 1
  /\ UNCHANGED <<running, queue, assigned>>

Next ==
  \E c \in Callers :
    \/ Admit(c) \/ Enter(c) \/ Resume(c) \/ Expire(c) \/ Withdraw(c)
    \/ ReleaseRunning(c) \/ ReleaseAdmitted(c)

Spec == Init /\ [][Next]_vars

\* Calls that run end (each tool has a deadline of its own), woken tasks are
\* polled and destructors run. No fairness for Expire and for Withdraw of a
\* caller that still waits: deadlines and cancellations need not happen.
FairSpec ==
  /\ Spec
  /\ \A c \in Callers :
       WF_vars(Enter(c) \/ Resume(c) \/ ReleaseRunning(c) \/ ReleaseAdmitted(c)
                 \/ (pc[c] = "expired" /\ Withdraw(c)))

-----------------------------------------------------------------------------
(* Properties *)

TypeOK ==
  /\ pc \in [Callers -> {"outside", "admitted", "waiting", "expired", "running",
                         "leaving"}]
  /\ admitted \in 0 .. Capacity
  /\ running \in 0 .. Concurrency
  /\ queue \in Seq(Callers)
  /\ assigned \subseteq Callers

\* No permit is lost or duplicated, whatever is cancelled when ("automatic
\* release on cancellation", limits.rs): every permit of `running` is available,
\* in use or on its way to a waiter, every permit of `admitted` is available or
\* accounts for one call inside.
PermitsConserved ==
  /\ running + Cardinality(At({"running"})) + Cardinality(assigned) = Concurrency
  /\ admitted + Cardinality(Callers \ At({"outside"})) = Capacity

\* No caller waits while a slot is free, and of the callers inside at most three
\* times the concurrency wait ("Bound running work and callers waiting for it").
NobodyWaitsForFreeSlot ==
  /\ running > 0 => queue = <<>>
  /\ Len(queue) <= 3 * Concurrency

\* A waiting caller gets its turn or leaves, and every call ends, even if no
\* deadline ever helps: permits cannot leak and the queue cannot stall.
EveryCallEnds ==
  \A c \in Callers : pc[c] # "outside" ~> pc[c] = "outside"
=============================================================================
