------------------------- MODULE BrowserWorker_proofs -------------------------
(* Theorems about BrowserWorker, for any actions, any helpers and any ids.     *)
EXTENDS BrowserWorker, FiniteSetTheorems, TLAPS

-----------------------------------------------------------------------------
(* The inductive invariant behind the safety properties *)

\* Who is past the queue holds the mutex; a helper is owned from its start, or from
\* the moment it is taken out of the slot, to the end of the task.
LockHeld ==
  \A t \in Tasks :
    /\ lock = t <=> pc[t] \in {"holding", "spawning", "inflight"}
    /\ own[t] # None <=> pc[t] \in {"spawning", "inflight"}
    /\ pc[t] = "inflight" => t \in Requests

\* A live helper is in the slot, which holds none before its handshake, or owned.
\* While one is asked, the slot is empty.
HelpersHeld ==
  /\ \A w \in Alive : w = slot \/ \E t \in Tasks : own[t] = w
  /\ slot # None => up[slot] \in {"serving", "gone"}
  /\ \A t \in Tasks : own[t] # None => up[own[t]] # "unused" /\ own[t] # slot
  /\ \A t \in Tasks : pc[t] = "inflight" => slot = None

Silent(w)  == stdin[w] = <<>> /\ stdout[w] = <<>>
Request(t) == [id |-> asked[t], from |-> t]

\* A helper that has not begun to serve, and one in the slot, has nothing in its
\* pipes; one that was asked has at most that request, or its answer, in one of them.
PipesOK ==
  /\ \A w \in Workers : up[w] \in {"unused", "booting"} => Silent(w)
  /\ slot # None => Silent(slot)
  /\ \A t \in Tasks :
       /\ pc[t] = "spawning" => Silent(own[t])
       /\ pc[t] = "inflight" =>
            \/ Silent(own[t])
            \/ stdin[own[t]] = <<Request(t)>> /\ stdout[own[t]] = <<>>
            \/ stdin[own[t]] = <<>> /\ stdout[own[t]] = <<Request(t)>>

HelperInv ==
  TypeOK /\ LockHeld /\ HelpersHeld /\ PipesOK /\ AnswersAreOwn

LEMMA OneMessage ==
  ASSUME NEW T, NEW m \in T
  PROVE  /\ Append(<<>>, m) = <<m>> /\ <<m>> \in Seq(T) /\ <<m>> # <<>>
         /\ Head(<<m>>) = m /\ Tail(<<m>>) = <<>>
OBVIOUS

LEMMA NextIdType == ASSUME NEW id \in 1..MaxId PROVE NextId(id) \in 1..MaxId
BY BrowserAssumption DEF NextId

\* What a dropped or killed helper leaves behind.
LEMMA Killed ==
  ASSUME TypeOK, NEW ws, Kill(ws)
  PROVE  /\ \A w \in Workers :
              /\ w \in ws => up'[w] = "gone" /\ Silent(w)'
              /\ w \notin ws => /\ up'[w] = up[w]
                                /\ stdin'[w] = stdin[w] /\ stdout'[w] = stdout[w]
         /\ up' \in [Workers -> {"unused", "booting", "serving", "gone"}]
         /\ nextId' = nextId /\ nextId' \in [Workers -> 1..MaxId]
         /\ stdin' \in [Workers -> Seq(Messages)]
         /\ stdout' \in [Workers -> Seq(Messages)]
BY DEF TypeOK, Kill, Silent

\* A task ends and its helper, if it has one, is dropped.
LEMMA EndingSafe ==
  ASSUME HelperInv, NEW t \in Tasks, NEW how \in Failures, how.answer # "sequence",
         End(t, how), Kill({own[t]}), slot' = slot,
         phase' \in {"serving", "draining", "cleaning", "cleaned", "stopped"}
  PROVE  HelperInv'
<1>1. TypeOK /\ LockHeld /\ HelpersHeld /\ PipesOK /\ AnswersAreOwn
  BY DEF HelperInv
<1>2. /\ \A w \in Workers :
           /\ w = own[t] => up'[w] = "gone" /\ Silent(w)'
           /\ w # own[t] => /\ up'[w] = up[w]
                            /\ stdin'[w] = stdin[w] /\ stdout'[w] = stdout[w]
      /\ up' \in [Workers -> {"unused", "booting", "serving", "gone"}]
      /\ nextId' \in [Workers -> 1..MaxId]
      /\ stdin' \in [Workers -> Seq(Messages)]
      /\ stdout' \in [Workers -> Seq(Messages)]
  BY <1>1, Killed
<1>3. /\ \A u \in Tasks \ {t} :
           /\ pc'[u] = pc[u] /\ own'[u] = own[u] /\ asked'[u] = asked[u]
           /\ outcome'[u] = outcome[u]
      /\ pc'[t] = "done" /\ own'[t] = None /\ outcome'[t] = how
      /\ lock' = IF lock = t THEN None ELSE lock
  BY <1>1 DEF End, TypeOK
<1>4. TypeOK'
  BY <1>1, <1>2, BrowserAssumption DEF TypeOK, End
<1>5. LockHeld'
  BY <1>1, <1>3, BrowserAssumption DEF LockHeld
<1>6. \A u \in Tasks \ {t} : own[u] # None => own[t] = None
  BY <1>1 DEF LockHeld, TypeOK
<1>7. HelpersHeld'
  <2>1. slot # None => slot \in Workers /\ own[t] # slot
    BY <1>1, BrowserAssumption DEF TypeOK, HelpersHeld
  <2>2. \A w \in Alive' : w \in Alive /\ w # own[t]
    BY <1>2 DEF Alive
  <2>3. \A u \in Tasks : pc'[u] = "inflight" => slot = None
    BY <1>1, <1>3 DEF HelpersHeld
  <2>4. \A w \in Alive' : w = slot \/ \E u \in Tasks : own'[u] = w
    BY <1>1, <1>3, <2>2 DEF HelpersHeld
  <2>5. slot # None => up'[slot] \in {"serving", "gone"}
    BY <1>1, <1>2, <2>1 DEF HelpersHeld
  <2>6. ASSUME NEW u \in Tasks, own'[u] # None
        PROVE  up'[own'[u]] # "unused" /\ own'[u] # slot
    <3>1. u # t /\ own'[u] = own[u] /\ own[u] \in Workers
      BY <1>1, <1>3, <2>6 DEF TypeOK
    <3> QED
      BY <1>1, <1>2, <2>6, <3>1 DEF HelpersHeld
  <2> QED
    BY <2>3, <2>4, <2>5, <2>6 DEF HelpersHeld
<1>8. PipesOK'
  <2>1. \A w \in Workers : Silent(w) => Silent(w)'
    BY <1>2 DEF Silent
  <2>2. \A w \in Workers : up'[w] \in {"unused", "booting"} => Silent(w)'
    BY <1>1, <1>2, <2>1 DEF PipesOK
  <2>3. slot # None => Silent(slot)'
    BY <1>1, <2>1 DEF PipesOK, TypeOK
  <2>4. ASSUME NEW u \in Tasks, pc'[u] \in {"spawning", "inflight"}
        PROVE  /\ u # t /\ own[u] \in Workers /\ own'[u] = own[u] /\ pc'[u] = pc[u]
               /\ stdin'[own[u]] = stdin[own[u]] /\ stdout'[own[u]] = stdout[own[u]]
    BY <1>1, <1>2, <1>3, <1>6, <2>4 DEF TypeOK, LockHeld
  <2>5. \A u \in Tasks \ {t} : Request(u)' = Request(u)
    BY <1>3 DEF Request
  <2>6. ASSUME NEW u \in Tasks
        PROVE  /\ pc'[u] = "spawning" => Silent(own[u])'
               /\ pc'[u] = "inflight" =>
                    \/ Silent(own[u])'
                    \/ stdin'[own'[u]] = <<Request(u)'>> /\ stdout'[own'[u]] = <<>>
                    \/ stdin'[own'[u]] = <<>> /\ stdout'[own'[u]] = <<Request(u)'>>
    <3>1. CASE pc'[u] \notin {"spawning", "inflight"}
      BY <3>1
    <3>2. CASE pc'[u] \in {"spawning", "inflight"}
      <4>1. /\ u # t /\ own'[u] = own[u] /\ pc'[u] = pc[u]
            /\ stdin'[own'[u]] = stdin[own[u]] /\ stdout'[own'[u]] = stdout[own[u]]
        BY <2>4, <3>2
      <4>2. Request(u)' = Request(u)
        BY <2>5, <4>1
      <4> QED
        BY <1>1, <4>1, <4>2 DEF PipesOK, Silent
    <3> QED
      BY <3>1, <3>2
  <2> QED
    BY <1>1, <2>2, <2>3, <2>6 DEF PipesOK
<1>9. AnswersAreOwn'
  BY <1>1, <1>3 DEF AnswersAreOwn, Failures, Tasks
<1> QED
  BY <1>4, <1>5, <1>7, <1>8, <1>9 DEF HelperInv

\* Whoever holds the mutex is the only task that owns a helper.
LEMMA OnlyHolderOwns ==
  ASSUME HelperInv, NEW t \in Tasks, lock = t
  PROVE  \A u \in Tasks \ {t} :
           own[u] = None /\ pc[u] \notin {"holding", "spawning", "inflight"}
BY DEF HelperInv, LockHeld

\* A task takes an idle helper out of the slot or its own hands, and writes its
\* request; what else is in the slot is dropped.
LEMMA AskSafe ==
  ASSUME HelperInv, NEW t \in Requests, NEW w \in Workers, Ask(t, w),
         pc[t] \in {"holding", "spawning"}, Silent(w),
         up[w] \notin {"unused", "booting"}, Alive \subseteq {w, slot}
  PROVE  HelperInv'
<1>1. /\ TypeOK /\ LockHeld /\ HelpersHeld /\ PipesOK /\ AnswersAreOwn
      /\ t \in Tasks
  BY DEF HelperInv, Tasks
<1>2. /\ pc'[t] = "inflight" /\ own'[t] = w /\ asked'[t] = nextId[w]
      /\ slot' = None /\ lock' = lock /\ outcome' = outcome
      /\ phase' = phase /\ lock = t
      /\ \A u \in Tasks \ {t} :
           pc'[u] = pc[u] /\ own'[u] = own[u] /\ asked'[u] = asked[u]
  BY <1>1 DEF Ask, TypeOK, LockHeld
<1>3. \A u \in Tasks \ {t} :
        own[u] = None /\ pc[u] \notin {"holding", "spawning", "inflight"}
  BY <1>1, <1>2, OnlyHolderOwns
<1>4. nextId[w] \in 1..MaxId /\ nextId[w] \in 0..MaxId
  BY <1>1, BrowserAssumption DEF TypeOK
<1>5. Request(t)' = [id |-> nextId[w], from |-> t] /\ Request(t)' \in Messages
  BY <1>1, <1>2, <1>4 DEF Request, Messages
<1>6. /\ \A v \in Workers \ {w} :
           \/ v = slot /\ up'[v] = "gone" /\ Silent(v)'
           \/ /\ v # slot /\ up'[v] = up[v]
              /\ stdin'[v] = stdin[v] /\ stdout'[v] = stdout[v]
      /\ up'[w] = up[w] /\ stdin'[w] = <<Request(t)'>> /\ stdout'[w] = <<>>
  <2>1. /\ \A v \in Workers : up'[v] = IF v = slot /\ v # w THEN "gone" ELSE up[v]
        /\ \A v \in Workers : stdout'[v] = IF v = slot /\ v # w THEN <<>> ELSE stdout[v]
    BY DEF Ask
  <2>2. \A v \in Workers \ {w} : stdin'[v] = IF v = slot THEN <<>> ELSE stdin[v]
    BY DEF Ask
  <2>3. stdin'[w] = Append(stdin[w], Request(t)')
    BY <1>5 DEF Ask
  <2> QED
    BY <1>5, <2>1, <2>2, <2>3, OneMessage DEF Silent
<1>7. /\ up' \in [Workers -> {"unused", "booting", "serving", "gone"}]
      /\ stdin' \in [Workers -> Seq(Messages)]
      /\ stdout' \in [Workers -> Seq(Messages)]
  <2>1. /\ DOMAIN up' = Workers /\ DOMAIN stdin' = Workers /\ DOMAIN stdout' = Workers
        /\ up' = [v \in Workers |-> up'[v]] /\ stdin' = [v \in Workers |-> stdin'[v]]
        /\ stdout' = [v \in Workers |-> stdout'[v]]
    BY DEF Ask
  <2>2. <<Request(t)'>> \in Seq(Messages) /\ <<>> \in Seq(Messages)
    BY <1>5, OneMessage
  <2>3. \A v \in Workers : /\ up'[v] \in {"unused", "booting", "serving", "gone"}
                           /\ stdin'[v] \in Seq(Messages) /\ stdout'[v] \in Seq(Messages)
    BY <1>1, <1>6, <2>2 DEF TypeOK, Silent
  <2> QED
    BY <2>1, <2>3
<1>8. TypeOK'
  <2>1. nextId' \in [Workers -> 1..MaxId]
    BY <1>1, <1>4, NextIdType DEF Ask, TypeOK
  <2>2. /\ pc' \in [Tasks -> {"new", "waiting", "holding", "spawning", "inflight",
                              "done"}]
        /\ own' \in [Tasks -> Workers \cup {None}]
        /\ asked' \in [Tasks -> 0..MaxId]
    BY <1>1, <1>4 DEF Ask, TypeOK
  <2> QED
    BY <1>1, <1>2, <1>7, <2>1, <2>2 DEF TypeOK
<1>9. LockHeld'
  BY <1>1, <1>2, BrowserAssumption DEF LockHeld
<1>10. HelpersHeld'
  <2>1. Alive' \subseteq {w} /\ w # None
    BY <1>6, BrowserAssumption DEF Alive
  <2>2. up'[w] # "unused"
    BY <1>6
  <2>3. \A v \in Alive' : \E u \in Tasks : own'[u] = v
    BY <1>1, <1>2, <2>1
  <2>4. ASSUME NEW u \in Tasks, own'[u] # None
        PROVE  up'[own'[u]] # "unused" /\ own'[u] # slot'
    BY <1>2, <1>3, <2>1, <2>2, <2>4
  <2>5. slot' = None
    BY <1>2
  <2> QED
    BY <2>3, <2>4, <2>5 DEF HelpersHeld
<1>11. PipesOK'
  <2>1. \A v \in Workers : up'[v] \in {"unused", "booting"} => Silent(v)'
    BY <1>1, <1>6 DEF PipesOK, Silent
  <2> QED
    BY <1>2, <1>3, <1>6, <2>1 DEF PipesOK
<1>12. AnswersAreOwn'
  BY <1>1, <1>2 DEF AnswersAreOwn
<1> QED
  BY <1>8, <1>9, <1>10, <1>11, <1>12 DEF HelperInv

\* A task starts, takes the mutex, or starts a helper.
LEMMA BeginningSafe ==
  ASSUME HelperInv, NEW t \in Tasks, Start(t) \/ Acquire(t) \/ Spawn(t)
  PROVE  HelperInv'
<1>1. TypeOK /\ LockHeld /\ HelpersHeld /\ PipesOK /\ AnswersAreOwn
  BY DEF HelperInv
<1>2. CASE Start(t) \/ Acquire(t)
  <2>1. /\ UNCHANGED <<phase, slot, own, asked, outcome, workerVars>>
        /\ pc' \in [Tasks -> {"new", "waiting", "holding", "spawning", "inflight",
                              "done"}]
        /\ lock' \in Tasks \cup {None}
    BY <1>1, <1>2 DEF Start, Acquire, TypeOK
  <2>2. TypeOK'
    BY <1>1, <2>1 DEF TypeOK, workerVars
  <2>3. LockHeld'
    BY <1>1, <1>2, <2>1, BrowserAssumption DEF Start, Acquire, LockHeld, TypeOK
  <2>4. \A u \in Tasks : /\ pc'[u] = "spawning" => pc[u] = "spawning"
                         /\ pc'[u] = "inflight" => pc[u] = "inflight"
    BY <1>1, <1>2 DEF Start, Acquire, TypeOK
  <2>5. HelpersHeld'
    BY <1>1, <2>1, <2>4 DEF HelpersHeld, Alive, workerVars
  <2>6. PipesOK'
    BY <1>1, <2>1, <2>4 DEF PipesOK, Silent, Request, workerVars
  <2>7. AnswersAreOwn'
    BY <1>1, <2>1 DEF AnswersAreOwn
  <2> QED
    BY <2>2, <2>3, <2>5, <2>6, <2>7 DEF HelperInv
<1>3. CASE Spawn(t)
  <2>1. PICK w \in Workers :
          /\ up[w] = "unused"
          /\ up' = [up EXCEPT ![w] = "booting"]
          /\ own' = [own EXCEPT ![t] = w]
    BY <1>3 DEF Spawn
  <2>2. /\ pc[t] = "holding" /\ lock = t
        /\ pc' = [pc EXCEPT ![t] = "spawning"]
        /\ UNCHANGED <<phase, lock, slot, asked, outcome, nextId, stdin, stdout>>
    BY <1>1, <1>3 DEF Spawn, LockHeld
  <2>3. TypeOK'
    BY <1>1, <2>1, <2>2 DEF TypeOK
  <2>4. \A u \in Tasks \ {t} :
          own[u] = None /\ pc[u] \notin {"holding", "spawning", "inflight"}
    BY <2>2, OnlyHolderOwns
  <2>5. /\ own'[t] = w /\ pc'[t] = "spawning" /\ up'[w] = "booting"
        /\ \A u \in Tasks \ {t} : own'[u] = own[u] /\ pc'[u] = pc[u]
        /\ \A v \in Workers \ {w} : up'[v] = up[v]
        /\ w # None
    BY <1>1, <2>1, <2>2, BrowserAssumption DEF TypeOK
  <2>6. LockHeld'
    BY <1>1, <2>2, <2>5 DEF LockHeld
  <2>7. HelpersHeld'
    <3>1. w # slot
      BY <1>1, <2>1, <2>5 DEF HelpersHeld
    <3>2. own[t] = None
      BY <1>1, <2>2 DEF LockHeld
    <3>3. \A v \in Alive' : v = w \/ v \in Alive
      BY <2>5 DEF Alive
    <3>4. Alive \subseteq {slot}
      BY <1>1, <2>4, <3>2, BrowserAssumption DEF HelpersHeld, Alive
    <3>5. Alive' \subseteq {w, slot}
      BY <3>3, <3>4
    <3>6. \A u \in Tasks : pc'[u] # "inflight"
      BY <2>4, <2>5
    <3>7. slot # None => up'[slot] \in {"serving", "gone"}
      BY <1>1, <2>5, <3>1 DEF HelpersHeld, TypeOK
    <3> QED
      BY <2>2, <2>4, <2>5, <3>1, <3>5, <3>6, <3>7 DEF HelpersHeld
  <2>8. PipesOK'
    <3>1. \A v \in Workers : Silent(v)' = Silent(v)
      BY <2>2 DEF Silent
    <3>2. \A v \in Workers : up'[v] \in {"unused", "booting"} => Silent(v)'
      BY <1>1, <2>1, <2>5, <3>1 DEF PipesOK
    <3>3. slot' # None => Silent(slot)'
      BY <1>1, <2>2, <3>1 DEF PipesOK, TypeOK, Silent
    <3>4. Silent(own[t])'
      BY <2>5, <3>2 DEF Silent
    <3> QED
      BY <2>2, <2>4, <2>5, <3>2, <3>3, <3>4 DEF PipesOK, Silent
  <2>9. AnswersAreOwn'
    BY <1>1, <2>2 DEF AnswersAreOwn
  <2> QED
    BY <2>3, <2>6, <2>7, <2>8, <2>9 DEF HelperInv
<1> QED
  BY <1>2, <1>3

\* A task ends and leaves its helper, which is silent again, in the slot; what was
\* there before is dropped.
LEMMA PutBackSafe ==
  ASSUME HelperInv, NEW t \in Tasks, own[t] # None, NEW how, End(t, how),
         how \in Failures \cup Answers, how.answer # "sequence", how.to \in {None, t},
         slot' = own[t], UNCHANGED <<phase, nextId>>,
         up' \in [Workers -> {"unused", "booting", "serving", "gone"}],
         stdin' \in [Workers -> Seq(Messages)], stdout' \in [Workers -> Seq(Messages)],
         stdin'[own[t]] = <<>>, stdout'[own[t]] = <<>>, up'[own[t]] = up[own[t]],
         up[own[t]] \notin {"unused", "booting"},
         \A v \in Workers \ {own[t]} : /\ up'[v] = IF v = slot THEN "gone" ELSE up[v]
                                       /\ Silent(v) => Silent(v)'
  PROVE  HelperInv'
<1>1. TypeOK /\ LockHeld /\ HelpersHeld /\ PipesOK /\ AnswersAreOwn
  BY DEF HelperInv
<1>2. lock = t /\ own[t] \in Workers
  BY <1>1 DEF LockHeld, TypeOK
<1>3. \A u \in Tasks \ {t} :
        own[u] = None /\ pc[u] \notin {"holding", "spawning", "inflight"}
  BY <1>2, OnlyHolderOwns
<1>4. /\ pc'[t] = "done" /\ own'[t] = None /\ lock' = None /\ outcome'[t] = how
      /\ \A u \in Tasks \ {t} :
           pc'[u] = pc[u] /\ own'[u] = own[u] /\ outcome'[u] = outcome[u]
  BY <1>1, <1>2 DEF End, TypeOK
<1>5. Silent(slot)'
  BY DEF Silent
<1>6. TypeOK'
  BY <1>1, <1>2, BrowserAssumption DEF TypeOK, End
<1>7. LockHeld'
  BY <1>1, <1>3, <1>4, BrowserAssumption DEF LockHeld
<1>8. HelpersHeld'
  <2>1. \A w \in Alive' : w = own[t]
    <3> SUFFICES ASSUME NEW w \in Alive', w # own[t] PROVE FALSE
      OBVIOUS
    <3>1. w \in Alive /\ w # slot
      BY DEF Alive
    <3>2. PICK u \in Tasks : own[u] = w
      BY <1>1, <3>1 DEF HelpersHeld
    <3>3. u = t
      BY <1>3, <3>1, <3>2, BrowserAssumption DEF Alive
    <3> QED
      BY <3>2, <3>3
  <2>2. \A u \in Tasks : own'[u] = None /\ pc'[u] # "inflight"
    BY <1>3, <1>4
  <2>3. up'[slot'] \in {"serving", "gone"}
    BY <1>1, <1>2 DEF TypeOK
  <2> QED
    BY <2>1, <2>2, <2>3 DEF HelpersHeld
<1>9. PipesOK'
  <2>1. \A w \in Workers : up'[w] \in {"unused", "booting"} => Silent(w)'
    BY <1>1 DEF PipesOK
  <2>2. \A u \in Tasks : pc'[u] \notin {"spawning", "inflight"}
    BY <1>3, <1>4
  <2> QED
    BY <1>5, <2>1, <2>2 DEF PipesOK
<1>10. AnswersAreOwn'
  BY <1>1, <1>4 DEF AnswersAreOwn, Tasks
<1> QED
  BY <1>6, <1>7, <1>8, <1>9, <1>10 DEF HelperInv

\* What the helper does by itself: it only ever answers the request of its owner.
LEMMA HelperMovesSafe ==
  ASSUME HelperInv, NEW w \in Workers, Boot(w) \/ Serve(w) \/ Die(w)
  PROVE  HelperInv'
<1>1. TypeOK /\ LockHeld /\ HelpersHeld /\ PipesOK /\ AnswersAreOwn
  BY DEF HelperInv
<1>2. /\ UNCHANGED <<phase, pc, lock, slot, own, asked, outcome, nextId>>
      /\ \A u \in Tasks : Request(u)' = Request(u)
      /\ w \in Alive
  BY DEF Boot, Serve, Die, tasksVars, Request, Alive
<1>3. LockHeld' /\ AnswersAreOwn'
  BY <1>1, <1>2 DEF LockHeld, AnswersAreOwn
<1>4. \A v \in Workers \ {w} :
        up'[v] = up[v] /\ stdin'[v] = stdin[v] /\ stdout'[v] = stdout[v]
  BY <1>1 DEF Boot, Serve, Die, TypeOK
<1>5. CASE Boot(w)
  <2>1. /\ up[w] = "booting" /\ up' = [up EXCEPT ![w] = "serving"]
        /\ stdin' = stdin /\ stdout' = stdout
    BY <1>5 DEF Boot
  <2>2. TypeOK'
    BY <1>1, <1>2, <2>1 DEF TypeOK
  <2>3. Alive' = Alive /\ up'[w] = "serving"
    BY <1>1, <2>1 DEF Alive, TypeOK
  <2>4. HelpersHeld'
    BY <1>1, <1>2, <1>4, <2>1, <2>3 DEF HelpersHeld, TypeOK
  <2>5. PipesOK'
    BY <1>1, <1>2, <1>4, <2>1, <2>3 DEF PipesOK, Silent
  <2> QED
    BY <1>3, <2>2, <2>4, <2>5 DEF HelperInv
<1>6. CASE Serve(w)
  <2>1. /\ up[w] = "serving" /\ stdin[w] # <<>> /\ up' = up
        /\ stdin' = [stdin EXCEPT ![w] = Tail(@)]
        /\ stdout' = [stdout EXCEPT ![w] = Append(@, Head(stdin[w]))]
    BY <1>6 DEF Serve
  <2>2. PICK t \in Tasks : own[t] = w
    <3>1. w # slot
      BY <1>1, <2>1, BrowserAssumption DEF PipesOK, Silent
    <3> QED
      BY <1>1, <1>2, <3>1 DEF HelpersHeld
  <2>3. pc[t] = "inflight" /\ lock = t
    BY <1>1, <2>1, <2>2, BrowserAssumption DEF LockHeld, PipesOK, Silent
  <2>4. stdin[w] = <<Request(t)>> /\ stdout[w] = <<>>
    BY <1>1, <2>1, <2>2, <2>3 DEF PipesOK, Silent
  <2>5. stdin[w] \in Seq(Messages) /\ Request(t) \in Messages
    <3>1. stdin[w] \in Seq(Messages)
      BY <1>1 DEF TypeOK
    <3>2. Len(stdin[w]) = 1 /\ stdin[w][1] = Request(t)
      BY <2>4
    <3> QED
      BY <3>1, <3>2
  <2>6. stdin' = [stdin EXCEPT ![w] = <<>>]
        /\ stdout' = [stdout EXCEPT ![w] = <<Request(t)>>]
    BY <2>1, <2>4, <2>5, OneMessage
  <2>7. /\ stdin'[w] = <<>> /\ stdout'[w] = <<Request(t)>>
        /\ stdin' \in [Workers -> Seq(Messages)]
        /\ stdout' \in [Workers -> Seq(Messages)]
    BY <1>1, <2>5, <2>6, OneMessage DEF TypeOK
  <2>8. TypeOK'
    BY <1>1, <1>2, <2>1, <2>7 DEF TypeOK
  <2>9. HelpersHeld'
    BY <1>1, <1>2, <2>1 DEF HelpersHeld, Alive
  <2>10. \A u \in Tasks \ {t} :
           own[u] = None /\ pc[u] \notin {"holding", "spawning", "inflight"}
    BY <2>3, OnlyHolderOwns
  <2>11. PipesOK'
    <3>1. \A v \in Workers : v # w => Silent(v)' = Silent(v)
      BY <1>4 DEF Silent
    <3>2. \A v \in Workers : up'[v] \in {"unused", "booting"} => Silent(v)'
      BY <1>1, <2>1, <3>1 DEF PipesOK
    <3>3. slot # None => slot \in Workers \ {w}
      BY <1>1, <2>2, BrowserAssumption DEF HelpersHeld, TypeOK
    <3>4. slot' # None => Silent(slot)'
      BY <1>1, <1>2, <1>4, <3>3 DEF PipesOK, Silent
    <3> QED
      BY <1>2, <2>2, <2>3, <2>7, <2>10, <3>2, <3>4 DEF PipesOK
  <2> QED
    BY <1>3, <2>8, <2>9, <2>11 DEF HelperInv
<1>7. CASE Die(w)
  <2>1. /\ up' = [up EXCEPT ![w] = "gone"] /\ stdin' = [stdin EXCEPT ![w] = <<>>]
        /\ stdout' = stdout
    BY <1>7 DEF Die
  <2>2. TypeOK'
    BY <1>1, <1>2, <2>1 DEF TypeOK
  <2>3. up'[w] = "gone" /\ stdin'[w] = <<>> /\ Alive' \subseteq Alive
    BY <1>1, <1>4, <2>1 DEF Alive, TypeOK
  <2>4. HelpersHeld'
    BY <1>1, <1>2, <1>4, <2>3 DEF HelpersHeld, TypeOK
  <2>5. PipesOK'
    <3>1. \A v \in Workers : Silent(v) => Silent(v)'
      BY <1>4, <2>1, <2>3 DEF Silent
    <3>2. \A v \in Workers : up'[v] \in {"unused", "booting"} => Silent(v)'
      BY <1>1, <1>4, <2>3, <3>1 DEF PipesOK
    <3>3. slot' # None => Silent(slot)'
      BY <1>1, <1>2, <1>4, <2>1, <2>3 DEF PipesOK, Silent, TypeOK
    <3>4. ASSUME NEW u \in Tasks, pc'[u] \in {"spawning", "inflight"}
          PROVE  /\ own'[u] = own[u] /\ stdin'[own[u]] \in {stdin[own[u]], <<>>}
                 /\ stdout'[own[u]] = stdout[own[u]]
                 /\ Request(u)' = Request(u) /\ pc'[u] = pc[u]
      BY <1>1, <1>2, <1>4, <2>1, <2>3, <3>4 DEF LockHeld, TypeOK
    <3>5. ASSUME NEW u \in Tasks
          PROVE  /\ pc'[u] = "spawning" => Silent(own[u])'
                 /\ pc'[u] = "inflight" =>
                      \/ Silent(own[u])'
                      \/ stdin'[own'[u]] = <<Request(u)'>> /\ stdout'[own'[u]] = <<>>
                      \/ stdin'[own'[u]] = <<>> /\ stdout'[own'[u]] = <<Request(u)'>>
      <4>1. CASE pc'[u] \notin {"spawning", "inflight"}
        BY <4>1
      <4>2. CASE pc'[u] \in {"spawning", "inflight"}
        BY ZenonT(30), <1>1, <3>4, <4>2 DEF PipesOK, Silent
      <4> QED
        BY <4>1, <4>2
    <3> QED
      BY <3>2, <3>3, <3>5 DEF PipesOK
  <2> QED
    BY <1>3, <2>2, <2>4, <2>5 DEF HelperInv
<1> QED
  BY <1>5, <1>6, <1>7

\* The helper in the slot, and everything else at the end, is killed in main().
LEMMA ShutdownSafe ==
  ASSUME HelperInv, Signal \/ EndDrain \/ ServerFails \/ TerminateWorker \/ Exit
  PROVE  HelperInv'
<1>1. TypeOK /\ LockHeld /\ HelpersHeld /\ PipesOK /\ AnswersAreOwn
  BY DEF HelperInv
<1>2. ASSUME \/ Signal
             \/ /\ UNCHANGED <<tasksVars, workerVars>>
                /\ phase' \in {"serving", "draining", "cleaning", "cleaned", "stopped"}
      PROVE  HelperInv'
  <2>1. /\ UNCHANGED <<pc, lock, slot, own, asked, outcome, up, nextId, stdin, stdout>>
        /\ phase' \in {"serving", "draining", "cleaning", "cleaned", "stopped"}
    BY <1>2 DEF Signal, tasksVars, workerVars
  <2>2. TypeOK'
    BY <1>1, <2>1 DEF TypeOK
  <2>3. LockHeld' /\ HelpersHeld' /\ AnswersAreOwn'
    BY <1>1, <2>1 DEF LockHeld, HelpersHeld, AnswersAreOwn, Alive
  <2>4. PipesOK'
    BY <1>1, <2>1 DEF PipesOK, Silent, Request
  <2> QED
    BY <2>2, <2>3, <2>4 DEF HelperInv
<1>3. CASE EndDrain \/ ServerFails
  <2>1. CASE pc[Prewarm] # "done"
    <3>1. Failed("cancelled") \in Failures /\ Failed("cancelled").answer # "sequence"
      BY DEF Failed, Failures
    <3>2. Prewarm \in Tasks
      BY DEF Tasks
    <3> QED
      BY <1>3, <2>1, <3>1, <3>2, EndingSafe DEF EndDrain, ServerFails, StopServing
  <2>2. CASE pc[Prewarm] = "done"
    <3>1. UNCHANGED <<tasksVars, workerVars>> /\ phase' = "cleaning"
      BY <1>3, <2>2 DEF EndDrain, ServerFails, StopServing, tasksVars
    <3> QED
      BY <1>2, <3>1
  <2> QED
    BY <2>1, <2>2
<1>4. CASE TerminateWorker
  <2>1. /\ lock = None /\ slot' = None /\ Kill({slot}) /\ phase' = "cleaned"
        /\ UNCHANGED <<pc, lock, own, asked, outcome>>
    BY <1>4 DEF TerminateWorker
  <2>2. /\ \A w \in Workers :
             /\ w = slot => up'[w] = "gone" /\ Silent(w)'
             /\ w # slot => /\ up'[w] = up[w]
                            /\ stdin'[w] = stdin[w] /\ stdout'[w] = stdout[w]
        /\ up' \in [Workers -> {"unused", "booting", "serving", "gone"}]
        /\ nextId' \in [Workers -> 1..MaxId]
        /\ stdin' \in [Workers -> Seq(Messages)]
        /\ stdout' \in [Workers -> Seq(Messages)]
    BY <1>1, <2>1, Killed
  <2>3. \A t \in Tasks : own[t] = None /\ pc[t] \notin {"spawning", "inflight"}
    BY <1>1, <2>1, BrowserAssumption DEF LockHeld
  <2>4. TypeOK'
    BY <1>1, <2>1, <2>2 DEF TypeOK
  <2>5. LockHeld' /\ AnswersAreOwn'
    BY <1>1, <2>1 DEF LockHeld, AnswersAreOwn
  <2>6. HelpersHeld'
    <3>1. ASSUME NEW w \in Alive'
          PROVE  FALSE
      <4>1. w \in Alive /\ w # slot
        BY <2>2 DEF Alive
      <4> QED
        BY <1>1, <2>3, <4>1, BrowserAssumption DEF HelpersHeld, Alive
    <3> QED
      BY <2>1, <2>3, <3>1 DEF HelpersHeld
  <2>7. PipesOK'
    BY <1>1, <2>1, <2>2, <2>3 DEF PipesOK, Silent
  <2> QED
    BY <2>4, <2>5, <2>6, <2>7 DEF HelperInv
<1>5. CASE Exit
  <2> DEFINE ws == {slot} \cup {own[t] : t \in Tasks}
  <2>1. /\ phase' = "stopped" /\ Kill(ws) /\ lock' = None /\ slot' = None
        /\ pc' = [t \in Tasks |-> "done"] /\ own' = [t \in Tasks |-> None]
        /\ UNCHANGED <<asked, outcome>>
    BY <1>5 DEF Exit
  <2>2. /\ \A w \in Workers :
             /\ w \in ws => up'[w] = "gone" /\ Silent(w)'
             /\ w \notin ws => /\ up'[w] = up[w]
                               /\ stdin'[w] = stdin[w] /\ stdout'[w] = stdout[w]
        /\ up' \in [Workers -> {"unused", "booting", "serving", "gone"}]
        /\ nextId' \in [Workers -> 1..MaxId]
        /\ stdin' \in [Workers -> Seq(Messages)]
        /\ stdout' \in [Workers -> Seq(Messages)]
    <3> HIDE DEF ws
    <3> QED
      BY <1>1, <2>1, Killed
  <2>3. TypeOK'
    BY <1>1, <2>1, <2>2 DEF TypeOK
  <2>4. LockHeld' /\ AnswersAreOwn'
    BY <1>1, <2>1, BrowserAssumption DEF LockHeld, AnswersAreOwn
  <2>5. HelpersHeld'
    <3>1. ASSUME NEW w \in Alive'
          PROVE  FALSE
      <4>1. w \in Alive /\ w \notin ws
        BY <2>2 DEF Alive
      <4> QED
        BY <1>1, <4>1 DEF HelpersHeld
    <3> QED
      BY <2>1, <3>1 DEF HelpersHeld
  <2>6. PipesOK'
    BY <1>1, <2>1, <2>2 DEF PipesOK, Silent
  <2> QED
    BY <2>3, <2>4, <2>5, <2>6 DEF HelperInv
<1> QED
  BY <1>2, <1>3, <1>4, <1>5

\* The steps of a task.
LEMMA TaskSafe ==
  ASSUME HelperInv, NEW t \in Tasks,
         \/ SpawnFails(t) \/ Handshake(t) \/ HandshakeFails(t)
         \/ Receive(t) \/ Unreadable(t) \/ Broken(t) \/ Cancel(t)
         \/ t \in Requests /\ Reuse(t)
         \/ t = Prewarm /\ AlreadyWarm
  PROVE  HelperInv'
<1>1. TypeOK /\ LockHeld /\ HelpersHeld /\ PipesOK /\ AnswersAreOwn
  BY DEF HelperInv
<1>2. /\ Failed("failed") \in Failures /\ Failed("failed").answer # "sequence"
      /\ Failed("failed").to = None
      /\ Failed("cancelled") \in Failures /\ Failed("cancelled").answer # "sequence"
  BY DEF Failed, Failures
<1>3. phase \in {"serving", "draining", "cleaning", "cleaned", "stopped"}
  BY <1>1 DEF TypeOK
<1>4. ASSUME own[t] = None, UNCHANGED workerVars
      PROVE  Kill({own[t]})
  <2>1. \A w \in Workers : w \notin {own[t]}
    BY <1>4, BrowserAssumption
  <2> QED
    BY <1>1, <1>4, <2>1 DEF Kill, workerVars, TypeOK
<1>5. CASE SpawnFails(t) \/ (t = Prewarm /\ AlreadyWarm)
  <2>1. /\ pc[t] = "holding" /\ End(t, Failed("failed"))
        /\ UNCHANGED <<phase, slot, workerVars>>
    BY <1>5 DEF SpawnFails, AlreadyWarm
  <2>2. own[t] = None
    BY <1>1, <2>1 DEF LockHeld
  <2> QED
    BY <1>2, <1>3, <1>4, <2>1, <2>2, EndingSafe
<1>6. CASE HandshakeFails(t) \/ Unreadable(t) \/ Broken(t) \/ Cancel(t)
  <2>1. /\ \E why \in {"failed", "cancelled"} : End(t, Failed(why))
        /\ Kill({own[t]}) /\ UNCHANGED <<phase, slot>>
    BY <1>6 DEF HandshakeFails, Unreadable, Broken, Cancel
  <2> QED
    BY <1>2, <1>3, <2>1, EndingSafe
<1>7. CASE t \in Requests /\ Reuse(t)
  <2>1. pc[t] = "holding" /\ slot \in Alive /\ Ask(t, slot) /\ lock = t
    BY <1>1, <1>7 DEF Reuse, LockHeld
  <2>2. \A u \in Tasks : own[u] = None
    BY <1>1, <2>1, OnlyHolderOwns DEF LockHeld
  <2>3. Alive \subseteq {slot} /\ slot \in Workers
    BY <1>1, <2>1, <2>2, BrowserAssumption DEF HelpersHeld, Alive
  <2>4. Silent(slot) /\ up[slot] \notin {"unused", "booting"}
    BY <1>1, <2>1, <2>3, BrowserAssumption DEF PipesOK, HelpersHeld, Alive
  <2> QED
    BY <1>7, <2>1, <2>3, <2>4, AskSafe
<1>8. CASE Handshake(t)
  <2>1. pc[t] = "spawning" /\ up[own[t]] = "serving" /\ lock = t
    BY <1>1, <1>8 DEF Handshake, LockHeld
  <2>2. own[t] # None /\ own[t] \in Workers /\ Silent(own[t])
    BY <1>1, <2>1 DEF LockHeld, TypeOK, PipesOK
  <2>3. CASE t = Prewarm
    <3>1. slot' = own[t] /\ End(t, Failed("failed")) /\ Kill({slot}) /\ UNCHANGED phase
      BY <1>8, <2>3 DEF Handshake
    <3>2. /\ \A v \in Workers :
               /\ v = slot => up'[v] = "gone" /\ Silent(v)'
               /\ v # slot => /\ up'[v] = up[v]
                              /\ stdin'[v] = stdin[v] /\ stdout'[v] = stdout[v]
          /\ up' \in [Workers -> {"unused", "booting", "serving", "gone"}]
          /\ nextId' = nextId
          /\ stdin' \in [Workers -> Seq(Messages)]
          /\ stdout' \in [Workers -> Seq(Messages)]
      BY <1>1, <3>1, Killed
    <3>3. own[t] # slot
      BY <1>1, <2>2 DEF HelpersHeld
    <3>4. /\ stdin'[own[t]] = <<>> /\ stdout'[own[t]] = <<>> /\ up'[own[t]] = up[own[t]]
          /\ \A v \in Workers \ {own[t]} :
               /\ up'[v] = IF v = slot THEN "gone" ELSE up[v]
               /\ Silent(v) => Silent(v)'
      BY <2>2, <3>2, <3>3 DEF Silent
    <3> QED
      BY <1>2, <2>1, <2>2, <3>1, <3>2, <3>4, PutBackSafe
  <2>4. CASE t # Prewarm
    <3>1. t \in Requests /\ Ask(t, own[t])
      BY <1>8, <2>4 DEF Handshake, Tasks
    <3>2. \A u \in Tasks \ {t} : own[u] = None
      BY <2>1, OnlyHolderOwns
    <3>3. Alive \subseteq {own[t], slot}
      BY <1>1, <2>2, <3>2, BrowserAssumption DEF HelpersHeld, Alive
    <3> QED
      BY <2>1, <2>2, <3>1, <3>3, AskSafe
  <2> QED
    BY <2>3, <2>4
<1>9. CASE Receive(t)
  <2>1. pc[t] = "inflight" /\ stdout[own[t]] # <<>> /\ t \in Requests
    BY <1>1, <1>9 DEF Receive, LockHeld
  <2>2. own[t] # None /\ own[t] \in Workers
    BY <1>1, <2>1 DEF LockHeld, TypeOK
  <2>3. stdin[own[t]] = <<>> /\ stdout[own[t]] = <<Request(t)>>
    BY <1>1, <2>1 DEF PipesOK, Silent
  <2>4. Head(stdout[own[t]]) = Request(t) /\ Tail(stdout[own[t]]) = <<>>
    BY <2>3, OneMessage
  <2>5. Request(t).id = asked[t] /\ Request(t).from = t
    BY DEF Request
  <2>6. /\ slot' = own[t] /\ stdout' = [stdout EXCEPT ![own[t]] = <<>>]
        /\ End(t, [answer |-> "answered", to |-> t])
        /\ UNCHANGED <<phase, up, nextId, stdin>>
    BY <1>9, <2>4, <2>5 DEF Receive
  <2>7. up[own[t]] \notin {"unused", "booting"}
    BY <1>1, <2>2, <2>3, OneMessage DEF PipesOK, Silent
  <2>8. [answer |-> "answered", to |-> t] \in Answers
    BY <2>1 DEF Answers
  <2>9. slot = None
    BY <1>1, <2>1 DEF HelpersHeld
  <2>10. /\ up' \in [Workers -> {"unused", "booting", "serving", "gone"}]
         /\ stdin' \in [Workers -> Seq(Messages)] /\ stdout' \in [Workers -> Seq(Messages)]
    BY <1>1, <2>2, <2>6 DEF TypeOK
  <2>11. /\ stdin'[own[t]] = <<>> /\ stdout'[own[t]] = <<>>
         /\ \A v \in Workers \ {own[t]} : /\ up'[v] = IF v = slot THEN "gone" ELSE up[v]
                                          /\ Silent(v) => Silent(v)'
    BY <1>1, <2>2, <2>3, <2>6, <2>9, BrowserAssumption DEF Silent, TypeOK
  <2> QED
    BY <2>2, <2>6, <2>7, <2>8, <2>10, <2>11, PutBackSafe
<1> QED
  BY <1>5, <1>6, <1>7, <1>8, <1>9

LEMMA InitSafe == Init => HelperInv
<1> SUFFICES ASSUME Init
             PROVE  HelperInv
  OBVIOUS
<1>1. TypeOK
  BY BrowserAssumption DEF Init, TypeOK, Failed, Pending
<1>2. LockHeld /\ HelpersHeld /\ PipesOK
  BY BrowserAssumption DEF Init, LockHeld, HelpersHeld, PipesOK, Silent, Alive
<1>3. AnswersAreOwn
  BY DEF Init, AnswersAreOwn, Failed, Tasks
<1> QED
  BY <1>1, <1>2, <1>3 DEF HelperInv

LEMMA NextSafe ==
  ASSUME HelperInv, [Next]_vars
  PROVE  HelperInv'
<1>1. CASE UNCHANGED vars
  <2>1. UNCHANGED <<phase, pc, lock, slot, own, asked, outcome, up, nextId, stdin,
                    stdout>>
    BY <1>1 DEF vars, tasksVars, workerVars
  <2>2. TypeOK' /\ LockHeld' /\ AnswersAreOwn'
    BY <2>1 DEF HelperInv, TypeOK, LockHeld, AnswersAreOwn
  <2>3. HelpersHeld'
    BY <2>1 DEF HelperInv, HelpersHeld, Alive
  <2>4. PipesOK'
    BY <2>1 DEF HelperInv, PipesOK, Silent, Request
  <2> QED
    BY <2>2, <2>3, <2>4 DEF HelperInv
<1>2. ASSUME NEW r \in Requests, Start(r) \/ Reuse(r)
      PROVE  HelperInv'
  <2>1. r \in Tasks
    BY DEF Tasks
  <2> QED
    BY <1>2, <2>1, BeginningSafe, TaskSafe
<1>3. CASE AlreadyWarm
  <2>1. Prewarm \in Tasks
    BY DEF Tasks
  <2> QED
    BY <1>3, <2>1, TaskSafe
<1>4. ASSUME NEW t \in Tasks,
             \/ Acquire(t) \/ Spawn(t) \/ SpawnFails(t)
             \/ Handshake(t) \/ HandshakeFails(t)
             \/ Receive(t) \/ Unreadable(t) \/ Broken(t) \/ Cancel(t)
      PROVE  HelperInv'
  BY <1>4, BeginningSafe, TaskSafe
<1>5. ASSUME NEW w \in Workers, Boot(w) \/ Serve(w) \/ Die(w)
      PROVE  HelperInv'
  BY <1>5, HelperMovesSafe
<1>6. CASE Signal \/ EndDrain \/ ServerFails \/ TerminateWorker \/ Exit
  BY <1>6, ShutdownSafe
<1>7. CASE Stopped
  BY <1>1, <1>7 DEF Stopped
<1> QED
  BY <1>1, <1>2, <1>3, <1>4, <1>5, <1>6, <1>7 DEF Next

-----------------------------------------------------------------------------
(* Theorems *)

\* Mutex, slot, owned helpers and pipes agree, whatever is cancelled or crashes.
THEOREM HelperInvariant == Spec => []HelperInv
BY InitSafe, NextSafe, PTL DEF Spec

\* Every variable keeps its type.
THEOREM TypeCorrect == Spec => []TypeOK
<1>1. HelperInv => TypeOK
  BY DEF HelperInv
<1> QED
  BY <1>1, HelperInvariant, PTL

\* The helper in the shared slot has nothing in its pipes, and nobody else has it.
THEOREM SlotStaysQuiescent == Spec => []SlotIsQuiescent
<1>1. ASSUME HelperInv
      PROVE  SlotIsQuiescent
  <2>1. slot # None => Silent(slot)
    BY <1>1 DEF HelperInv, PipesOK
  <2>2. slot # None => \A t \in Tasks : own[t] # slot
    BY <1>1 DEF HelperInv, HelpersHeld
  <2> QED
    BY <2>1, <2>2 DEF SlotIsQuiescent, Silent
<1> QED
  BY <1>1, HelperInvariant, PTL

\* Nobody is given, or ever meets, the answer to another action: the comparison of
\* ids in run_worker_request never fails.
THEOREM OnlyOwnAnswers == Spec => []AnswersAreOwn
<1>1. HelperInv => AnswersAreOwn
  BY DEF HelperInv
<1> QED
  BY <1>1, HelperInvariant, PTL

\* No helper runs out of reach, and two only while one takes the place of another.
THEOREM HelperIsReachable == Spec => []NoOrphan
<1>1. ASSUME HelperInv
      PROVE  NoOrphan
  <2>1. TypeOK /\ LockHeld /\ HelpersHeld
    BY <1>1 DEF HelperInv
  <2>2. \A t \in Tasks : own[t] # None => lock = t
    BY <2>1 DEF LockHeld
  <2>3. \A w \in Alive : w = slot \/ \E t \in Tasks : lock = t /\ own[t] = w
    BY <2>1, <2>2, BrowserAssumption DEF HelpersHeld, Alive
  <2>4. Alive \subseteq {slot} \cup {own[t] : t \in {u \in Tasks : lock = u}}
    BY <2>3
  <2>5. CASE \E t \in Tasks : pc[t] = "spawning"
    <3>1. PICK t \in Tasks : pc[t] = "spawning"
      BY <2>5
    <3>2. lock = t
      BY <2>1, <3>1 DEF LockHeld
    <3>3. Alive \subseteq {slot, own[t]}
      BY <2>3, <3>2
    <3>4. /\ IsFiniteSet({slot}) /\ Cardinality({slot}) = 1
          /\ {slot} \cup {own[t]} = {slot, own[t]}
      BY FS_Singleton
    <3>5. IsFiniteSet({slot, own[t]}) /\ Cardinality({slot, own[t]}) \in {1, 2}
      BY <3>4, FS_AddElement
    <3>6. Cardinality(Alive) <= Cardinality({slot, own[t]}) /\ Cardinality(Alive) \in Nat
      BY <3>3, <3>5, FS_Subset, FS_CardinalityType
    <3> QED
      BY <2>4, <2>5, <3>5, <3>6 DEF NoOrphan
  <2>6. CASE ~\E t \in Tasks : pc[t] = "spawning"
    <3>1. \A t \in Tasks : own[t] # None => slot = None
      BY <2>1, <2>6 DEF LockHeld, HelpersHeld
    <3>2. \A v, w \in Alive : v = w
      BY <2>1, <2>3, <3>1, BrowserAssumption DEF Alive
    <3>3. Cardinality(Alive) <= 1
      <4>1. CASE Alive = {}
        <5>1. Cardinality(Alive) = 0
          BY <4>1, FS_EmptySet
        <5> QED
          BY <5>1
      <4>2. CASE Alive # {}
        <5>1. PICK w : Alive = {w}
          BY <3>2, <4>2
        <5>2. Cardinality(Alive) = 1
          BY <5>1, FS_Singleton
        <5> QED
          BY <5>2
      <4> QED
        BY <4>1, <4>2
    <3> QED
      BY <2>4, <2>6, <3>3 DEF NoOrphan
  <2> QED
    BY <2>5, <2>6
<1> QED
  BY <1>1, HelperInvariant, PTL
=============================================================================
