------------------------- MODULE BackendCalls_proofs -------------------------
(* Theorems about BackendCalls, for any environments, requests, calls and ids. *)
EXTENDS BackendCalls, BoundedCollections_proofs

-----------------------------------------------------------------------------
(* The inductive invariant behind the safety properties *)

ProcessOK ==
  /\ env # None => Acceptable(Environments[env])
  /\ env = None => task = NoTask /\ \A c \in Calls : pc[c] = "idle"

CallersOK ==
  \A c \in Calls :
    IF pc[c] = "idle" THEN caller[c] = Nobody
    ELSE \E request \in Requests :
           caller[c] = Authenticated(config, request) /\ caller[c].who # None

\* The calls whose prompt has passed its check or whose session has been saved, ...
Cleared(c) ==
  \/ pc[c] \in {"sending", "prompting"}
  \/ pc[c] = "answered" /\ tool[c] = "bridge_prompt"

\* ... and with them those that have created a session.
Addressed(c) == pc[c] \in {"created", "waiting"} \/ Cleared(c)

TaskOK ==
  /\ task.for # None =>
       /\ pc[task.for] = "waiting"
       /\ session[task.for] = task.id /\ caller[task.for].who = task.who
  /\ task # NoTask => born[task.id] = task.who
  /\ task.stage = "saved" => task.id \in remembered

BornOK ==
  /\ \A c \in Calls : Addressed(c) =>
       session[c] \in SessionIds /\ born[session[c]] = caller[c].who
  /\ OnlyCreatorPrompts

RememberedOK ==
  /\ \A p \in Principals : Elements(sessions[p]) \cup Elements(disk[p]) \subseteq remembered
  /\ \A c \in Calls : Cleared(c) => session[c] \in remembered
  /\ \A s \in SessionIds : prompts[s] # {} => s \in remembered

\* The memory is what a restart would load, except while a transaction publishes.
InStep ==
  env # None =>
    /\ \A p \in Principals : Len(sessions[p]) <= config.maxSessions
    /\ config.durable =>
         IF task.stage = "saved" THEN disk = Remembered(task.who, task.id)
         ELSE \A p \in Principals :
                sessions[p] = DropOldest(disk[p], config.maxSessions)

\* The state file has the id, or has no room for more.
Kept(who, id) ==
  id \in Elements(disk[who]) \/ Len(disk[who]) >= config.maxSessions

KeptOK ==
  config.durable => \A c \in Calls : Cleared(c) => Kept(caller[c].who, session[c])

\* Every call that runs is of a tool; one that is answered has what the tool makes of
\* some reply.
AnswersOK ==
  \A c \in Calls :
    /\ pc[c] # "idle" => tool[c] \in Tools
    /\ pc[c] = "answered" =>
         \E reply \in Replies :
           /\ answer[c] = [reply |-> reply, made |-> Made(tool[c], reply)]
           /\ Made(tool[c], reply).from # "error"

CallsInv ==
  /\ TypeOK /\ ProcessOK /\ CallersOK /\ AnswersOK /\ TaskOK /\ BornOK /\ RememberedOK
  /\ InStep
  /\ env # None => KeptOK

-----------------------------------------------------------------------------
(* What the configuration and the authentication guarantee *)

Room == {n \in Nat \ {0} : n <= 10000}

\* A configuration that was accepted gives a history room, and not without end.
LEMMA AcceptedNumbers ==
  ASSUME NEW e \in EnvNames, Acceptable(Environments[e])
  PROVE  Configs[e].maxSessions \in Room /\ Configs[e].maxSessions \in Nat \ {0}
<1> DEFINE n == Number(Environments[e], "sessions")
           r == Ranges["sessions"]
<1>1. "sessions" \in DOMAIN Ranges /\ r = <<256, 1, 10000>>
  BY DEF Ranges
<1>2. InRange(n, r)
  BY <1>1 DEF Acceptable
<1> HIDE DEF r, n
<1>3. r[2] = 1 /\ r[3] = 10000
  BY <1>1
<1>4. n \in r[2]..r[3]
  BY <1>2 DEF InRange
<1>5. n \in Room
  BY <1>3, <1>4 DEF Room
<1>6. n \in Nat \ {0}
  BY <1>5 DEF Room
<1>7. Configs[e].maxSessions = n
  BY DEF Configs, Config, n
<1> QED
  BY <1>5, <1>6, <1>7

CallerSet == [who : Principals, how : {"token", "oauth", "anonymous"}] \cup {Nobody}

\* Whom a request is from has one of three reasons; without credentials, there are
\* none to present.
LEMMA AuthenticatedKinds ==
  ASSUME NEW cfg, NEW request, Authenticated(cfg, request).who # None
  PROVE  /\ Authenticated(cfg, request)
              = [who |-> Authenticated(cfg, request).who,
                 how |-> Authenticated(cfg, request).how]
         /\ Authenticated(cfg, request).how \in {"token", "oauth", "anonymous"}
         /\ Authenticated(cfg, request).how = "anonymous" =>
              cfg.tokens = <<>> /\ ~cfg.oauth /\ cfg.anonymous
<1> DEFINE A == Authenticated(cfg, request)
           first == cfg.tokens[CHOOSE i \in Presented(cfg, request) :
                      \A j \in Presented(cfg, request) : i <= j].id
<1>1. CASE Presented(cfg, request) # {}
  <2>1. A = [who |-> first, how |-> "token"]
    BY <1>1 DEF Authenticated
  <2> HIDE DEF A, first
  <2>2. A = [who |-> A.who, how |-> A.how] /\ A.how = "token"
    BY <2>1
  <2> QED
    BY <2>2 DEF A
<1>2. CASE Presented(cfg, request) = {} /\ cfg.oauth /\ request.oauth # None
  BY <1>2 DEF Authenticated
<1>3. CASE Presented(cfg, request) = {} /\ ~(cfg.oauth /\ request.oauth # None)
  <2>1. A = IF cfg.tokens = <<>> /\ ~cfg.oauth /\ cfg.anonymous
            THEN [who |-> "local", how |-> "anonymous"] ELSE Nobody
    BY <1>3 DEF Authenticated
  <2>2. Nobody.who = None
    BY DEF Nobody
  <2>3. cfg.tokens = <<>> /\ ~cfg.oauth /\ cfg.anonymous
    BY <2>1, <2>2
  <2>4. A = [who |-> "local", how |-> "anonymous"]
    BY <2>1, <2>3
  <2> QED
    BY <2>3, <2>4
<1> QED
  BY <1>1, <1>2, <1>3

LEMMA CallerType ==
  ASSUME NEW e \in EnvNames, Acceptable(Environments[e]), NEW request \in Requests,
         Authenticated(Configs[e], request).who # None
  PROVE  /\ Authenticated(Configs[e], request) \in CallerSet
         /\ Authenticated(Configs[e], request).who \in Principals
         /\ Authenticated(Configs[e], request).how = "anonymous" =>
              Configs[e].tokens = <<>> /\ ~Configs[e].oauth /\ Configs[e].loopbackHost
<1> DEFINE A == Authenticated(Configs[e], request)
<1>1. /\ A = [who |-> A.who, how |-> A.how]
      /\ A.how \in {"token", "oauth", "anonymous"}
      /\ A.how = "anonymous" =>
           Configs[e].tokens = <<>> /\ ~Configs[e].oauth /\ Configs[e].anonymous
  BY AuthenticatedKinds
<1>2. A.who \in Principals
  BY CallsAssumption
<1>3. Configs[e].anonymous => Configs[e].loopbackHost
  BY DEF Configs, Config, Acceptable
<1> HIDE DEF A
<1>4. A \in CallerSet
  BY <1>1, <1>2 DEF CallerSet
<1> QED
  BY <1>1, <1>2, <1>3, <1>4 DEF A

-----------------------------------------------------------------------------
(* Types *)

LEMMA ConfigKnown ==
  ASSUME TypeOK, ProcessOK, env # None
  PROVE  /\ env \in EnvNames /\ Acceptable(Environments[env])
         /\ config = Configs[env]
         /\ config.maxSessions \in Room /\ config.maxSessions \in Nat \ {0}
<1>1. env \in EnvNames /\ Acceptable(Environments[env])
  BY DEF TypeOK, ProcessOK
<1>2. config = Configs[env]
  BY DEF config
<1>3. Configs[env].maxSessions \in Room /\ Configs[env].maxSessions \in Nat \ {0}
  BY <1>1, AcceptedNumbers
<1> QED
  BY <1>1, <1>2, <1>3

LEMMA NoneApart ==
  /\ None \notin EnvNames /\ None \notin Calls
  /\ None \notin Principals /\ None \notin SessionIds
BY CallsAssumption

LEMMA RememberedType ==
  ASSUME TypeOK, ProcessOK, env # None, NEW who \in Principals, NEW id \in SessionIds
  PROVE  /\ Remembered(who, id) \in Histories
         /\ \A p \in Principals : Remembered(who, id)[p] =
              IF p = who THEN RememberBounded(sessions[who], id, config.maxSessions)
              ELSE sessions[p]
<1>1. sessions \in [Principals -> Seq(SessionIds)] /\ sessions[who] \in Seq(SessionIds)
  BY DEF TypeOK, Histories
<1>2. RememberBounded(sessions[who], id, config.maxSessions) \in Seq(SessionIds)
  BY <1>1, ConfigKnown, RememberBoundedFits
<1> QED
  BY <1>1, <1>2 DEF Remembered, Histories

\* The transaction, when there is one, has its fields, and a process to run in.
LEMMA TaskType ==
  ASSUME TypeOK, task.stage # "none"
  PROVE  /\ task \in TaskSet /\ task.who \in Principals /\ task.id \in SessionIds
         /\ task.for \in Calls \cup {None}
         /\ task.stage \in {"saving", "saved"}
<1>1. NoTask.stage = "none"
  BY DEF NoTask
<1>2. task \in TaskSet
  BY <1>1 DEF TypeOK
<1> QED
  BY <1>2 DEF TaskSet

\* What the tools may make of the replies.
Answers ==
  UNION {{[reply |-> reply, made |-> Made(name, reply)] : name \in Tools} :
           reply \in Replies}

CallTypes ==
  /\ pc \in [Calls -> {"idle", "queued", "admitted", "created", "waiting",
                       "sending", "prompting", "answered"}]
  /\ tool \in [Calls -> {"none"} \cup Tools]
  /\ caller \in [Calls -> CallerSet]
  /\ session \in [Calls -> SessionIds \cup {None}]
  /\ answer \in [Calls -> Answers \cup {None}]

RestTypes ==
  /\ env \in EnvNames \cup {None}
  /\ sessions \in Histories /\ disk \in Histories
  /\ task \in TaskSet \cup {NoTask}
  /\ born \in [SessionIds -> Principals \cup {None}]
  /\ prompts \in [SessionIds -> SUBSET Principals]
  /\ remembered \subseteq SessionIds

LEMMA TypeParts == TypeOK <=> CallTypes /\ RestTypes
BY DEF TypeOK, CallTypes, RestTypes, CallerSet, Answers

LEMMA TaskRuns ==
  ASSUME TypeOK, ProcessOK, task.stage # "none"
  PROVE  env # None
BY DEF ProcessOK, NoTask

\* Who a call is from, once it has begun.
LEMMA CallerKnown ==
  ASSUME TypeOK, ProcessOK, CallersOK, NEW c \in Calls, pc[c] # "idle"
  PROVE  /\ env # None /\ caller[c].who \in Principals
         /\ caller[c].how = "anonymous" =>
              config.tokens = <<>> /\ ~config.oauth /\ config.loopbackHost
<1>1. env # None
  BY DEF ProcessOK
<1>2. PICK request \in Requests :
        caller[c] = Authenticated(config, request) /\ caller[c].who # None
  BY DEF CallersOK
<1>3. env \in EnvNames /\ Acceptable(Environments[env]) /\ config = Configs[env]
  BY <1>1, ConfigKnown
<1> QED
  BY <1>1, <1>2, <1>3, CallerType

\* A call that ends leaves nothing behind in its own variables.
LEMMA EndType ==
  ASSUME CallTypes, NEW c \in Calls, End(c)
  PROVE  /\ CallTypes'
         /\ \A x \in Calls :
              /\ pc'[x] = IF x = c THEN "idle" ELSE pc[x]
              /\ tool'[x] = IF x = c THEN "none" ELSE tool[x]
              /\ caller'[x] = IF x = c THEN Nobody ELSE caller[x]
              /\ session'[x] = IF x = c THEN None ELSE session[x]
              /\ answer'[x] = IF x = c THEN None ELSE answer[x]
<1>1. Nobody \in CallerSet
  BY DEF CallerSet
<1> HIDE DEF CallerSet
<1>2. /\ pc' = [pc EXCEPT ![c] = "idle"] /\ tool' = [tool EXCEPT ![c] = "none"]
      /\ caller' = [caller EXCEPT ![c] = Nobody]
      /\ session' = [session EXCEPT ![c] = None]
      /\ answer' = [answer EXCEPT ![c] = None]
  BY DEF End
<1> QED
  BY <1>1, <1>2 DEF CallTypes

LEMMA InitType == Init => TypeOK
<1> SUFFICES ASSUME Init PROVE CallTypes /\ RestTypes
  BY TypeParts
<1>1. CallTypes
  BY DEF Init, CallTypes, CallerSet
<1>2. [p \in Principals |-> <<>>] \in Histories
  BY DEF Histories
<1>3. RestTypes
  BY <1>2 DEF Init, RestTypes
<1> QED
  BY <1>1, <1>3

LEMMA StepType == CallsInv /\ [Next]_vars => TypeOK'
<1> SUFFICES ASSUME CallsInv, [Next]_vars PROVE CallTypes' /\ RestTypes'
  <2>1. TypeOK' <=> CallTypes' /\ RestTypes'
    BY TypeParts, PTL
  <2> QED
    BY <2>1
<1>0. TypeOK /\ ProcessOK /\ CallersOK /\ AnswersOK /\ BornOK
  BY DEF CallsInv
<1>1. CallTypes /\ RestTypes
  BY <1>0, TypeParts
<1>2. NoTask \in TaskSet \cup {NoTask} /\ Nobody \in CallerSet
  BY DEF CallerSet
<1>3. ASSUME NEW e \in EnvNames, Start(e) PROVE CallTypes' /\ RestTypes'
  <2>1. \A p \in Principals :
          DropOldest(disk[p], Configs[e].maxSessions) \in Seq(SessionIds)
    BY <1>1, <1>3, AcceptedNumbers, DropOldestType DEF Start, RestTypes, Histories
  <2>2. sessions' \in Histories
    BY <1>3, <2>1 DEF Start, Histories
  <2>3. /\ env' = e /\ UNCHANGED <<disk, task, callVars, born, prompts, remembered>>
    BY <1>3 DEF Start
  <2> QED
    BY <1>1, <2>2, <2>3 DEF CallTypes, RestTypes, callVars
<1>4. CASE Stop
  <2>1. sessions' \in Histories
    BY <1>4 DEF Stop, Histories
  <2>2. CallTypes'
    BY <1>2, <1>4 DEF Stop, CallTypes
  <2> QED
    BY <1>1, <1>4, <2>1, <2>2 DEF Stop, RestTypes
<1>5. CASE Save
  <2>1. task.stage = "saving" /\ UNCHANGED <<env, sessions, callVars, born, prompts>>
        /\ disk' = Remembered(task.who, task.id)
        /\ remembered' = remembered \cup {task.id}
        /\ task' = [task EXCEPT !.stage = "saved"]
    BY <1>5 DEF Save
  <2>2. task \in TaskSet /\ task.who \in Principals /\ task.id \in SessionIds
    BY <1>0, <2>1, TaskType
  <2>3. task' \in TaskSet
    BY <2>1, <2>2 DEF TaskSet
  <2>4. disk' \in Histories
    BY <1>0, <2>1, <2>2, RememberedType, TaskRuns
  <2> QED
    BY <1>1, <2>1, <2>2, <2>3, <2>4 DEF CallTypes, RestTypes, callVars
<1>6. CASE SaveFails
  <2>1. /\ task.stage = "saving" /\ task' = NoTask
        /\ UNCHANGED <<env, sessions, disk, born, prompts, remembered>>
        /\ IF task.for = None THEN UNCHANGED callVars ELSE End(task.for)
    BY <1>6 DEF SaveFails
  <2>2. CallTypes'
    BY <1>0, <1>1, <2>1, TaskType, EndType DEF CallTypes, callVars
  <2> QED
    BY <1>1, <1>2, <2>1, <2>2 DEF RestTypes
<1>7. CASE Publish
  <2>1. /\ task.stage = "saved" /\ task' = NoTask
        /\ sessions' = Remembered(task.who, task.id)
        /\ pc' = [c \in Calls |-> IF c = task.for THEN "sending" ELSE pc[c]]
        /\ UNCHANGED <<env, disk, tool, caller, session, answer, born, prompts, remembered>>
    BY <1>7 DEF Publish
  <2>2. sessions' \in Histories
    BY <1>0, <2>1, TaskType, RememberedType, TaskRuns
  <2> QED
    BY <1>1, <1>2, <2>1, <2>2 DEF CallTypes, RestTypes
<1>8. ASSUME NEW c \in Calls, NEW request \in Requests, Arrive(c, request)
      PROVE  CallTypes' /\ RestTypes'
  <2>1. Authenticated(config, request) \in CallerSet
    BY <1>0, <1>8, ConfigKnown, CallerType DEF Arrive
  <2>2. /\ pc' = [pc EXCEPT ![c] = "queued"] /\ UNCHANGED answer
        /\ caller' = [caller EXCEPT ![c] = Authenticated(config, request)]
        /\ \E s \in SessionIds \cup {None} : \/ session' = [session EXCEPT ![c] = s]
                                            \/ session' = session
        /\ \E name \in Tools : tool' = [tool EXCEPT ![c] = name]
    BY <1>8 DEF Arrive, Go, Tools
  <2>3. CallTypes'
    BY <1>1, <2>1, <2>2 DEF CallTypes
  <2> QED
    BY <1>1, <1>8, <2>3 DEF Arrive, RestTypes
<1>9. ASSUME NEW c \in Calls, Admit(c) \/ CheckOwner(c) \/ Answered(c)
      PROVE  CallTypes' /\ RestTypes'
  <2>1. CASE Admit(c) \/ CheckOwner(c)
    BY <1>1, <2>1 DEF Admit, CheckOwner, Go, CallTypes, RestTypes
  <2>2. CASE Answered(c)
    <3>1. PICK reply \in Replies :
            answer' = [answer EXCEPT ![c] = [reply |-> reply, made |-> Made(tool[c], reply)]]
      BY <2>2 DEF Answered
    <3>2. tool[c] \in Tools
      BY <1>0, <2>2 DEF Answered, Go, AnswersOK
    <3>3. [reply |-> reply, made |-> Made(tool[c], reply)] \in Answers
      BY <3>2 DEF Answers
    <3> QED
      BY <1>1, <2>2, <3>1, <3>3 DEF Answered, Go, CallTypes, RestTypes
  <2> QED
    BY <1>9, <2>1, <2>2
<1>10. ASSUME NEW c \in Calls, Create(c) PROVE CallTypes' /\ RestTypes'
  <2>1. /\ pc[c] = "admitted" /\ pc' = [pc EXCEPT ![c] = "created"]
        /\ UNCHANGED <<env, sessions, disk, task, tool, caller, answer, prompts, remembered>>
    BY <1>10 DEF Create, Go
  <2>2. PICK s \in SessionIds : /\ born' = [born EXCEPT ![s] = caller[c].who]
                                /\ session' = [session EXCEPT ![c] = s]
    BY <1>10 DEF Create
  <2>3. caller[c].who \in Principals \cup {None}
    BY <1>1 DEF CallTypes, CallerSet, Nobody
  <2> QED
    BY <1>1, <2>1, <2>2, <2>3 DEF CallTypes, RestTypes
<1>11. ASSUME NEW c \in Calls, Remember(c) PROVE CallTypes' /\ RestTypes'
  <2>1. /\ pc[c] = "created" /\ task = NoTask
        /\ UNCHANGED <<env, disk, tool, caller, session, answer, born, prompts>>
    BY <1>11 DEF Remember
  <2>2. caller[c].who \in Principals /\ session[c] \in SessionIds /\ env # None
    BY <1>0, <2>1, CallerKnown DEF BornOK, Addressed
  <2>3. CASE config.durable
    <3>1. /\ pc' = [pc EXCEPT ![c] = "waiting"] /\ UNCHANGED <<sessions, remembered>>
          /\ task' = [for |-> c, who |-> caller[c].who, id |-> session[c],
                      stage |-> "saving"]
      BY <1>11, <2>3 DEF Remember, Go
    <3>2. task' \in TaskSet
      BY <2>2, <3>1 DEF TaskSet
    <3> QED
      BY <1>1, <2>1, <3>1, <3>2 DEF CallTypes, RestTypes
  <2>4. CASE ~config.durable
    <3>1. /\ pc' = [pc EXCEPT ![c] = "sending"] /\ UNCHANGED task
          /\ sessions' = Remembered(caller[c].who, session[c])
          /\ remembered' = remembered \cup {session[c]}
      BY <1>11, <2>4 DEF Remember, Go
    <3>2. sessions' \in Histories
      BY <1>0, <2>2, <3>1, RememberedType
    <3> QED
      BY <1>1, <2>1, <2>2, <3>1, <3>2 DEF CallTypes, RestTypes
  <2> QED
    BY <2>3, <2>4
<1>12. ASSUME NEW c \in Calls, Send(c) PROVE CallTypes' /\ RestTypes'
  <2>1. /\ pc' = [pc EXCEPT ![c] = "prompting"]
        /\ prompts' = [prompts EXCEPT ![session[c]] = @ \cup {caller[c].who}]
        /\ UNCHANGED <<env, sessions, disk, task, tool, caller, session, answer, born,
                       remembered>>
    BY <1>12 DEF Send, Go
  <2>2. caller[c].who \in Principals
    BY <1>0, <1>12, CallerKnown DEF Send, Go
  <2> QED
    BY <1>1, <2>1, <2>2 DEF CallTypes, RestTypes
<1>13. ASSUME NEW c \in Calls, Finish(c) PROVE CallTypes' /\ RestTypes'
  BY <1>1, <1>13, EndType DEF Finish, RestTypes
<1>14. ASSUME NEW c \in Calls, Leave(c) PROVE CallTypes' /\ RestTypes'
  <2>1. /\ End(c) /\ task' = Detached(c)
        /\ UNCHANGED <<env, sessions, disk, born, prompts, remembered>>
    BY <1>14 DEF Leave
  <2>2. Detached(c) \in TaskSet \cup {NoTask}
    <3>1. CASE task.for = c
      <4>1. task \in TaskSet
        BY <1>1, <3>1, NoneApart DEF RestTypes, NoTask
      <4> QED
        BY <3>1, <4>1 DEF Detached, TaskSet
    <3>2. CASE task.for # c
      BY <1>1, <3>2 DEF RestTypes, Detached
    <3> QED
      BY <3>1, <3>2
  <2> QED
    BY <1>1, <2>1, <2>2, EndType DEF RestTypes
<1>15. CASE UNCHANGED vars
  BY <1>1, <1>15 DEF vars, callVars, CallTypes, RestTypes
<1> QED
  BY <1>3, <1>4, <1>5, <1>6, <1>7, <1>8, <1>9, <1>10, <1>11, <1>12, <1>13, <1>14,
     <1>15 DEF Next

-----------------------------------------------------------------------------
(* The process, the callers and the transaction *)

LEMMA StepProcess == CallsInv /\ [Next]_vars => ProcessOK'
<1> SUFFICES ASSUME CallsInv, [Next]_vars PROVE ProcessOK'
  OBVIOUS
<1>1. TypeOK /\ ProcessOK /\ CallTypes
  BY TypeParts DEF CallsInv
<1>2. ASSUME NEW e \in EnvNames, Start(e) PROVE ProcessOK'
  BY <1>2, NoneApart DEF Start, ProcessOK
<1>3. CASE Stop
  BY <1>3 DEF Stop, ProcessOK
<1>4. ASSUME env # None, UNCHANGED env PROVE ProcessOK'
  BY <1>1, <1>4 DEF ProcessOK
<1>5. CASE Save \/ SaveFails \/ Publish
  BY <1>1, <1>4, <1>5, TaskRuns DEF Save, SaveFails, Publish
<1>6. ASSUME NEW c \in Calls, pc[c] # "idle" PROVE env # None
  BY <1>1, <1>6 DEF ProcessOK
<1>7. ASSUME NEW c \in Calls, NEW request \in Requests, Arrive(c, request) PROVE ProcessOK'
  BY <1>4, <1>7 DEF Arrive
<1>8. ASSUME NEW c \in Calls,
             \/ Admit(c) \/ CheckOwner(c) \/ Create(c) \/ Remember(c) \/ Send(c)
             \/ Answered(c) \/ Finish(c) \/ Leave(c)
      PROVE  ProcessOK'
  <2>1. pc[c] # "idle" /\ UNCHANGED env
    BY <1>8 DEF Admit, CheckOwner, Create, Remember, Send, Answered, Finish, Leave, Go
  <2> QED
    BY <1>4, <1>6, <2>1
<1>9. CASE UNCHANGED vars
  BY <1>1, <1>9 DEF vars, callVars, ProcessOK
<1> QED
  BY <1>2, <1>3, <1>5, <1>7, <1>8, <1>9 DEF Next

\* The steps of a call, as far as it and the others are where they were.
LEMMA StepCallers == CallsInv /\ [Next]_vars => CallersOK'
<1> SUFFICES ASSUME CallsInv, [Next]_vars PROVE CallersOK'
  OBVIOUS
<1>1. /\ TypeOK /\ ProcessOK /\ CallersOK /\ TaskOK /\ CallTypes
      /\ \A c \in Calls : pc[c] # "idle" => env # None
  BY TypeParts DEF CallsInv, ProcessOK
<1>2. ASSUME env' = env PROVE config' = config
  BY <1>2 DEF config
<1>3. ASSUME env' = env,
             \A c \in Calls : \/ pc[c] # "idle" /\ pc'[c] # "idle" /\ caller'[c] = caller[c]
                              \/ pc'[c] = "idle" /\ caller'[c] = Nobody
                              \/ pc'[c] = pc[c] /\ caller'[c] = caller[c]
      PROVE  CallersOK'
  <2>1. config' = config
    BY <1>2, <1>3
  <2> QED
    BY <1>1, <1>3, <2>1 DEF CallersOK
<1>4. ASSUME NEW e \in EnvNames, Start(e) PROVE CallersOK'
  <2>1. \A c \in Calls : pc'[c] = "idle" /\ caller'[c] = Nobody
    BY <1>1, <1>4 DEF Start, callVars, CallersOK, ProcessOK
  <2> QED
    BY <2>1 DEF CallersOK
<1>5. CASE Stop
  BY <1>5 DEF Stop, CallersOK
<1>6. CASE Save
  BY <1>3, <1>6 DEF Save, callVars
<1>7. CASE SaveFails
  <2>1. CASE task.for = None
    BY <1>3, <1>7, <2>1 DEF SaveFails, callVars
  <2>2. CASE task.for # None
    <3>1. task.for \in Calls /\ End(task.for) /\ env' = env
      BY <1>1, <1>7, <2>2, TaskType DEF SaveFails
    <3> QED
      BY <1>1, <1>3, <3>1, EndType
  <2> QED
    BY <2>1, <2>2
<1>8. CASE Publish
  <2>1. \A c \in Calls : /\ pc'[c] = IF c = task.for THEN "sending" ELSE pc[c]
                         /\ caller'[c] = caller[c]
    BY <1>8 DEF Publish
  <2>2. \A c \in Calls : c = task.for => pc[c] = "waiting"
    BY <1>1, NoneApart DEF TaskOK
  <2>3. env' = env
    BY <1>8 DEF Publish
  <2> QED
    BY <1>3, <2>1, <2>2, <2>3
<1>9. ASSUME NEW c \in Calls, NEW request \in Requests, Arrive(c, request) PROVE CallersOK'
  <2>1. /\ env' = env /\ Authenticated(config, request).who # None
        /\ pc' = [pc EXCEPT ![c] = "queued"]
        /\ caller' = [caller EXCEPT ![c] = Authenticated(config, request)]
    BY <1>9 DEF Arrive, Go
  <2>2. \A x \in Calls : x # c => pc'[x] = pc[x] /\ caller'[x] = caller[x]
    BY <1>1, <2>1 DEF CallTypes
  <2>3. pc'[c] = "queued" /\ caller'[c] = Authenticated(config, request)
    BY <1>1, <2>1 DEF CallTypes
  <2>4. config' = config
    BY <1>2, <2>1
  <2> QED
    BY <1>1, <2>1, <2>2, <2>3, <2>4 DEF CallersOK
<1>10. ASSUME NEW c \in Calls, Admit(c) \/ CheckOwner(c) \/ Create(c) \/ Send(c)
                                 \/ Answered(c)
       PROVE  CallersOK'
  <2>1. /\ env' = env /\ caller' = caller /\ pc[c] # "idle"
        /\ \E where \in {"admitted", "sending", "created", "prompting", "answered"} :
             pc' = [pc EXCEPT ![c] = where]
    BY <1>10 DEF Admit, CheckOwner, Create, Send, Answered, Go
  <2>2. \A x \in Calls : (x # c => pc'[x] = pc[x]) /\ pc'[c] # "idle"
    BY <1>1, <2>1 DEF CallTypes
  <2> QED
    BY <1>3, <2>1, <2>2
<1>11. ASSUME NEW c \in Calls, Remember(c) PROVE CallersOK'
  <2>1. /\ env' = env /\ caller' = caller /\ pc[c] # "idle"
        /\ \E where \in {"waiting", "sending"} : pc' = [pc EXCEPT ![c] = where]
    BY <1>11 DEF Remember, Go
  <2>2. \A x \in Calls : (x # c => pc'[x] = pc[x]) /\ pc'[c] # "idle"
    BY <1>1, <2>1 DEF CallTypes
  <2> QED
    BY <1>3, <2>1, <2>2
<1>12. ASSUME NEW c \in Calls, Finish(c) \/ Leave(c) PROVE CallersOK'
  <2>1. End(c) /\ env' = env
    BY <1>12 DEF Finish, Leave
  <2> QED
    BY <1>1, <1>3, <2>1, EndType
<1>13. CASE UNCHANGED vars
  BY <1>3, <1>13 DEF vars, callVars
<1> QED
  BY <1>4, <1>5, <1>6, <1>7, <1>8, <1>9, <1>10, <1>11, <1>12, <1>13 DEF Next

LEMMA StepAnswers == CallsInv /\ [Next]_vars => AnswersOK'
<1> SUFFICES ASSUME CallsInv, [Next]_vars PROVE AnswersOK'
  OBVIOUS
<1>1. TypeOK /\ ProcessOK /\ AnswersOK /\ TaskOK /\ CallTypes
  BY TypeParts DEF CallsInv
<1>2. ASSUME \A c \in Calls :
               \/ pc'[c] = "idle"
               \/ pc'[c] # "answered" /\ tool'[c] \in Tools
               \/ pc'[c] = pc[c] /\ tool'[c] = tool[c] /\ answer'[c] = answer[c]
      PROVE  AnswersOK'
  BY <1>1, <1>2 DEF AnswersOK
<1>3. ASSUME NEW e \in EnvNames, Start(e) PROVE AnswersOK'
  BY <1>2, <1>3 DEF Start, callVars
<1>4. CASE Stop
  BY <1>2, <1>4 DEF Stop
<1>5. CASE Save \/ UNCHANGED vars
  BY <1>2, <1>5 DEF Save, vars, callVars
<1>6. CASE SaveFails
  <2>1. CASE task.for = None
    BY <1>2, <1>6, <2>1 DEF SaveFails, callVars
  <2>2. CASE task.for # None
    BY <1>1, <1>2, <1>6, <2>2, TaskType, EndType DEF SaveFails
  <2> QED
    BY <2>1, <2>2
<1>7. CASE Publish
  <2>1. \A c \in Calls : /\ pc'[c] = IF c = task.for THEN "sending" ELSE pc[c]
                         /\ tool'[c] = tool[c] /\ answer'[c] = answer[c]
    BY <1>7 DEF Publish
  <2>2. \A c \in Calls : c = task.for => tool[c] \in Tools
    BY <1>1, NoneApart DEF TaskOK, AnswersOK
  <2> QED
    BY <1>2, <2>1, <2>2
<1>8. ASSUME NEW c \in Calls, NEW request \in Requests, Arrive(c, request) PROVE AnswersOK'
  <2>1. /\ pc' = [pc EXCEPT ![c] = "queued"] /\ UNCHANGED answer
        /\ \E name \in Tools : tool' = [tool EXCEPT ![c] = name]
    BY <1>8 DEF Arrive, Go, Tools
  <2> QED
    BY <1>1, <1>2, <2>1 DEF CallTypes
<1>9. ASSUME NEW c \in Calls,
             Admit(c) \/ CheckOwner(c) \/ Create(c) \/ Remember(c) \/ Send(c)
      PROVE  AnswersOK'
  <2>1. /\ pc[c] # "idle" /\ UNCHANGED <<tool, answer>>
        /\ \E where \in {"admitted", "sending", "created", "waiting", "prompting"} :
             pc' = [pc EXCEPT ![c] = where]
    BY <1>9 DEF Admit, CheckOwner, Create, Remember, Send, Go
  <2>2. \A x \in Calls : /\ x # c => pc'[x] = pc[x]
                         /\ pc'[c] # "answered"
                         /\ tool'[x] = tool[x] /\ answer'[x] = answer[x]
    BY <1>1, <2>1 DEF CallTypes
  <2>3. tool[c] \in Tools
    BY <1>1, <2>1 DEF AnswersOK
  <2> QED
    BY <1>2, <2>2, <2>3
<1>10. ASSUME NEW c \in Calls, Answered(c) PROVE AnswersOK'
  <2>1. /\ pc[c] # "idle" /\ UNCHANGED tool /\ pc' = [pc EXCEPT ![c] = "answered"]
        /\ \E reply \in Replies :
             /\ Made(tool[c], reply).from # "error"
             /\ answer' = [answer EXCEPT ![c] =
                             [reply |-> reply, made |-> Made(tool[c], reply)]]
    BY <1>10 DEF Answered, Go
  <2>2. PICK reply \in Replies :
          /\ Made(tool[c], reply).from # "error"
          /\ answer' = [answer EXCEPT ![c] =
                          [reply |-> reply, made |-> Made(tool[c], reply)]]
    BY <2>1
  <2>3. /\ answer'[c] = [reply |-> reply, made |-> Made(tool'[c], reply)]
        /\ Made(tool'[c], reply).from # "error" /\ tool'[c] \in Tools
    BY <1>1, <2>1, <2>2 DEF AnswersOK, CallTypes
  <2>4. \A x \in Calls : x # c =>
          pc'[x] = pc[x] /\ tool'[x] = tool[x] /\ answer'[x] = answer[x]
    BY <1>1, <2>1, <2>2 DEF CallTypes
  <2> QED
    BY <1>1, <2>3, <2>4 DEF AnswersOK
<1>11. ASSUME NEW c \in Calls, Finish(c) \/ Leave(c) PROVE AnswersOK'
  <2>1. End(c)
    BY <1>11 DEF Finish, Leave
  <2> QED
    BY <1>1, <1>2, <2>1, EndType
<1> QED
  BY <1>3, <1>4, <1>5, <1>6, <1>7, <1>8, <1>9, <1>10, <1>11 DEF Next

LEMMA StepTask == CallsInv /\ [Next]_vars => TaskOK'
<1> SUFFICES ASSUME CallsInv, [Next]_vars PROVE TaskOK'
  OBVIOUS
<1>1. /\ TypeOK /\ ProcessOK /\ CallersOK /\ TaskOK /\ BornOK /\ CallTypes /\ RestTypes
  BY TypeParts DEF CallsInv
<1>2. NoTask.for = None /\ NoTask.stage = "none"
  BY DEF NoTask
<1>3. ASSUME task' = NoTask PROVE TaskOK'
  BY <1>2, <1>3 DEF TaskOK
\* A step of a call that the transaction is not for, and that lets it be.
<1>4. ASSUME NEW c \in Calls, c # task.for, task' = task, remembered \subseteq remembered',
             \A x \in Calls : x # c => /\ pc'[x] = pc[x] /\ session'[x] = session[x]
                                       /\ caller'[x] = caller[x],
             \A s \in SessionIds : born[s] # None => born'[s] = born[s]
      PROVE  TaskOK'
  <2>1. task.for # None => task.for \in Calls
    BY <1>1, <1>2 DEF RestTypes, TaskSet
  <2>2. task # NoTask => task.id \in SessionIds /\ task.who \in Principals
    BY <1>1 DEF RestTypes, TaskSet
  <2> QED
    BY <1>1, <1>4, <2>1, <2>2, NoneApart DEF TaskOK
<1>5. CASE \E e \in EnvNames : Start(e)
  <2>1. task' = task
    BY <1>5 DEF Start
  <2>2. task = NoTask
    BY <1>1, <1>5 DEF Start, ProcessOK
  <2> QED
    BY <1>3, <2>1, <2>2
<1>6. CASE Stop \/ SaveFails \/ Publish
  BY <1>3, <1>6 DEF Stop, SaveFails, Publish
<1>7. CASE Save
  <2>1. /\ task' = [task EXCEPT !.stage = "saved"]
        /\ remembered' = remembered \cup {task.id}
        /\ pc' = pc /\ session' = session /\ caller' = caller /\ born' = born
        /\ task.stage = "saving"
    BY <1>7 DEF Save, callVars
  <2>2. task \in TaskSet
    BY <1>1, <2>1, TaskType
  <2>3. task'.for = task.for /\ task'.id = task.id /\ task'.who = task.who
    BY <2>1, <2>2 DEF TaskSet
  <2>4. task # NoTask
    BY <1>2, <2>1
  <2> QED
    BY <1>1, <2>1, <2>3, <2>4 DEF TaskOK
<1>8. ASSUME NEW c \in Calls, NEW request \in Requests, Arrive(c, request) PROVE TaskOK'
  <2>1. /\ pc[c] = "idle" /\ pc' = [pc EXCEPT ![c] = "queued"] /\ task' = task
        /\ born' = born /\ remembered' = remembered
        /\ caller' = [caller EXCEPT ![c] = Authenticated(config, request)]
        /\ \/ \E s \in SessionIds \cup {None} : session' = [session EXCEPT ![c] = s]
           \/ session' = session
    BY <1>8 DEF Arrive, Go
  <2>2. \A x \in Calls : x # c => /\ pc'[x] = pc[x] /\ session'[x] = session[x]
                                  /\ caller'[x] = caller[x]
    BY <1>1, <2>1 DEF CallTypes
  <2>3. c # task.for
    BY <1>1, <2>1, NoneApart DEF TaskOK
  <2> QED
    BY <1>4, <2>1, <2>2, <2>3
<1>9. ASSUME NEW c \in Calls, Admit(c) \/ CheckOwner(c) \/ Create(c) \/ Send(c)
                                \/ Answered(c) \/ Finish(c)
      PROVE  TaskOK'
  <2>1. /\ pc[c] \in {"queued", "admitted", "sending", "prompting", "answered"}
        /\ task' = task /\ remembered' = remembered
    BY <1>9 DEF Admit, CheckOwner, Create, Send, Answered, Finish, Go
  <2>2. c # task.for
    BY <1>1, <2>1, NoneApart DEF TaskOK
  <2>3. \A s \in SessionIds : born[s] # None => born'[s] = born[s]
    BY <1>1, <1>9 DEF Admit, CheckOwner, Create, Send, Answered, Finish, RestTypes
  <2>4. \A x \in Calls : x # c => /\ pc'[x] = pc[x] /\ session'[x] = session[x]
                                  /\ caller'[x] = caller[x]
    <3>1. CASE Finish(c)
      BY <1>1, <3>1, EndType DEF Finish
    <3>2. CASE ~Finish(c)
      BY <1>1, <1>9, <3>2 DEF Admit, CheckOwner, Create, Send, Answered, Go, CallTypes
    <3> QED
      BY <3>1, <3>2
  <2> QED
    BY <1>4, <2>1, <2>2, <2>3, <2>4
<1>10. ASSUME NEW c \in Calls, Remember(c) PROVE TaskOK'
  <2>1. /\ pc[c] = "created" /\ task = NoTask
        /\ UNCHANGED <<env, disk, tool, caller, session, answer, born, prompts>>
    BY <1>10 DEF Remember
  <2>2. CASE config.durable
    <3>1. /\ pc'[c] = "waiting"
          /\ task' = [for |-> c, who |-> caller[c].who, id |-> session[c],
                      stage |-> "saving"]
      BY <1>1, <1>10, <2>2 DEF Remember, Go, CallTypes
    <3>2. born[session[c]] = caller[c].who
      BY <1>1, <2>1 DEF BornOK, Addressed
    <3> QED
      BY <2>1, <3>1, <3>2 DEF TaskOK
  <2>3. CASE ~config.durable
    BY <1>3, <1>10, <2>1, <2>3 DEF Remember
  <2> QED
    BY <2>2, <2>3
<1>11. ASSUME NEW c \in Calls, Leave(c) PROVE TaskOK'
  <2>1. End(c) /\ task' = Detached(c) /\ UNCHANGED <<env, sessions, disk, born, prompts,
                                                      remembered>>
    BY <1>11 DEF Leave
  <2>2. \A x \in Calls : x # c => /\ pc'[x] = pc[x] /\ session'[x] = session[x]
                                  /\ caller'[x] = caller[x]
    BY <1>1, <2>1, EndType
  <2>3. CASE task.for = c
    <3>1. task' = [task EXCEPT !.for = None] /\ task # NoTask /\ task \in TaskSet
      BY <1>1, <1>2, <2>1, <2>3, NoneApart DEF Detached, RestTypes
    <3>2. task'.for = None /\ task'.id = task.id /\ task'.who = task.who
          /\ task'.stage = task.stage
      BY <3>1 DEF TaskSet
    <3> QED
      BY <1>1, <2>1, <3>1, <3>2 DEF TaskOK
  <2>4. CASE task.for # c
    BY <1>4, <2>1, <2>2, <2>4 DEF Detached
  <2> QED
    BY <2>3, <2>4
<1>12. CASE UNCHANGED vars
  BY <1>1, <1>12 DEF vars, callVars, TaskOK
<1> QED
  BY <1>5, <1>6, <1>7, <1>8, <1>9, <1>10, <1>11, <1>12 DEF Next

-----------------------------------------------------------------------------
(* Who may prompt which session *)

\* What saving an ownership does to the histories.
LEMMA RememberedElements ==
  ASSUME TypeOK, ProcessOK, env # None, NEW who \in Principals, NEW id \in SessionIds
  PROVE  /\ \A p \in Principals :
              /\ Elements(Remembered(who, id)[p]) \subseteq Elements(sessions[p])
                   \cup (IF p = who THEN {id} ELSE {})
              /\ Len(Remembered(who, id)[p]) >= config.maxSessions
                   \/ Elements(sessions[p]) \subseteq Elements(Remembered(who, id)[p])
              /\ Len(sessions[p]) >= config.maxSessions =>
                   Len(Remembered(who, id)[p]) >= config.maxSessions
              /\ Len(sessions[p]) <= config.maxSessions =>
                   Len(Remembered(who, id)[p]) <= config.maxSessions
         /\ id \in Elements(Remembered(who, id)[who])
<1>1. config.maxSessions \in Nat \ {0}
  BY ConfigKnown
<1>2. sessions[who] \in Seq(SessionIds)
  BY DEF TypeOK, Histories
<1> DEFINE R == RememberBounded(sessions[who], id, config.maxSessions)
<1>3. /\ Len(R) <= config.maxSessions
      /\ Elements(R) \subseteq Elements(sessions[who]) \cup {id}
      /\ id \in Elements(R)
      /\ Elements(sessions[who]) \subseteq Elements(R) \/ Len(R) >= config.maxSessions
      /\ Len(sessions[who]) >= config.maxSessions => Len(R) >= config.maxSessions
  BY <1>1, <1>2, RememberBoundedFits
<1>4. \A p \in Principals : Remembered(who, id)[p] = IF p = who THEN R ELSE sessions[p]
  BY RememberedType
<1> HIDE DEF R
<1> QED
  BY <1>3, <1>4

LEMMA StepBorn == CallsInv /\ [Next]_vars => BornOK'
<1> SUFFICES ASSUME CallsInv, [Next]_vars PROVE BornOK'
  OBVIOUS
<1>1. /\ TypeOK /\ ProcessOK /\ CallersOK /\ TaskOK /\ BornOK /\ CallTypes /\ RestTypes
  BY TypeParts DEF CallsInv
<1>2. /\ \A c \in Calls : Addressed(c) =>
           session[c] \in SessionIds /\ born[session[c]] = caller[c].who
      /\ \A s \in SessionIds : prompts[s] \subseteq {born[s]}
      /\ \A p \in Principals :
           \A s \in Elements(sessions[p]) \cup Elements(disk[p]) : born[s] = p
  BY <1>1 DEF BornOK, OnlyCreatorPrompts
<1>3. BornOK' <=>
        /\ \A c \in Calls : Addressed(c)' =>
             session'[c] \in SessionIds /\ born'[session'[c]] = caller'[c].who
        /\ \A s \in SessionIds : prompts'[s] \subseteq {born'[s]}
        /\ \A p \in Principals :
             \A s \in Elements(sessions'[p]) \cup Elements(disk'[p]) : born'[s] = p
  BY DEF BornOK, OnlyCreatorPrompts
<1>4. \A c \in Calls :
        Addressed(c)' <=> \/ pc'[c] \in {"created", "waiting", "sending", "prompting"}
                          \/ pc'[c] = "answered" /\ tool'[c] = "bridge_prompt"
  BY DEF Addressed, Cleared
<1>5. \A c \in Calls :
        Addressed(c) <=> \/ pc[c] \in {"created", "waiting", "sending", "prompting"}
                         \/ pc[c] = "answered" /\ tool[c] = "bridge_prompt"
  BY DEF Addressed, Cleared
\* Steps that leave the calls alone, or end some.
<1>6. ASSUME born' = born, prompts' = prompts,
             \A c \in Calls : \/ pc'[c] = "idle"
                              \/ /\ Addressed(c)' => Addressed(c)
                                 /\ session'[c] = session[c] /\ caller'[c] = caller[c],
             \A p \in Principals :
               \A s \in Elements(sessions'[p]) \cup Elements(disk'[p]) : born[s] = p
      PROVE  BornOK'
  BY <1>2, <1>3, <1>4, <1>6
<1>7. ASSUME NEW e \in EnvNames, Start(e) PROVE BornOK'
  <2>1. \A p \in Principals : Elements(sessions'[p]) \subseteq Elements(disk[p])
    <3> SUFFICES ASSUME NEW p \in Principals
                 PROVE  Elements(sessions'[p]) \subseteq Elements(disk[p])
      OBVIOUS
    <3>1. sessions'[p] = IF Configs[e].durable
                         THEN DropOldest(disk[p], Configs[e].maxSessions) ELSE <<>>
      BY <1>7 DEF Start
    <3>2. Elements(<<>>) = {}
      BY DEF Elements
    <3>3. disk[p] \in Seq(SessionIds) /\ Configs[e].maxSessions \in Nat
      BY <1>1, <1>7, AcceptedNumbers DEF Start, RestTypes, Histories
    <3>4. Elements(DropOldest(disk[p], Configs[e].maxSessions)) \subseteq Elements(disk[p])
      BY <3>3, DropOldestElements
    <3> QED
      BY <3>1, <3>2, <3>4
  <2>2. /\ born' = born /\ prompts' = prompts /\ disk' = disk
        /\ pc' = pc /\ tool' = tool /\ session' = session /\ caller' = caller
    BY <1>7 DEF Start, callVars
  <2>3. \A c \in Calls : Addressed(c)' <=> Addressed(c)
    BY <1>4, <1>5, <2>2
  <2> QED
    BY <1>2, <1>6, <2>1, <2>2, <2>3
<1>8. CASE Stop
  <2>1. /\ born' = born /\ prompts' = prompts /\ disk' = disk
        /\ \A c \in Calls : pc'[c] = "idle"
        /\ \A p \in Principals : sessions'[p] = <<>>
    BY <1>8 DEF Stop
  <2>2. Elements(<<>>) = {}
    BY DEF Elements
  <2>3. \A p \in Principals : Elements(sessions'[p]) = {}
    BY <2>1, <2>2
  <2> QED
    BY <1>2, <1>6, <2>1, <2>3
<1>9. ASSUME task.stage # "none"
      PROVE  \A p \in Principals :
               \A s \in Elements(Remembered(task.who, task.id)[p]) : born[s] = p
  <2>1. task.who \in Principals /\ task.id \in SessionIds /\ env # None
    BY <1>1, <1>9, TaskType, TaskRuns
  <2>2. born[task.id] = task.who
    BY <1>1, <1>9 DEF TaskOK, NoTask
  <2>3. \A p \in Principals :
          Elements(Remembered(task.who, task.id)[p]) \subseteq Elements(sessions[p])
            \cup (IF p = task.who THEN {task.id} ELSE {})
    BY <1>1, <2>1, RememberedElements
  <2> QED
    BY <1>2, <2>2, <2>3
<1>10. CASE Save
  <2>1. /\ born' = born /\ prompts' = prompts /\ sessions' = sessions
        /\ pc' = pc /\ tool' = tool /\ session' = session /\ caller' = caller
        /\ disk' = Remembered(task.who, task.id) /\ task.stage = "saving"
    BY <1>10 DEF Save, callVars
  <2>2. \A c \in Calls : Addressed(c)' <=> Addressed(c)
    BY <1>4, <1>5, <2>1
  <2> QED
    BY <1>2, <1>6, <1>9, <2>1, <2>2
<1>11. CASE SaveFails
  <2>1. born' = born /\ prompts' = prompts /\ sessions' = sessions /\ disk' = disk
    BY <1>11 DEF SaveFails
  <2>2. CASE task.for = None
    <3>1. pc' = pc /\ tool' = tool /\ session' = session /\ caller' = caller
      BY <1>11, <2>2 DEF SaveFails, callVars
    <3>2. \A c \in Calls : Addressed(c)' <=> Addressed(c)
      BY <1>4, <1>5, <3>1
    <3> QED
      BY <1>2, <1>6, <2>1, <3>1, <3>2
  <2>3. CASE task.for # None
    <3>1. task.for \in Calls /\ End(task.for)
      BY <1>1, <1>11, <2>3, TaskType DEF SaveFails
    <3>2. \A x \in Calls :
            \/ pc'[x] = "idle"
            \/ /\ pc'[x] = pc[x] /\ tool'[x] = tool[x]
               /\ caller'[x] = caller[x] /\ session'[x] = session[x]
      BY <1>1, <3>1, EndType
    <3>3. \A c \in Calls : pc'[c] # "idle" => (Addressed(c)' <=> Addressed(c))
      BY <1>4, <1>5, <3>2
    <3> QED
      BY <1>2, <1>6, <2>1, <3>2, <3>3
  <2> QED
    BY <2>2, <2>3
<1>12. CASE Publish
  <2>1. /\ born' = born /\ prompts' = prompts /\ disk' = disk /\ task.stage = "saved"
        /\ sessions' = Remembered(task.who, task.id)
        /\ tool' = tool /\ session' = session /\ caller' = caller
        /\ \A c \in Calls : pc'[c] = IF c = task.for THEN "sending" ELSE pc[c]
    BY <1>12 DEF Publish
  <2>2. \A c \in Calls : c = task.for => pc[c] = "waiting"
    BY <1>1, NoneApart DEF TaskOK
  <2>3. \A c \in Calls : Addressed(c)' => Addressed(c)
    BY <1>4, <1>5, <2>1, <2>2
  <2> QED
    BY <1>2, <1>6, <1>9, <2>1, <2>3
<1>13. ASSUME NEW c \in Calls, NEW request \in Requests, Arrive(c, request) PROVE BornOK'
  <2>1. /\ born' = born /\ prompts' = prompts /\ disk' = disk /\ sessions' = sessions
        /\ pc' = [pc EXCEPT ![c] = "queued"]
        /\ caller' = [caller EXCEPT ![c] = Authenticated(config, request)]
        /\ \/ /\ \E s \in SessionIds \cup {None} : session' = [session EXCEPT ![c] = s]
              /\ tool' = [tool EXCEPT ![c] = "bridge_prompt"]
           \/ /\ session' = session
              /\ \E other \in {"bridge_read_file", "bridge_search"} :
                   tool' = [tool EXCEPT ![c] = other]
    BY <1>13 DEF Arrive, Go
  <2>2. \A x \in Calls : x # c => /\ pc'[x] = pc[x] /\ session'[x] = session[x]
                                  /\ caller'[x] = caller[x] /\ tool'[x] = tool[x]
    BY <1>1, <2>1 DEF CallTypes
  <2>3. pc'[c] = "queued"
    BY <1>1, <2>1 DEF CallTypes
  <2>4. \A x \in Calls : Addressed(x)' => x # c /\ Addressed(x)
    BY <1>4, <1>5, <2>2, <2>3
  <2> QED
    BY <1>2, <1>3, <2>1, <2>2, <2>4
<1>14. ASSUME NEW c \in Calls, Admit(c) \/ Answered(c) \/ Send(c) PROVE BornOK'
  <2>1. /\ born' = born /\ disk' = disk /\ sessions' = sessions
        /\ tool' = tool /\ session' = session /\ caller' = caller
    BY <1>14 DEF Admit, Answered, Send
  <2>2. \A x \in Calls : x # c => pc'[x] = pc[x]
    BY <1>1, <1>14 DEF Admit, Answered, Send, Go, CallTypes
  <2>3. \/ pc'[c] = "admitted"
        \/ pc[c] \in {"sending", "prompting"}
        \/ pc[c] = "admitted" /\ pc'[c] = "answered" /\ tool[c] # "bridge_prompt"
    BY <1>1, <1>14 DEF Admit, Answered, Send, Go, CallTypes
  <2>4. \A x \in Calls : Addressed(x)' => Addressed(x)
    BY <1>4, <1>5, <2>1, <2>2, <2>3
  <2>5. \A s \in SessionIds : prompts'[s] \subseteq {born[s]}
    <3>1. CASE Send(c)
      <4>1. /\ prompts' = [prompts EXCEPT ![session[c]] = @ \cup {caller[c].who}]
            /\ pc[c] = "sending"
        BY <3>1 DEF Send, Go
      <4>2. session[c] \in SessionIds /\ born[session[c]] = caller[c].who
        BY <1>2, <1>5, <4>1
      <4> QED
        BY <1>1, <1>2, <4>1, <4>2 DEF RestTypes
    <3>2. CASE Admit(c) \/ Answered(c)
      BY <1>2, <3>2 DEF Admit, Answered
    <3> QED
      BY <1>14, <3>1, <3>2
  <2> QED
    BY <1>2, <1>3, <2>1, <2>4, <2>5
<1>15. ASSUME NEW c \in Calls, CheckOwner(c) PROVE BornOK'
  <2>1. /\ born' = born /\ prompts' = prompts /\ disk' = disk /\ sessions' = sessions
        /\ tool' = tool /\ session' = session /\ caller' = caller
        /\ pc[c] = "admitted" /\ pc' = [pc EXCEPT ![c] = "sending"]
        /\ session[c] # None /\ session[c] \in Elements(sessions[caller[c].who])
    BY <1>15 DEF CheckOwner, OwnsSession, Go
  <2>2. caller[c].who \in Principals /\ session[c] \in SessionIds
    BY <1>1, <2>1, CallerKnown DEF CallTypes
  <2>3. born[session[c]] = caller[c].who
    BY <1>2, <2>1, <2>2
  <2>4. \A x \in Calls : x # c => pc'[x] = pc[x]
    BY <1>1, <2>1 DEF CallTypes
  <2>5. \A x \in Calls : x # c => (Addressed(x)' <=> Addressed(x))
    BY <1>4, <1>5, <2>1, <2>4
  <2> QED
    BY <1>2, <1>3, <2>1, <2>2, <2>3, <2>5
<1>16. ASSUME NEW c \in Calls, Create(c) PROVE BornOK'
  <2>1. /\ disk' = disk /\ sessions' = sessions /\ prompts' = prompts
        /\ tool' = tool /\ caller' = caller
        /\ pc[c] = "admitted" /\ pc' = [pc EXCEPT ![c] = "created"]
    BY <1>16 DEF Create, Go
  <2>2. PICK s \in SessionIds : /\ born[s] = None
                                /\ born' = [born EXCEPT ![s] = caller[c].who]
                                /\ session' = [session EXCEPT ![c] = s]
    BY <1>16 DEF Create
  <2>3. caller[c].who \in Principals
    BY <1>1, <2>1, CallerKnown
  <2>4. \A x \in Calls : x # c => pc'[x] = pc[x] /\ session'[x] = session[x]
    BY <1>1, <2>1, <2>2 DEF CallTypes
  <2>5. /\ session'[c] = s /\ born'[s] = caller[c].who
        /\ \A t \in SessionIds : t # s => born'[t] = born[t]
    BY <1>1, <2>2 DEF CallTypes, RestTypes
  <2>6. \A x \in Calls : x # c => (Addressed(x)' <=> Addressed(x))
    BY <1>4, <1>5, <2>1, <2>4
  <2>7. ASSUME NEW x \in Calls, Addressed(x)'
        PROVE  session'[x] \in SessionIds /\ born'[session'[x]] = caller'[x].who
    <3>1. CASE x = c
      BY <2>1, <2>5, <3>1
    <3>2. CASE x # c
      <4>1. session'[x] = session[x] /\ session[x] \in SessionIds
            /\ born[session[x]] = caller[x].who /\ pc[x] # "idle"
        BY <1>2, <1>5, <2>4, <2>6, <2>7, <3>2
      <4>2. born[session[x]] # None
        BY <1>1, <4>1, CallerKnown, NoneApart
      <4> QED
        BY <2>1, <2>2, <2>5, <4>1, <4>2
    <3> QED
      BY <3>1, <3>2
  <2>8. \A t \in SessionIds : prompts'[t] \subseteq {born'[t]}
    <3>1. prompts[s] = {}
      BY <1>1, <1>2, <2>2, NoneApart DEF RestTypes
    <3> QED
      BY <1>2, <2>1, <2>5, <3>1
  <2>9. \A p \in Principals :
          \A t \in Elements(sessions'[p]) \cup Elements(disk'[p]) : born'[t] = p
    <3> SUFFICES ASSUME NEW p \in Principals,
                        NEW t \in Elements(sessions[p]) \cup Elements(disk[p])
                 PROVE  born'[t] = p
      BY <2>1
    <3>1. t \in SessionIds
      BY <1>1 DEF RestTypes, Histories, Elements
    <3>2. born[t] = p /\ p # None
      BY <1>2, NoneApart
    <3> QED
      BY <2>2, <2>5, <3>1, <3>2
  <2> QED
    BY <1>3, <2>7, <2>8, <2>9
<1>17. ASSUME NEW c \in Calls, Remember(c) PROVE BornOK'
  <2>1. /\ pc[c] = "created"
        /\ disk' = disk /\ tool' = tool /\ caller' = caller /\ session' = session
        /\ born' = born /\ prompts' = prompts
        /\ \E where \in {"waiting", "sending"} : pc' = [pc EXCEPT ![c] = where]
        /\ \/ sessions' = sessions
           \/ sessions' = Remembered(caller[c].who, session[c])
    BY <1>17 DEF Remember, Go
  <2>2. \A x \in Calls : x # c => pc'[x] = pc[x]
    BY <1>1, <2>1 DEF CallTypes
  <2>3. \A x \in Calls : Addressed(x)' => Addressed(x)
    BY <1>4, <1>5, <2>1, <2>2
  <2>4. /\ session[c] \in SessionIds /\ born[session[c]] = caller[c].who
        /\ caller[c].who \in Principals /\ env # None
    BY <1>1, <1>2, <1>5, <2>1, CallerKnown
  <2>5. \A p \in Principals :
          Elements(Remembered(caller[c].who, session[c])[p]) \subseteq Elements(sessions[p])
            \cup (IF p = caller[c].who THEN {session[c]} ELSE {})
    BY <1>1, <2>4, RememberedElements
  <2>6. \A p \in Principals : \A s \in Elements(sessions'[p]) : born[s] = p
    BY <1>2, <2>1, <2>4, <2>5
  <2> QED
    BY <1>2, <1>6, <2>1, <2>3, <2>6
<1>18. ASSUME NEW c \in Calls, Finish(c) \/ Leave(c) PROVE BornOK'
  <2>1. /\ End(c) /\ born' = born /\ prompts' = prompts /\ sessions' = sessions
        /\ disk' = disk
    BY <1>18 DEF Finish, Leave
  <2>2. \A x \in Calls :
          \/ pc'[x] = "idle"
          \/ /\ pc'[x] = pc[x] /\ tool'[x] = tool[x]
             /\ caller'[x] = caller[x] /\ session'[x] = session[x]
    BY <1>1, <2>1, EndType
  <2>3. \A x \in Calls : pc'[x] # "idle" => (Addressed(x)' <=> Addressed(x))
    BY <1>4, <1>5, <2>2
  <2> QED
    BY <1>2, <1>6, <2>1, <2>2, <2>3
<1>19. CASE UNCHANGED vars
  <2>1. /\ born' = born /\ prompts' = prompts /\ sessions' = sessions /\ disk' = disk
        /\ pc' = pc /\ tool' = tool /\ session' = session /\ caller' = caller
    BY <1>19 DEF vars, callVars
  <2>2. \A c \in Calls : Addressed(c)' <=> Addressed(c)
    BY <1>4, <1>5, <2>1
  <2> QED
    BY <1>2, <1>6, <2>1, <2>2
<1> QED
  BY <1>7, <1>8, <1>10, <1>11, <1>12, <1>13, <1>14, <1>15, <1>16, <1>17, <1>18,
     <1>19 DEF Next

-----------------------------------------------------------------------------
(* Ownership before use *)

\* A call that is past its check, after a step: it was before, unless it has just
\* passed the check, or saved.
LEMMA NewlyCleared ==
  ASSUME CallsInv, [Next]_vars, NEW c \in Calls, Cleared(c)'
  PROVE  /\ session'[c] = session[c] /\ caller'[c] = caller[c] /\ env' = env /\ env # None
         /\ \/ Cleared(c) /\ ~(Publish /\ c = task.for)
            \/ CheckOwner(c)
            \/ Remember(c) /\ ~config.durable
            \/ Publish /\ c = task.for
<1>1. /\ TypeOK /\ ProcessOK /\ CallersOK /\ TaskOK /\ BornOK /\ CallTypes /\ RestTypes
  BY TypeParts DEF CallsInv
<1>2. \/ pc'[c] \in {"sending", "prompting"}
      \/ pc'[c] = "answered" /\ tool'[c] = "bridge_prompt"
  BY DEF Cleared
<1>3. \/ pc[c] \in {"sending", "prompting"}
      \/ pc[c] = "answered" /\ tool[c] = "bridge_prompt"
      => Cleared(c)
  BY DEF Cleared
<1>4. pc'[c] # "idle"
  BY <1>2
<1>5. ASSUME pc[c] # "idle" PROVE env # None
  BY <1>1, <1>5 DEF ProcessOK
<1>6. \A x \in Calls : task.for = x => pc[x] = "waiting"
  BY <1>1, NoneApart DEF TaskOK
<1>7. ASSUME NEW e \in EnvNames, Start(e) PROVE FALSE
  BY <1>1, <1>4, <1>7 DEF Start, callVars, ProcessOK
<1>8. CASE Stop
  BY <1>4, <1>8 DEF Stop
<1>9. CASE Save
  BY <1>2, <1>3, <1>5, <1>6, <1>9 DEF Save, callVars, Publish
<1>10. CASE SaveFails
  <2>1. env' = env /\ task.stage = "saving"
    BY <1>10 DEF SaveFails
  <2>2. pc'[c] = pc[c] /\ tool'[c] = tool[c] /\ session'[c] = session[c] /\ caller'[c] = caller[c]
    <3>1. CASE task.for = None
      BY <1>10, <3>1 DEF SaveFails, callVars
    <3>2. CASE task.for # None
      <4>1. task.for \in Calls /\ End(task.for)
        BY <1>1, <1>10, <3>2, TaskType DEF SaveFails
      <4> QED
        BY <1>1, <1>4, <4>1, EndType
    <3> QED
      BY <3>1, <3>2
  <2> QED
    BY <1>2, <1>3, <1>5, <1>6, <2>1, <2>2
<1>11. CASE Publish
  <2>1. /\ env' = env /\ tool' = tool /\ session' = session /\ caller' = caller
        /\ pc'[c] = IF c = task.for THEN "sending" ELSE pc[c]
    BY <1>11 DEF Publish
  <2> QED
    BY <1>2, <1>3, <1>5, <1>6, <1>11, <2>1
\* A step of one call, x.
<1>12. ASSUME NEW x \in Calls, ~Publish, env' = env,
              x # c => /\ pc'[c] = pc[c] /\ tool'[c] = tool[c]
                       /\ session'[c] = session[c] /\ caller'[c] = caller[c],
              x = c => /\ session'[c] = session[c] /\ caller'[c] = caller[c]
                       /\ pc[c] # "idle"
                       /\ \/ Cleared(c) \/ CheckOwner(c)
                          \/ Remember(c) /\ ~config.durable
       PROVE  /\ session'[c] = session[c] /\ caller'[c] = caller[c] /\ env' = env
              /\ env # None
              /\ \/ Cleared(c) /\ ~(Publish /\ c = task.for)
                 \/ CheckOwner(c)
                 \/ Remember(c) /\ ~config.durable
  BY <1>2, <1>3, <1>5, <1>12
<1>13. ASSUME NEW x \in Calls, NEW request \in Requests, Arrive(x, request), ~Publish
       PROVE  Cleared(c) /\ session'[c] = session[c] /\ caller'[c] = caller[c]
                /\ env' = env /\ env # None
  <2>1. pc'[x] = "queued" /\ env' = env
    BY <1>1, <1>13 DEF Arrive, Go, CallTypes
  <2>2. x # c
    BY <1>2, <2>1
  <2>3. /\ pc'[c] = pc[c] /\ tool'[c] = tool[c] /\ session'[c] = session[c]
        /\ caller'[c] = caller[c]
    BY <1>1, <1>13, <2>2 DEF Arrive, Go, CallTypes
  <2> QED
    BY <1>2, <1>3, <1>5, <2>1, <2>3
<1>14. ASSUME NEW x \in Calls,
              \/ Admit(x) \/ CheckOwner(x) \/ Create(x) \/ Remember(x) \/ Send(x)
              \/ Answered(x),
              ~Publish
       PROVE  /\ session'[c] = session[c] /\ caller'[c] = caller[c] /\ env' = env
              /\ env # None
              /\ \/ Cleared(c) /\ ~(Publish /\ c = task.for)
                 \/ CheckOwner(c)
                 \/ Remember(c) /\ ~config.durable
  <2>1. env' = env /\ tool' = tool /\ caller' = caller
    BY <1>14 DEF Admit, CheckOwner, Create, Remember, Send, Answered
  <2>2. x # c => pc'[c] = pc[c] /\ session'[c] = session[c]
    BY <1>1, <1>14 DEF Admit, CheckOwner, Create, Remember, Send, Answered, Go, CallTypes
  <2>3. CASE Admit(c) \/ Create(c)
    BY <1>1, <1>2, <2>3 DEF Admit, Create, Go, CallTypes
  <2>4. CASE CheckOwner(c)
    BY <1>5, <2>1, <2>4 DEF CheckOwner, Go
  <2>5. CASE Remember(c)
    <3>1. session' = session /\ pc[c] = "created"
      BY <2>5 DEF Remember
    <3>2. config.durable => pc'[c] = "waiting"
      BY <1>1, <2>5 DEF Remember, Go, CallTypes
    <3> QED
      BY <1>2, <1>5, <2>1, <2>5, <3>1, <3>2
  <2>6. CASE Send(c) \/ Answered(c)
    <3>1. session' = session /\ pc[c] # "idle"
      BY <2>6 DEF Send, Answered, Go
    <3>2. \/ pc[c] \in {"sending", "prompting"}
          \/ pc'[c] = "answered" /\ tool[c] # "bridge_prompt"
      BY <1>1, <2>6 DEF Send, Answered, Go, CallTypes
    <3>3. Cleared(c)
      BY <1>2, <1>3, <2>1, <3>2
    <3> QED
      BY <1>5, <1>14, <2>1, <3>1, <3>3
  <2>7. CASE x # c
    BY <1>12, <1>14, <2>1, <2>2, <2>7
  <2> QED
    BY <1>14, <2>3, <2>4, <2>5, <2>6, <2>7
<1>15. ASSUME NEW x \in Calls, Finish(x) \/ Leave(x)
       PROVE  Cleared(c) /\ session'[c] = session[c] /\ caller'[c] = caller[c]
                /\ env' = env /\ env # None
  <2>1. End(x) /\ env' = env
    BY <1>15 DEF Finish, Leave
  <2>2. x # c
    BY <1>1, <1>4, <2>1, EndType
  <2>3. /\ pc'[c] = pc[c] /\ tool'[c] = tool[c] /\ session'[c] = session[c]
        /\ caller'[c] = caller[c]
    BY <1>1, <2>1, <2>2, EndType
  <2> QED
    BY <1>2, <1>3, <1>5, <2>1, <2>3
<1>16. CASE UNCHANGED vars
  BY <1>2, <1>3, <1>5, <1>6, <1>16 DEF vars, callVars
<1>17. Cleared(c) => pc[c] # "waiting"
  BY DEF Cleared
<1> QED
  BY <1>6, <1>7, <1>8, <1>9, <1>10, <1>11, <1>13, <1>14, <1>15, <1>16, <1>17 DEF Next

LEMMA StepRemembered == CallsInv /\ [Next]_vars => RememberedOK'
<1> SUFFICES ASSUME CallsInv, [Next]_vars PROVE RememberedOK'
  OBVIOUS
<1>1. /\ TypeOK /\ ProcessOK /\ CallersOK /\ TaskOK /\ BornOK /\ RememberedOK
      /\ CallTypes /\ RestTypes
  BY TypeParts DEF CallsInv
<1>2. /\ \A p \in Principals :
           Elements(sessions[p]) \subseteq remembered /\ Elements(disk[p]) \subseteq remembered
      /\ \A c \in Calls : Cleared(c) => session[c] \in remembered
      /\ \A s \in SessionIds : prompts[s] # {} => s \in remembered
  BY <1>1 DEF RememberedOK
<1>3. ASSUME task.stage # "none"
      PROVE  /\ task.who \in Principals /\ task.id \in SessionIds /\ env # None
             /\ \A p \in Principals : Elements(Remembered(task.who, task.id)[p])
                                        \subseteq remembered \cup {task.id}
             /\ task.stage = "saved" => task.id \in remembered
  <2>1. task.who \in Principals /\ task.id \in SessionIds /\ env # None
    BY <1>1, <1>3, TaskType, TaskRuns
  <2>2. \A p \in Principals :
          Elements(Remembered(task.who, task.id)[p]) \subseteq Elements(sessions[p])
            \cup (IF p = task.who THEN {task.id} ELSE {})
    BY <1>1, <2>1, RememberedElements
  <2>3. task.stage = "saved" => task.id \in remembered
    BY <1>1 DEF TaskOK
  <2> QED
    BY <1>2, <2>1, <2>2, <2>3
<1>4. ASSUME NEW c \in Calls, Remember(c)
      PROVE  /\ caller[c].who \in Principals /\ session[c] \in SessionIds /\ env # None
             /\ \A p \in Principals : Elements(Remembered(caller[c].who, session[c])[p])
                                        \subseteq remembered \cup {session[c]}
  <2>1. pc[c] = "created"
    BY <1>4 DEF Remember
  <2>2. caller[c].who \in Principals /\ session[c] \in SessionIds /\ env # None
    BY <1>1, <2>1, CallerKnown DEF BornOK, Addressed
  <2> QED
    BY <1>1, <1>2, <2>2, RememberedElements
\* remembered only grows.
<1>5. remembered \subseteq remembered'
  <2>1. CASE Save
    BY <2>1 DEF Save
  <2>2. ASSUME NEW c \in Calls, Remember(c) PROVE remembered \subseteq remembered'
    BY <2>2 DEF Remember
  <2>3. ASSUME NEW c \in Calls,
               \/ \E request \in Requests : Arrive(c, request)
               \/ Admit(c) \/ CheckOwner(c) \/ Create(c) \/ Send(c)
               \/ Answered(c) \/ Finish(c) \/ Leave(c)
        PROVE  remembered' = remembered
    BY <2>3 DEF Arrive, Admit, CheckOwner, Create, Send, Answered, Finish, Leave
  <2>4. CASE (\E e \in EnvNames : Start(e)) \/ Stop \/ SaveFails \/ Publish \/ UNCHANGED vars
    BY <2>4 DEF Start, Stop, SaveFails, Publish, vars
  <2> QED
    BY <2>1, <2>2, <2>3, <2>4 DEF Next
<1>6. \A p \in Principals :
        Elements(sessions'[p]) \subseteq remembered' /\ Elements(disk'[p]) \subseteq remembered'
  <2>1. ASSUME NEW e \in EnvNames, Start(e),  NEW p \in Principals
        PROVE  Elements(sessions'[p]) \subseteq remembered'
                 /\ Elements(disk'[p]) \subseteq remembered'
    <3>1. /\ disk' = disk
          /\ sessions'[p] = IF Configs[e].durable
                            THEN DropOldest(disk[p], Configs[e].maxSessions) ELSE <<>>
      BY <2>1 DEF Start
    <3>2. Elements(<<>>) = {}
      BY DEF Elements
    <3>3. disk[p] \in Seq(SessionIds) /\ Configs[e].maxSessions \in Nat
      BY <1>1, <2>1, AcceptedNumbers DEF Start, RestTypes, Histories
    <3>4. Elements(DropOldest(disk[p], Configs[e].maxSessions)) \subseteq Elements(disk[p])
      BY <3>3, DropOldestElements
    <3> QED
      BY <1>2, <1>5, <3>1, <3>2, <3>4
  <2>2. CASE Stop
    <3>1. disk' = disk /\ \A p \in Principals : sessions'[p] = <<>>
      BY <2>2 DEF Stop
    <3>2. Elements(<<>>) = {}
      BY DEF Elements
    <3> QED
      BY <1>2, <1>5, <3>1, <3>2
  <2>3. CASE Save
    BY <1>2, <1>3, <2>3 DEF Save
  <2>4. CASE Publish
    BY <1>2, <1>3, <2>4 DEF Publish
  <2>5. ASSUME NEW c \in Calls, Remember(c)
        PROVE  \A p \in Principals : /\ Elements(sessions'[p]) \subseteq remembered'
                                     /\ Elements(disk'[p]) \subseteq remembered'
    BY <1>2, <1>4, <2>5 DEF Remember
  <2>6. ASSUME NEW c \in Calls,
               \/ \E request \in Requests : Arrive(c, request)
               \/ Admit(c) \/ CheckOwner(c) \/ Create(c) \/ Send(c)
               \/ Answered(c) \/ Finish(c) \/ Leave(c)
        PROVE  sessions' = sessions /\ disk' = disk
    BY <2>6 DEF Arrive, Admit, CheckOwner, Create, Send, Answered, Finish, Leave
  <2>7. CASE SaveFails \/ UNCHANGED vars
    BY <1>2, <1>5, <2>7 DEF SaveFails, vars
  <2> QED
    BY <1>2, <1>5, <2>1, <2>2, <2>3, <2>4, <2>5, <2>6, <2>7 DEF Next
<1>7. ASSUME NEW c \in Calls, Cleared(c)' PROVE session'[c] \in remembered'
  <2>1. /\ session'[c] = session[c]
        /\ \/ Cleared(c) /\ ~(Publish /\ c = task.for)
           \/ CheckOwner(c)
           \/ Remember(c) /\ ~config.durable
           \/ Publish /\ c = task.for
    BY <1>7, NewlyCleared
  <2>2. CASE Cleared(c)
    BY <1>2, <1>5, <2>1, <2>2
  <2>3. CASE CheckOwner(c)
    <3>1. caller[c].who \in Principals /\ session[c] \in Elements(sessions[caller[c].who])
      BY <1>1, <2>3, CallerKnown DEF CheckOwner, OwnsSession, Go
    <3> QED
      BY <1>2, <1>5, <2>1, <3>1
  <2>4. CASE Remember(c) /\ ~config.durable
    BY <2>1, <2>4 DEF Remember
  <2>5. CASE Publish /\ c = task.for
    <3>1. session[c] = task.id
      BY <1>1, <2>5, NoneApart DEF TaskOK
    <3>2. task.id \in remembered
      BY <1>1, <2>5 DEF Publish, TaskOK
    <3> QED
      BY <1>5, <2>1, <3>1, <3>2
  <2> QED
    BY <2>1, <2>2, <2>3, <2>4, <2>5
<1>8. \A s \in SessionIds : prompts'[s] # {} => s \in remembered'
  <2>1. ASSUME NEW c \in Calls, Send(c)
        PROVE  \A s \in SessionIds : prompts'[s] # {} => s \in remembered'
    <3>1. /\ prompts' = [prompts EXCEPT ![session[c]] = @ \cup {caller[c].who}]
          /\ pc[c] = "sending"
      BY <2>1 DEF Send, Go
    <3>2. session[c] \in remembered
      BY <1>2, <3>1 DEF Cleared
    <3> QED
      BY <1>1, <1>2, <1>5, <3>1, <3>2 DEF RestTypes
  <2>2. ASSUME NEW c \in Calls,
               \/ \E request \in Requests : Arrive(c, request)
               \/ Admit(c) \/ CheckOwner(c) \/ Create(c) \/ Remember(c)
               \/ Answered(c) \/ Finish(c) \/ Leave(c)
        PROVE  prompts' = prompts
    BY <2>2 DEF Arrive, Admit, CheckOwner, Create, Remember, Answered, Finish, Leave
  <2>3. CASE \/ \E e \in EnvNames : Start(e)
             \/ Stop \/ Save \/ SaveFails \/ Publish \/ UNCHANGED vars
    BY <1>2, <1>5, <2>3 DEF Start, Stop, Save, SaveFails, Publish, vars
  <2> QED
    BY <1>2, <1>5, <2>1, <2>2, <2>3 DEF Next
<1> QED
  BY <1>6, <1>7, <1>8 DEF RememberedOK

\* The steps that change a history, and what the others leave as it is.
LEMMA HistorySteps ==
  ASSUME TypeOK, [Next]_vars
  PROVE  \/ \E e \in EnvNames : Start(e)
         \/ Stop \/ Save \/ Publish
         \/ \E c \in Calls : Remember(c)
         \/ /\ sessions' = sessions /\ disk' = disk /\ env' = env
            /\ task'.stage = "saved" <=> task.stage = "saved"
            /\ task.stage = "saved" => task'.who = task.who /\ task'.id = task.id
<1>1. ASSUME NEW c \in Calls,
             \/ \E request \in Requests : Arrive(c, request)
             \/ Admit(c) \/ CheckOwner(c) \/ Create(c) \/ Send(c)
             \/ Answered(c) \/ Finish(c)
      PROVE  sessions' = sessions /\ disk' = disk /\ env' = env /\ task' = task
  BY <1>1 DEF Arrive, Admit, CheckOwner, Create, Send, Answered, Finish
<1>2. ASSUME NEW c \in Calls, Leave(c)
      PROVE  /\ sessions' = sessions /\ disk' = disk /\ env' = env
             /\ task'.stage = task.stage
             /\ task.stage = "saved" => task'.who = task.who /\ task'.id = task.id
  <2>1. sessions' = sessions /\ disk' = disk /\ env' = env /\ task' = Detached(c)
    BY <1>2 DEF Leave
  <2>2. CASE task.for = c
    <3>1. task \in TaskSet
      BY <2>2, NoneApart DEF TypeOK, NoTask
    <3>2. task' = [task EXCEPT !.for = None]
      BY <2>1, <2>2 DEF Detached
    <3> QED
      BY <2>1, <3>1, <3>2 DEF TaskSet
  <2>3. CASE task.for # c
    BY <2>1, <2>3 DEF Detached
  <2> QED
    BY <2>2, <2>3
<1>3. CASE SaveFails
  BY <1>3 DEF SaveFails, NoTask
<1>4. CASE UNCHANGED vars
  BY <1>4 DEF vars
<1> QED
  BY <1>1, <1>2, <1>3, <1>4 DEF Next

LEMMA StepInStep == CallsInv /\ [Next]_vars => InStep'
<1> SUFFICES ASSUME CallsInv, [Next]_vars, env' # None PROVE InStep'
  BY DEF InStep
<1>1. /\ TypeOK /\ ProcessOK /\ CallersOK /\ TaskOK /\ BornOK /\ InStep
      /\ CallTypes /\ RestTypes
  BY TypeParts DEF CallsInv
<1>2. ASSUME env' = env PROVE config' = config
  BY <1>2 DEF config
<1>3. ASSUME env' = env
      PROVE  /\ config' = config /\ env # None
             /\ \A p \in Principals : Len(sessions[p]) <= config.maxSessions
             /\ config.durable =>
                  IF task.stage = "saved" THEN disk = Remembered(task.who, task.id)
                  ELSE \A p \in Principals :
                         sessions[p] = DropOldest(disk[p], config.maxSessions)
  BY <1>1, <1>2, <1>3 DEF InStep
\* Histories within the limit that are those of the state file.
<1>4. ASSUME config' = config, env' = env, sessions' = disk', task'.stage # "saved",
             \A p \in Principals : Len(sessions'[p]) <= config.maxSessions
      PROVE  InStep'
  <2>1. \A p \in Principals : sessions'[p] = DropOldest(disk'[p], config.maxSessions)
    <3> SUFFICES ASSUME NEW p \in Principals
                 PROVE  sessions'[p] = DropOldest(disk'[p], config.maxSessions)
      OBVIOUS
    <3>1. Len(disk'[p]) <= config.maxSessions
      BY <1>4
    <3>2. ~(Len(disk'[p]) > config.maxSessions)
      <4>1. TypeOK'
        BY StepType
      <4>2. Len(disk'[p]) \in Nat /\ config.maxSessions \in Nat
        BY <1>1, <1>3, <1>4, <4>1, ConfigKnown DEF TypeOK, Histories
      <4> QED
        BY <3>1, <4>2
    <3> QED
      BY <1>4, <3>2 DEF DropOldest
  <2> QED
    BY <1>4, <2>1 DEF InStep
<1>5. ASSUME task.stage # "none"
      PROVE  task.who \in Principals /\ task.id \in SessionIds /\ env # None
  BY <1>1, <1>5, TaskType, TaskRuns
<1>6. ASSUME NEW e \in EnvNames, Start(e) PROVE InStep'
  <2>1. /\ env' = e /\ config' = Configs[e] /\ disk' = disk /\ task' = task
        /\ \A p \in Principals :
             sessions'[p] = IF Configs[e].durable
                            THEN DropOldest(disk[p], Configs[e].maxSessions) ELSE <<>>
    BY <1>6 DEF Start, config
  <2>2. task.stage # "saved"
    BY <1>1, <1>6 DEF Start, ProcessOK, NoTask
  <2>3. Configs[e].maxSessions \in Nat
    BY <1>6, AcceptedNumbers DEF Start
  <2>4. \A p \in Principals : Len(sessions'[p]) <= Configs[e].maxSessions
    <3> SUFFICES ASSUME NEW p \in Principals
                 PROVE  Len(sessions'[p]) <= Configs[e].maxSessions
      OBVIOUS
    <3>1. Len(<<>>) = 0
      OBVIOUS
    <3>2. Len(DropOldest(disk[p], Configs[e].maxSessions)) <= Configs[e].maxSessions
      BY <1>1, <2>3, DropOldestType DEF RestTypes, Histories
    <3> QED
      BY <2>1, <2>3, <3>1, <3>2
  <2> QED
    BY <2>1, <2>2, <2>4 DEF InStep
<1>7. CASE Stop
  BY <1>7 DEF Stop
<1>8. CASE Save
  <2>1. /\ env' = env /\ sessions' = sessions /\ disk' = Remembered(task.who, task.id)
        /\ task.stage = "saving" /\ task' = [task EXCEPT !.stage = "saved"]
    BY <1>8 DEF Save
  <2>2. task'.stage = "saved" /\ task'.who = task.who /\ task'.id = task.id
    <3>1. task \in TaskSet
      BY <1>1, <2>1, TaskType
    <3> QED
      BY <2>1, <3>1 DEF TaskSet
  <2>3. config' = config
    BY <1>2, <2>1
  <2>4. disk' = Remembered(task.who, task.id)'
    BY <2>1, <2>2, <2>3 DEF Remembered
  <2> QED
    BY <1>3, <2>1, <2>2, <2>3, <2>4 DEF InStep
<1>9. CASE Publish
  <2>1. /\ env' = env /\ disk' = disk /\ sessions' = Remembered(task.who, task.id)
        /\ task.stage = "saved" /\ task' = NoTask
    BY <1>9 DEF Publish
  <2>2. task.who \in Principals /\ task.id \in SessionIds
    BY <1>5, <2>1
  <2>3. \A p \in Principals : Len(sessions'[p]) <= config.maxSessions
    BY <1>1, <1>3, <2>1, <2>2, RememberedElements
  <2>4. task'.stage # "saved"
    BY <2>1 DEF NoTask
  <2>5. config' = config
    BY <1>2, <2>1
  <2>6. CASE config.durable
    BY <1>3, <1>4, <2>1, <2>3, <2>4, <2>5, <2>6
  <2>7. CASE ~config.durable
    BY <2>3, <2>5, <2>7 DEF InStep
  <2> QED
    BY <2>6, <2>7
<1>10. ASSUME NEW c \in Calls, Remember(c) PROVE InStep'
  <2>1. pc[c] = "created" /\ env' = env /\ disk' = disk /\ task = NoTask
    BY <1>10 DEF Remember
  <2>2. config' = config
    BY <1>2, <2>1
  <2>3. task.stage # "saved"
    BY <2>1 DEF NoTask
  <2>4. CASE config.durable
    <3>1. /\ sessions' = sessions
          /\ task' = [for |-> c, who |-> caller[c].who, id |-> session[c],
                      stage |-> "saving"]
      BY <1>10, <2>4 DEF Remember
    <3>2. task'.stage # "saved"
      BY <3>1
    <3> QED
      BY <1>3, <2>1, <2>2, <2>3, <3>1, <3>2 DEF InStep
  <2>5. CASE ~config.durable
    <3>1. sessions' = Remembered(caller[c].who, session[c])
      BY <1>10, <2>5 DEF Remember
    <3>2. caller[c].who \in Principals /\ session[c] \in SessionIds
      BY <1>1, <2>1, CallerKnown DEF BornOK, Addressed
    <3>3. \A p \in Principals : Len(sessions'[p]) <= config.maxSessions
      BY <1>1, <1>3, <2>1, <3>1, <3>2, RememberedElements
    <3> QED
      BY <2>2, <2>5, <3>3 DEF InStep
  <2> QED
    BY <2>4, <2>5
<1>11. CASE /\ sessions' = sessions /\ disk' = disk /\ env' = env
            /\ task'.stage = "saved" <=> task.stage = "saved"
            /\ task.stage = "saved" => task'.who = task.who /\ task'.id = task.id
  <2>1. config' = config
    BY <1>2, <1>11
  <2>2. task.stage = "saved" =>
          Remembered(task.who, task.id)' = Remembered(task.who, task.id)
    BY <1>11, <2>1 DEF Remembered
  <2> QED
    BY <1>3, <1>11, <2>1, <2>2 DEF InStep
<1> QED
  BY <1>1, <1>6, <1>7, <1>8, <1>9, <1>10, <1>11, HistorySteps

\* What the state file keeps, a save keeps too: it writes what the memory has, which
\* is what the file has, up to the limit.
LEMMA SaveKeeps ==
  ASSUME CallsInv, [Next]_vars, env # None, env' = env, config.durable
  PROVE  \A who \in Principals, id \in SessionIds :
           Kept(who, id) => \/ id \in Elements(disk'[who])
                            \/ Len(disk'[who]) >= config.maxSessions
<1> SUFFICES ASSUME NEW who \in Principals, NEW id \in SessionIds, Kept(who, id)
             PROVE  \/ id \in Elements(disk'[who])
                    \/ Len(disk'[who]) >= config.maxSessions
  OBVIOUS
<1>1. TypeOK /\ ProcessOK /\ InStep /\ RestTypes
  BY TypeParts DEF CallsInv
<1>2. config' = config /\ config.maxSessions \in Nat \ {0}
  BY <1>1, ConfigKnown DEF config
<1>3. CASE Save
  <2>1. disk' = Remembered(task.who, task.id) /\ task.stage = "saving"
    BY <1>3 DEF Save
  <2>2. task.who \in Principals /\ task.id \in SessionIds
    BY <1>1, <2>1, TaskType
  <2>3. sessions[who] = DropOldest(disk[who], config.maxSessions)
    BY <1>1, <2>1 DEF InStep
  <2>4. disk[who] \in Seq(SessionIds) /\ Len(disk[who]) \in Nat
    BY <1>1 DEF RestTypes, Histories
  <2>5. id \in Elements(sessions[who]) \/ Len(sessions[who]) >= config.maxSessions
    <3>1. CASE sessions[who] = disk[who]
      BY <3>1 DEF Kept
    <3>2. CASE Len(sessions[who]) = config.maxSessions
      BY <1>2, <3>2
    <3> QED
      BY <1>2, <2>3, <2>4, <3>1, <3>2, DropOldestElements
  <2>6. /\ Len(disk'[who]) >= config.maxSessions
             \/ Elements(sessions[who]) \subseteq Elements(disk'[who])
        /\ Len(sessions[who]) >= config.maxSessions =>
             Len(disk'[who]) >= config.maxSessions
    BY ZenonT(30), <1>1, <2>1, <2>2, RememberedElements
  <2> QED
    BY <1>2, <2>5, <2>6 DEF Kept
<1>4. CASE disk' = disk
  BY <1>2, <1>4 DEF Kept
<1>5. ASSUME NEW e \in EnvNames, Start(e) PROVE disk' = disk
  BY <1>5 DEF Start
<1>6. ASSUME NEW c \in Calls, Remember(c) PROVE disk' = disk
  BY <1>6 DEF Remember
<1>7. CASE Stop \/ Publish
  BY <1>4, <1>7 DEF Stop, Publish
<1> QED
  BY <1>1, <1>3, <1>4, <1>5, <1>6, <1>7, HistorySteps

LEMMA StepKept == CallsInv /\ [Next]_vars => (env' # None => KeptOK')
<1> SUFFICES ASSUME CallsInv, [Next]_vars, env' # None,
                    NEW c \in Calls, Cleared(c)', config'.durable
             PROVE  Kept(caller[c].who, session[c])'
  BY DEF KeptOK
<1>1. /\ TypeOK /\ ProcessOK /\ CallersOK /\ TaskOK /\ BornOK /\ InStep
      /\ CallTypes /\ RestTypes
      /\ env # None => KeptOK
  BY TypeParts DEF CallsInv
<1>2. /\ session'[c] = session[c] /\ caller'[c] = caller[c] /\ env' = env /\ env # None
      /\ \/ Cleared(c) /\ ~(Publish /\ c = task.for)
         \/ CheckOwner(c)
         \/ Remember(c) /\ ~config.durable
         \/ Publish /\ c = task.for
  BY NewlyCleared
<1>3. config' = config
  BY <1>2 DEF config
<1>4. Kept(caller[c].who, session[c])'
        <=> \/ session[c] \in Elements(disk'[caller[c].who])
            \/ Len(disk'[caller[c].who]) >= config.maxSessions
  BY <1>2, <1>3 DEF Kept
<1>5. CASE Cleared(c)
  <2>1. caller[c].who \in Principals /\ session[c] \in SessionIds
    BY <1>1, <1>5, CallerKnown DEF Cleared, Addressed, BornOK
  <2>2. Kept(caller[c].who, session[c])
    BY <1>1, <1>2, <1>3, <1>5 DEF KeptOK
  <2> QED
    BY <1>2, <1>3, <1>4, <2>1, <2>2, SaveKeeps
<1>6. CASE CheckOwner(c)
  <2>1. /\ caller[c].who \in Principals /\ session[c] \in SessionIds
        /\ session[c] \in Elements(sessions[caller[c].who])
        /\ disk' = disk
    BY <1>1, <1>6, CallerKnown DEF CheckOwner, OwnsSession, Go, CallTypes
  <2> DEFINE who == caller[c].who
  <2>2. /\ config.durable /\ config.maxSessions \in Nat
        /\ disk[who] \in Seq(SessionIds) /\ Len(disk[who]) \in Nat
    BY <1>1, <1>2, <1>3, <2>1, ConfigKnown DEF RestTypes, Histories
  <2>3. CASE task.stage = "saved"
    <3>1. task.who \in Principals /\ task.id \in SessionIds
      BY <1>1, <2>3, TaskType
    <3>2. disk = Remembered(task.who, task.id)
      BY <1>1, <1>2, <2>2, <2>3 DEF InStep
    <3>3. Len(disk[who]) >= config.maxSessions \/ Elements(sessions[who]) \subseteq Elements(disk[who])
      BY <1>1, <1>2, <2>1, <3>1, <3>2, RememberedElements
    <3> QED
      BY <1>4, <2>1, <3>3
  <2>4. CASE task.stage # "saved"
    <3>1. sessions[who] = DropOldest(disk[who], config.maxSessions)
      BY <1>1, <1>2, <2>1, <2>2, <2>4 DEF InStep
    <3>2. Elements(sessions[who]) \subseteq Elements(disk[who])
      BY <2>2, <3>1, DropOldestElements
    <3> QED
      BY <1>4, <2>1, <3>2
  <2> QED
    BY <2>3, <2>4
<1>7. CASE Publish /\ c = task.for
  <2>1. task.stage = "saved" /\ disk' = disk /\ config.durable
    BY <1>3, <1>7 DEF Publish
  <2>2. /\ task.who \in Principals /\ task.id \in SessionIds
        /\ session[c] = task.id /\ caller[c].who = task.who
    BY <1>1, <1>7, <2>1, TaskType, NoneApart DEF TaskOK
  <2>3. disk = Remembered(task.who, task.id)
    BY <1>1, <1>2, <2>1 DEF InStep
  <2>4. task.id \in Elements(disk[task.who])
    BY <1>1, <1>2, <2>2, <2>3, RememberedElements
  <2> QED
    BY <1>4, <2>1, <2>2, <2>4
<1> QED
  BY <1>2, <1>3, <1>5, <1>6, <1>7

-----------------------------------------------------------------------------
(* The theorems *)

LEMMA InitCalls == Init => CallsInv
<1> SUFFICES ASSUME Init PROVE CallsInv
  OBVIOUS
<1>1. TypeOK
  BY InitType
<1>2. /\ env = None /\ task = NoTask /\ remembered = {}
      /\ \A c \in Calls : pc[c] = "idle" /\ caller[c] = Nobody
      /\ \A p \in Principals : sessions[p] = <<>> /\ disk[p] = <<>>
      /\ \A s \in SessionIds : prompts[s] = {}
  BY DEF Init
<1>3. \A c \in Calls : ~Addressed(c) /\ ~Cleared(c)
  BY <1>2 DEF Addressed, Cleared
<1>4. ProcessOK /\ CallersOK /\ AnswersOK
  BY <1>2 DEF ProcessOK, CallersOK, AnswersOK
<1>5. TaskOK
  BY <1>2 DEF TaskOK, NoTask
<1>6. Elements(<<>>) = {}
  BY DEF Elements
<1>7. BornOK
  BY <1>2, <1>3, <1>6 DEF BornOK, OnlyCreatorPrompts
<1>8. RememberedOK
  BY <1>2, <1>3, <1>6 DEF RememberedOK
<1>9. InStep
  BY <1>2 DEF InStep
<1> QED
  BY <1>1, <1>2, <1>4, <1>5, <1>7, <1>8, <1>9 DEF CallsInv

\* The invariant holds through restarts under other environments, failed saves,
\* abandoned transactions and calls that end anywhere.
THEOREM CallsInvariant == Spec => []CallsInv
<1>1. CallsInv /\ [Next]_vars => CallsInv'
  <2>1. CallsInv' <=>
          /\ TypeOK' /\ ProcessOK' /\ CallersOK' /\ AnswersOK' /\ TaskOK' /\ BornOK'
          /\ RememberedOK' /\ InStep'
          /\ env' # None => KeptOK'
    BY DEF CallsInv
  <2> QED
    BY <2>1, StepType, StepProcess, StepCallers, StepAnswers, StepTask, StepBorn,
       StepRemembered, StepInStep, StepKept
<1> QED
  BY <1>1, InitCalls, PTL DEF Spec

\* A prompt reaches only a session that was created for its sender.
THEOREM CreatorPrompts == Spec => []OnlyCreatorPrompts
<1>1. CallsInv => OnlyCreatorPrompts
  BY DEF CallsInv, BornOK
<1> QED
  BY <1>1, CallsInvariant, PTL

\* No message before the ownership is saved; no answer that names a session which
\* the state file could keep and does not.
THEOREM SavedBeforeUse == Spec => []OwnershipBeforeUse
<1>1. ASSUME CallsInv PROVE OwnershipBeforeUse
  <2>1. \A s \in SessionIds : prompts[s] # {} => s \in remembered
    BY <1>1 DEF CallsInv, RememberedOK
  <2>2. ASSUME NEW c \in Calls, pc[c] = "answered", tool[c] = "bridge_prompt",
               config.durable
        PROVE  \/ session[c] \in Elements(disk[caller[c].who])
               \/ Len(disk[caller[c].who]) >= config.maxSessions
    <3>1. env # None
      BY <1>1, <2>2 DEF CallsInv, ProcessOK
    <3> QED
      BY <1>1, <2>2, <3>1 DEF CallsInv, KeptOK, Kept, Cleared
  <2> QED
    BY <2>1, <2>2 DEF OwnershipBeforeUse
<1> QED
  BY <1>1, CallsInvariant, PTL

\* The variables that a child process gets by default hold no secret.
LEMMA DefaultsHoldNoSecret ==
  ASSUME NEW profile, NEW name \in DefaultChildEnv(profile)
  PROVE  ~IsSecretEnvName(name)
<1>1. PICK n : name = <<n>> /\ n \notin SecretParts /\ n \notin SecretPrefixes
  BY DEF DefaultChildEnv, SecretParts, SecretPrefixes
<1>2. DOMAIN name = {1} /\ name[1] = n
  BY <1>1
<1> QED
  BY <1>1, <1>2 DEF IsSecretEnvName

\* No call without credentials where there are any to ask for, or anybody else to
\* come; no secret in the environment of a child; no number out of its range.
THEOREM StartsSafely == Spec => []StartedSafely
<1>1. ASSUME CallsInv PROVE StartedSafely
  <2>1. TypeOK /\ ProcessOK /\ CallersOK
    BY <1>1 DEF CallsInv
  <2>2. ASSUME NEW c \in Calls, caller[c].how = "anonymous"
        PROVE  config.tokens = <<>> /\ ~config.oauth /\ config.loopbackHost
    <3>1. pc[c] # "idle"
      BY <2>1, <2>2 DEF CallersOK, Nobody
    <3> QED
      BY <2>1, <2>2, <3>1, CallerKnown
  <2>3. ASSUME env # None
        PROVE  /\ \A name \in config.childEnv : ~IsSecretEnvName(name)
               /\ config.maxSessions \in Nat \ {0} /\ config.maxSessions <= 10000
    <3>1. /\ config = Configs[env] /\ env \in EnvNames
          /\ Acceptable(Environments[env]) /\ config.maxSessions \in Room
      BY <2>1, <2>3, ConfigKnown
    <3>2. config.childEnv = DefaultChildEnv(Profile(Environments[env]))
                              \cup Environments[env].childEnvAllow
      BY <3>1 DEF Configs, Config
    <3>3. \A name \in Environments[env].childEnvAllow : ~IsSecretEnvName(name)
      BY <3>1 DEF Acceptable
    <3>4. \A name \in config.childEnv : ~IsSecretEnvName(name)
      BY <3>2, <3>3, DefaultsHoldNoSecret
    <3>5. config.maxSessions \in Nat \ {0} /\ config.maxSessions <= 10000
      BY <3>1 DEF Room
    <3> QED
      BY <3>4, <3>5
  <2> QED
    BY <2>2, <2>3 DEF StartedSafely
<1> QED
  BY <1>1, CallsInvariant, PTL

-----------------------------------------------------------------------------
(* What a call returns: the loops of BoundedTexts, for bodies, texts and search
   results of any length *)

\* Induction up to `last`, on the set of the numbers for which a claim holds.
LEMMA UpwardInduction ==
  ASSUME NEW last \in Nat, NEW Holds,
         0 \in Holds, \A n \in 1..last : n - 1 \in Holds => n \in Holds
  PROVE  0..last \subseteq Holds
<1> DEFINE Fails == (0..last) \ Holds
<1> SUFFICES ASSUME Fails # {} PROVE FALSE
  OBVIOUS
<1>1. PICK m \in Fails : \A n \in Fails : m <= n
  <2>1. Fails \in SUBSET Nat
    OBVIOUS
  <2> HIDE DEF Fails
  <2> QED
    BY <2>1, LeastNatural
<1>2. m \in 1..last /\ m - 1 \in 0..last
  BY <1>1
<1>3. m - 1 \in Holds
  BY <1>1, <1>2
<1> QED
  BY <1>1, <1>2, <1>3

\* f has what the rounds 0 to n of a recursion leave.
Recursion(f, start, step, n) ==
  /\ f[0] = start
  /\ \A i \in 1..n : f[i] = step[<<f[i - 1], i>>]

\* A recursion whose step is a function has a solution.
LEMMA RecursionExists ==
  ASSUME NEW S, NEW start \in S, NEW last \in Nat,
         NEW step \in [S \X (1..last) -> S]
  PROVE  \E f \in [0..last -> S] : Recursion(f, start, step, last)
<1> DEFINE Holds == {n \in 0..last : \E f \in [0..n -> S] : Recursion(f, start, step, n)}
<1>1. 0 \in Holds
  <2> DEFINE f == [i \in 0..0 |-> start]
  <2>1. f \in [0..0 -> S] /\ f[0] = start
    OBVIOUS
  <2> HIDE DEF f
  <2>2. Recursion(f, start, step, 0)
    BY <2>1 DEF Recursion
  <2> QED
    BY <2>1, <2>2
<1>2. ASSUME NEW n \in 1..last, n - 1 \in Holds
      PROVE  n \in Holds
  <2>0. n \in Nat /\ n >= 1 /\ n <= last /\ n - 1 \in Nat
    OBVIOUS
  <2>1. PICK f \in [0..(n - 1) -> S] : Recursion(f, start, step, n - 1)
    BY <1>2
  <2> HIDE DEF Holds
  <2> DEFINE g == [i \in 0..n |-> IF i = n THEN step[<<f[n - 1], n>>] ELSE f[i]]
  <2>2. f[n - 1] \in S
    BY <2>0, <2>1
  <2>3. step[<<f[n - 1], n>>] \in S
    BY <2>2
  <2>4. g \in [0..n -> S]
    BY <2>0, <2>1, <2>3
  <2>5. g[0] = start
    BY <2>0, <2>1 DEF Recursion
  <2>6. ASSUME NEW i \in 1..n
        PROVE  g[i] = step[<<g[i - 1], i>>]
    <3>1. g[i - 1] = f[i - 1]
      BY <2>0
    <3>2. CASE i = n
      BY SMTT(30), <3>1, <3>2
    <3>3. CASE i # n
      <4>1. g[i] = f[i] /\ i \in 1..(n - 1)
        BY <2>0, <3>3
      <4> QED
        BY <2>1, <3>1, <4>1 DEF Recursion
    <3> QED
      BY <3>2, <3>3
  <2> HIDE DEF g
  <2>7. Recursion(g, start, step, n)
    BY <2>5, <2>6 DEF Recursion
  <2> QED
    BY <2>0, <2>4, <2>7 DEF Holds
<1>3. last \in Holds
  <2> HIDE DEF Holds
  <2>1. 0..last \subseteq Holds
    BY <1>1, <1>2, UpwardInduction
  <2> QED
    BY <2>1
<1> QED
  BY <1>3

\* The sums of all prefixes. What Total, and each loop after it, defines by recursion
\* is the last value of a function like this one.
SumOf(sizes) ==
  CHOOSE f : f = [n \in 0..Len(sizes) |-> IF n = 0 THEN 0 ELSE f[n - 1] + sizes[n]]

LEMMA SumFacts ==
  ASSUME NEW sizes \in Seq(Nat)
  PROVE  /\ SumOf(sizes) \in [0..Len(sizes) -> Nat] /\ SumOf(sizes)[0] = 0
         /\ \A n \in 1..Len(sizes) : SumOf(sizes)[n] = SumOf(sizes)[n - 1] + sizes[n]
<1> DEFINE step == [x \in Nat \X (1..Len(sizes)) |-> x[1] + sizes[x[2]]]
           P(f) == f = [n \in 0..Len(sizes) |-> IF n = 0 THEN 0 ELSE f[n - 1] + sizes[n]]
           f0 == SumOf(sizes)
<1>1. step \in [Nat \X (1..Len(sizes)) -> Nat] /\ Len(sizes) \in Nat
  OBVIOUS
<1>2. PICK f \in [0..Len(sizes) -> Nat] : Recursion(f, 0, step, Len(sizes))
  <2> HIDE DEF step
  <2> QED BY <1>1, RecursionExists
<1>3. ASSUME NEW n \in 1..Len(sizes)
      PROVE  f[n] = f[n - 1] + sizes[n]
  <2>0. n - 1 \in 0..Len(sizes)
    BY <1>1
  <2>1. f[n - 1] \in Nat
    BY <1>2, <2>0
  <2>2. step[<<f[n - 1], n>>] = f[n - 1] + sizes[n]
    BY <2>1
  <2> HIDE DEF step
  <2> QED
    BY <1>2, <2>2 DEF Recursion
<1>4. P(f)
  <2> DEFINE g == [n \in 0..Len(sizes) |-> IF n = 0 THEN 0 ELSE f[n - 1] + sizes[n]]
  <2>1. ASSUME NEW n \in 0..Len(sizes) PROVE f[n] = g[n]
    BY <1>2, <1>3 DEF Recursion
  <2> QED
    BY <2>1
<1>5. P(f0)
  BY <1>4 DEF SumOf
<1>6. f0[0] = 0 /\ \A n \in 1..Len(sizes) : f0[n] = f0[n - 1] + sizes[n]
  BY SMTT(30), <1>1, <1>5
<1> DEFINE Holds == {n \in 0..Len(sizes) : f0[n] \in Nat}
<1>7. 0..Len(sizes) \subseteq Holds
  <2>0. Len(sizes) \in Nat
    OBVIOUS
  <2> HIDE DEF f0
  <2>1. 0 \in Holds
    BY <1>1, <1>6
  <2>2. ASSUME NEW n \in 1..Len(sizes), n - 1 \in Holds PROVE n \in Holds
    <3>1. f0[n - 1] \in Nat /\ n \in 0..Len(sizes)
      BY <2>0, <2>2
    <3>2. f0[n] = f0[n - 1] + sizes[n] /\ sizes[n] \in Nat
      BY <1>6
    <3> QED
      BY <3>1, <3>2
  <2> HIDE DEF Holds
  <2> QED
    BY <2>0, <2>1, <2>2, UpwardInduction
<1>8. DOMAIN f0 = 0..Len(sizes) /\ f0 = [n \in DOMAIN f0 |-> f0[n]]
  BY <1>5
<1> QED
  <2> HIDE DEF f0
  <2>1. \A n \in 0..Len(sizes) : f0[n] \in Nat
    BY <1>7
  <2>2. f0 \in [0..Len(sizes) -> Nat]
    BY <1>8, <2>1
  <2> QED
    BY <1>6, <2>2 DEF f0

LEMMA TotalIsSum ==
  ASSUME NEW sizes
  PROVE  Total(sizes) = SumOf(sizes)[Len(sizes)]
BY DEF Total, Loop, SumOf

LEMMA PrefixSum ==
  ASSUME NEW sizes \in Seq(Nat), NEW n \in 0..Len(sizes)
  PROVE  Total(First(n, sizes)) = SumOf(sizes)[n]
<1> DEFINE p == First(n, sizes)
<1>1. p \in Seq(Nat) /\ Len(p) = n /\ \A i \in 1..n : p[i] = sizes[i]
  BY DEF First
<1> HIDE DEF p
<1>2. n \in Nat /\ Len(sizes) \in Nat /\ n <= Len(sizes)
  OBVIOUS
<1> DEFINE Holds == {i \in 0..n : SumOf(p)[i] = SumOf(sizes)[i]}
<1>3. 0 \in Holds
  BY <1>1, <1>2, SumFacts
<1>4. ASSUME NEW i \in 1..n, i - 1 \in Holds PROVE i \in Holds
  <2>1. /\ i \in 1..Len(sizes) /\ i \in 1..Len(p) /\ i \in 0..n
        /\ SumOf(p)[i - 1] = SumOf(sizes)[i - 1] /\ p[i] = sizes[i]
    BY <1>1, <1>2, <1>4
  <2>2. SumOf(p)[i] = SumOf(p)[i - 1] + p[i]
    BY <1>1, <2>1, SumFacts
  <2>3. SumOf(sizes)[i] = SumOf(sizes)[i - 1] + sizes[i]
    BY <2>1, SumFacts
  <2> QED
    BY <2>1, <2>2, <2>3
<1>5. n \in Holds
  <2> HIDE DEF Holds
  <2>1. 0..n \subseteq Holds
    BY <1>2, <1>3, <1>4, UpwardInduction
  <2> QED
    BY <1>2, <2>1
<1> QED
  BY <1>1, <1>5, TotalIsSum DEF p

LEMMA Whole ==
  ASSUME NEW T, NEW s \in Seq(T)
  PROVE  First(Len(s), s) = s
BY SubSeqFull DEF First

\* The sums of the prefixes grow, and strictly if nothing is empty.
LEMMA SumsGrow ==
  ASSUME NEW sizes \in Seq(Nat), NEW m \in 0..Len(sizes), NEW n \in m..Len(sizes)
  PROVE  /\ SumOf(sizes)[m] <= SumOf(sizes)[n]
         /\ sizes \in Seq(Nat \ {0}) => SumOf(sizes)[m] + (n - m) <= SumOf(sizes)[n]
<1>1. m \in Nat /\ Len(sizes) \in Nat /\ n \in Nat /\ m <= n /\ n <= Len(sizes)
  OBVIOUS
<1> DEFINE last == n - m
           Claim(i) == /\ SumOf(sizes)[m] <= SumOf(sizes)[m + i]
                       /\ sizes \in Seq(Nat \ {0}) =>
                            SumOf(sizes)[m] + i <= SumOf(sizes)[m + i]
           Holds == {i \in 0..last : Claim(i)}
<1>2. last \in Nat
  BY <1>1
<1>3. 0 \in Holds
  <2>1. SumOf(sizes)[m] \in Nat /\ m + 0 = m
    <3>1. m \in 0..Len(sizes) /\ SumOf(sizes) \in [0..Len(sizes) -> Nat]
      BY SumFacts
    <3> QED
      BY <1>1, <3>1
  <2> QED
    BY <1>2, <2>1
<1>4. ASSUME NEW i \in 1..last, i - 1 \in Holds PROVE i \in Holds
  <2>1. /\ m + i \in 1..Len(sizes) /\ (m + i) - 1 = m + (i - 1)
        /\ m + (i - 1) \in 0..Len(sizes) /\ i \in 0..last /\ i \in Int
    BY <1>1
  <2>2. /\ SumOf(sizes)[m + i] = SumOf(sizes)[m + (i - 1)] + sizes[m + i]
        /\ SumOf(sizes)[m] \in Nat /\ SumOf(sizes)[m + (i - 1)] \in Nat
    BY <1>1, <2>1, SumFacts
  <2>3. sizes[m + i] \in Nat /\ (sizes \in Seq(Nat \ {0}) => sizes[m + i] >= 1)
    <3>1. sizes[m + i] \in Nat
      BY <2>1
    <3>2. ASSUME sizes \in Seq(Nat \ {0}) PROVE sizes[m + i] \in Nat \ {0}
      BY <2>1, <3>2
    <3> QED
      BY <3>1, <3>2
  <2>4. Claim(i - 1)
    BY <1>4
  <2>5. SumOf(sizes)[m] <= SumOf(sizes)[m + i]
    BY <2>2, <2>3, <2>4
  <2>6. ASSUME sizes \in Seq(Nat \ {0})
        PROVE  SumOf(sizes)[m] + i <= SumOf(sizes)[m + i]
    <3>1. sizes[m + i] \in Nat /\ sizes[m + i] >= 1
      BY <2>3, <2>6
    <3> DEFINE a == SumOf(sizes)[m]
               b == SumOf(sizes)[m + (i - 1)]
               c == sizes[m + i]
    <3>2. a + (i - 1) <= b
      BY <2>4, <2>6
    <3>3. SumOf(sizes)[m + i] = b + c /\ a \in Nat /\ b \in Nat
      BY <2>2
    <3>4. c \in Nat /\ c >= 1 /\ i \in Int
      BY <2>1, <3>1
    <3> HIDE DEF a, b, c
    <3>5. a + i <= b + c
      BY <3>2, <3>3, <3>4
    <3> QED
      BY <3>3, <3>5 DEF a
  <2> QED
    BY <2>1, <2>5, <2>6
<1>5. last \in Holds
  <2> HIDE DEF Holds, last
  <2>1. 0..last \subseteq Holds
    BY <1>2, <1>3, <1>4, UpwardInduction
  <2> QED
    BY <1>2, <2>1
<1>6. m + last = n
  BY <1>1
<1> QED
  BY <1>5, <1>6

-----------------------------------------------------------------------------
(* Bodies *)

\* What read_response_limited has after each of the chunks.
ReadOf(chunks, limit) ==
  CHOOSE f : f = [n \in 0..Len(chunks) |->
                    IF n = 0 THEN [kept |-> 0, cut |-> FALSE]
                    ELSE ReadChunk(limit, f[n - 1], chunks[n])]

LEMMA ReadFacts ==
  ASSUME NEW chunks \in Seq(Nat), NEW limit \in Nat
  PROVE  LET read == ReadOf(chunks, limit) IN
         /\ read[0] = [kept |-> 0, cut |-> FALSE]
         /\ \A n \in 1..Len(chunks) : read[n] = ReadChunk(limit, read[n - 1], chunks[n])
<1> DEFINE S == [kept : 0..limit, cut : BOOLEAN]
           start == [kept |-> 0, cut |-> FALSE]
           last == Len(chunks)
           Round(f, n) == ReadChunk(limit, f[n - 1], chunks[n])
           step == [x \in S \X (1..last) |-> ReadChunk(limit, x[1], chunks[x[2]])]
           Solves(f) == f = [n \in 0..last |-> IF n = 0 THEN start ELSE Round(f, n)]
<1>1. start \in S /\ last \in Nat
  OBVIOUS
<1>2. step \in [S \X (1..last) -> S]
  <2>1. ASSUME NEW x \in S \X (1..last) PROVE ReadChunk(limit, x[1], chunks[x[2]]) \in S
    <3>1. /\ x[1] \in S /\ chunks[x[2]] \in Nat
          /\ x[1].kept \in 0..limit /\ x[1].cut \in BOOLEAN
      OBVIOUS
    <3>2. Least(limit - x[1].kept, chunks[x[2]]) \in 0..(limit - x[1].kept)
      BY <3>1 DEF Least
    <3>3. x[1].kept + Least(limit - x[1].kept, chunks[x[2]]) \in 0..limit
      BY <3>1, <3>2
    <3>4. (Least(limit - x[1].kept, chunks[x[2]]) < chunks[x[2]]) \in BOOLEAN
      OBVIOUS
    <3> QED
      BY <3>1, <3>3, <3>4 DEF ReadChunk
  <2> QED
    BY <2>1
<1>3. PICK f \in [0..last -> S] : Recursion(f, start, step, last)
  <2> HIDE DEF S, start, step
  <2> QED
    BY <1>1, <1>2, RecursionExists
<1>4. ASSUME NEW n \in 1..last PROVE f[n] = Round(f, n)
  <2>1. n - 1 \in 0..last
    BY <1>1
  <2>2. f[n - 1] \in S
    BY <1>3, <2>1
  <2>3. step[<<f[n - 1], n>>] = Round(f, n)
    <3> HIDE DEF S
    <3> QED
      BY <2>2
  <2> QED
    BY <1>3, <2>3 DEF Recursion
<1>5. Solves(f)
  <2> HIDE DEF S, step, start, last, Round
  <2>1. f[0] = start
    BY <1>3 DEF Recursion
  <2>2. ASSUME NEW n \in 0..last PROVE f[n] = IF n = 0 THEN start ELSE Round(f, n)
    <3>1. n = 0 \/ n \in 1..last
      BY <1>1
    <3> QED
      BY <1>4, <2>1, <3>1
  <2> QED
    BY <1>3, <2>2
<1>6. Solves(ReadOf(chunks, limit))
  BY <1>5 DEF ReadOf
<1>7. ASSUME NEW F, Solves(F)
      PROVE  F[0] = start /\ \A n \in 1..last : F[n] = Round(F, n)
  <2>1. last \in Nat
    BY <1>1
  <2> HIDE DEF start, last, Round
  <2>2. 0 \in 0..last /\ \A n \in 1..last : n \in 0..last /\ n # 0
    BY <2>1
  <2> QED
    BY <1>7, <2>2
<1> QED
  BY <1>6, <1>7


LEMMA ReadChunkCases ==
  ASSUME NEW limit, NEW read, read.cut \in BOOLEAN, NEW chunk,
         NEW keep, keep = Least(limit - read.kept, chunk),
         NEW then, then = ReadChunk(limit, read, chunk)
  PROVE  /\ then.cut \in BOOLEAN
         /\ read.cut => then = read
         /\ ~read.cut => /\ then.kept = read.kept + keep
                         /\ then.cut <=> keep < chunk
<1>1. CASE read.cut
  <2>1. then = read
    BY <1>1, Zenon DEF ReadChunk
  <2> QED
    BY <1>1, <2>1
<1>2. CASE ~read.cut
  <2>1. then = [kept |-> read.kept + keep, cut |-> keep < chunk]
    BY <1>2, Zenon DEF ReadChunk
  <2>2. (keep < chunk) \in BOOLEAN
    OBVIOUS
  <2>3. then.kept = read.kept + keep /\ then.cut = (keep < chunk)
    BY <2>1
  <2> QED
    BY <1>2, <2>2, <2>3, Zenon
<1> QED
  BY <1>1, <1>2

\* What has been read after n chunks.
LEMMA ReadSoFar ==
  ASSUME NEW chunks \in Seq(Nat), NEW limit \in Nat, NEW n \in 0..Len(chunks)
  PROVE  LET read == ReadOf(chunks, limit)[n] IN
         /\ read.kept = Least(limit, SumOf(chunks)[n])
         /\ read.cut \in BOOLEAN
         /\ read.cut <=> SumOf(chunks)[n] > limit
<1> DEFINE read == ReadOf(chunks, limit)
           last == Len(chunks)
           sum == SumOf(chunks)
           Claim(i) == /\ read[i].kept = Least(limit, sum[i])
                       /\ read[i].cut \in BOOLEAN
                       /\ read[i].cut <=> sum[i] > limit
           Holds == {i \in 0..last : Claim(i)}
<1>1. last \in Nat /\ sum \in [0..last -> Nat] /\ sum[0] = 0
  BY SumFacts
<1>2. 0 \in Holds
  <2>1. Least(limit, 0) = 0 /\ ~(0 > limit)
    BY DEF Least
  <2>2. read[0] = [kept |-> 0, cut |-> FALSE]
    BY ReadFacts
  <2> HIDE DEF read, sum
  <2>3. Claim(0)
    BY <1>1, <2>1, <2>2
  <2> QED
    BY <1>1, <2>3
<1>3. ASSUME NEW i \in 1..last, i - 1 \in Holds PROVE i \in Holds
  <2> DEFINE s == sum[i - 1]
             c == chunks[i]
             keep == Least(limit - Least(limit, s), c)
  <2>1. i \in 0..last /\ c \in Nat /\ s \in Nat
    <3>1. i \in 0..last /\ i - 1 \in 0..last /\ c \in Nat
      BY <1>1
    <3> HIDE DEF sum, last
    <3>2. s \in Nat
      BY <1>1, <3>1
    <3> QED
      BY <3>1, <3>2
  <2>2. sum[i] = s + c
    BY SumFacts
  <2>3. Claim(i - 1)
    BY <1>3
  <2>4. read[i] = ReadChunk(limit, read[i - 1], c)
    BY ReadFacts
  <2>5. CASE s > limit
    <3>0. read[i - 1].cut \in BOOLEAN /\ read[i - 1].cut
      BY <2>3, <2>5
    <3>1. read[i] = read[i - 1]
      BY <2>4, <3>0, Zenon DEF ReadChunk
    <3>2. Least(limit, s) = Least(limit, s + c) /\ s + c > limit
      BY <2>1, <2>5 DEF Least
    <3> HIDE DEF read, sum, c
    <3> QED
      BY <2>1, <2>2, <2>3, <2>5, <3>1, <3>2
  <2>6. CASE ~(s > limit)
    <3>1. /\ read[i].kept = Least(limit, s) + keep
          /\ read[i].cut \in BOOLEAN
          /\ read[i].cut <=> keep < c
      BY <2>3, <2>4, <2>6, ReadChunkCases
    <3>2. /\ Least(limit, s) + keep = Least(limit, s + c)
          /\ (keep < c) <=> (s + c > limit)
      BY <2>1, <2>6 DEF Least
    <3> HIDE DEF read, sum, c, keep
    <3> QED
      BY <2>1, <2>2, <3>1, <3>2
  <2> QED
    BY <2>5, <2>6
<1>4. 0..last \subseteq Holds
  <2> HIDE DEF Holds, last
  <2> QED
    BY <1>1, <1>2, <1>3, UpwardInduction
<1> QED
  BY <1>4

LEMMA ReadResponseIsLast ==
  ASSUME NEW chunks, NEW limit
  PROVE  ReadResponse(chunks, limit) = ReadOf(chunks, limit)[Len(chunks)]
BY DEF ReadResponse, Loop, ReadOf

\* fetch_client_metadata stops adding once there is too much.
GrowOf(chunks, limit) ==
  CHOOSE f : f = [n \in 0..Len(chunks) |->
                    IF n = 0 THEN 0
                    ELSE IF f[n - 1] > limit THEN f[n - 1] ELSE f[n - 1] + chunks[n]]

LEMMA GrowFacts ==
  ASSUME NEW chunks \in Seq(Nat), NEW limit \in Nat
  PROVE  LET size == GrowOf(chunks, limit) IN
         /\ size[0] = 0
         /\ \A n \in 1..Len(chunks) :
              size[n] = IF size[n - 1] > limit THEN size[n - 1]
                        ELSE size[n - 1] + chunks[n]
<1> DEFINE last == Len(chunks)
           Round(f, n) == IF f[n - 1] > limit THEN f[n - 1] ELSE f[n - 1] + chunks[n]
           step == [x \in Nat \X (1..last) |->
                      IF x[1] > limit THEN x[1] ELSE x[1] + chunks[x[2]]]
           Solves(f) == f = [n \in 0..last |-> IF n = 0 THEN 0 ELSE Round(f, n)]
<1>1. last \in Nat
  OBVIOUS
<1>2. step \in [Nat \X (1..last) -> Nat]
  OBVIOUS
<1>3. PICK f \in [0..last -> Nat] : Recursion(f, 0, step, last)
  <2> HIDE DEF step
  <2> QED
    BY <1>1, <1>2, RecursionExists
<1>4. ASSUME NEW n \in 1..last PROVE f[n] = Round(f, n)
  <2>1. n - 1 \in 0..last
    BY <1>1
  <2>2. f[n - 1] \in Nat
    BY <1>3, <2>1
  <2>3. step[<<f[n - 1], n>>] = Round(f, n)
    BY <2>2
  <2> QED
    BY <1>3, <2>3 DEF Recursion
<1>5. Solves(f)
  <2> HIDE DEF step, last, Round
  <2>1. f[0] = 0
    BY <1>3 DEF Recursion
  <2>2. ASSUME NEW n \in 0..last PROVE f[n] = IF n = 0 THEN 0 ELSE Round(f, n)
    <3>1. n = 0 \/ n \in 1..last
      BY <1>1
    <3> QED
      BY <1>4, <2>1, <3>1
  <2> QED
    BY <1>3, <2>2
<1>6. Solves(GrowOf(chunks, limit))
  BY <1>5 DEF GrowOf
<1>7. ASSUME NEW F, Solves(F)
      PROVE  F[0] = 0 /\ \A n \in 1..last : F[n] = Round(F, n)
  <2>1. last \in Nat
    BY <1>1
  <2> HIDE DEF last, Round
  <2>2. 0 \in 0..last /\ \A n \in 1..last : n \in 0..last /\ n # 0
    BY <2>1
  <2> QED
    BY <1>7, <2>2
<1> QED
  BY <1>6, <1>7

LEMMA GrownSoFar ==
  ASSUME NEW chunks \in Seq(Nat), NEW limit \in Nat, NEW n \in 0..Len(chunks)
  PROVE  GrowOf(chunks, limit)[n] > limit <=> SumOf(chunks)[n] > limit
<1> DEFINE size == GrowOf(chunks, limit)
           last == Len(chunks)
           sum == SumOf(chunks)
           Claim(i) == /\ size[i] \in Nat
                       /\ IF sum[i] > limit THEN size[i] > limit ELSE size[i] = sum[i]
           Holds == {i \in 0..last : Claim(i)}
<1>1. last \in Nat /\ sum \in [0..last -> Nat] /\ sum[0] = 0
  BY SumFacts
<1>2. 0 \in Holds
  <2>1. size[0] = 0
    BY GrowFacts
  <2> HIDE DEF size, sum
  <2>2. Claim(0)
    BY <1>1, <2>1
  <2> QED
    BY <1>1, <2>2
<1>3. ASSUME NEW i \in 1..last, i - 1 \in Holds PROVE i \in Holds
  <2>1. i \in 0..last /\ chunks[i] \in Nat /\ sum[i - 1] \in Nat
    <3>1. i \in 0..last /\ i - 1 \in 0..last /\ chunks[i] \in Nat
      BY <1>1
    <3> HIDE DEF sum
    <3> QED
      BY <1>1, <3>1
  <2>2. sum[i] = sum[i - 1] + chunks[i]
    BY SumFacts
  <2>3. Claim(i - 1)
    BY <1>3
  <2>4. size[i] = IF size[i - 1] > limit THEN size[i - 1] ELSE size[i - 1] + chunks[i]
    BY GrowFacts
  <2> HIDE DEF size, sum
  <2>5. Claim(i)
    BY <2>1, <2>2, <2>3, <2>4
  <2> QED
    BY <2>1, <2>5
<1>4. 0..last \subseteq Holds
  <2> HIDE DEF Holds, last
  <2> QED
    BY <1>1, <1>2, <1>3, UpwardInduction
<1>5. Claim(n) /\ sum[n] \in Nat
  BY <1>1, <1>4
<1>6. size[n] > limit <=> sum[n] > limit
  <2> HIDE DEF size, sum
  <2> QED
    BY <1>5
<1> QED
  BY <1>6

\* Of every body as much is kept as the limit allows, and it is known whether that is
\* all of it: read_response_limited and fetch_client_metadata.
THEOREM BodiesExact ==
  \A chunks \in Seq(Nat), limit \in Nat : BodyIsExact(chunks, limit)
<1> SUFFICES ASSUME NEW chunks \in Seq(Nat), NEW limit \in Nat
             PROVE  BodyIsExact(chunks, limit)
  OBVIOUS
<1> DEFINE last == Len(chunks)
           read == ReadResponse(chunks, limit)
           total == Total(chunks)
<1>1. last \in 0..last
  OBVIOUS
<1>2. total \in Nat /\ total = SumOf(chunks)[last]
  BY <1>1, SumFacts, TotalIsSum
<1>3. read.kept = Least(limit, total) /\ read.cut \in BOOLEAN /\ (read.cut <=> total > limit)
  BY <1>1, <1>2, ReadResponseIsLast, ReadSoFar
<1>4. ASSUME NEW declared \in {-1, total}
      PROVE  (MetadataAnswer(declared, chunks, limit) = "document") <=> total <= limit
  <2>1. MetadataAnswer(declared, chunks, limit) =
          IF declared > limit \/ GrowOf(chunks, limit)[last] > limit
          THEN "error" ELSE "document"
    BY DEF MetadataAnswer, Loop, GrowOf
  <2>2. GrowOf(chunks, limit)[last] > limit <=> total > limit
    BY <1>1, <1>2, GrownSoFar
  <2> HIDE DEF total
  <2>3. declared > limit => total > limit
    BY <1>2
  <2> QED
    BY <1>2, <2>1, <2>2, <2>3
<1>5. DocumentAnswer(TRUE, chunks, limit) = IF read.cut THEN "error" ELSE "document"
  BY DEF DocumentAnswer
<1> HIDE DEF read, total
<1>6. /\ read.cut <=> total > limit
      /\ (DocumentAnswer(TRUE, chunks, limit) = "document") <=> total <= limit
  <2>1. read.cut <=> ~(total <= limit)
    BY <1>2, <1>3
  <2> QED
    BY <1>3, <1>5, <2>1
<1> QED
  BY <1>3, <1>4, <1>6 DEF BodyIsExact, read, total

-----------------------------------------------------------------------------
(* Texts *)

LEMMA GreatestNatural ==
  ASSUME NEW most \in Nat, NEW S \in SUBSET (0..most), S # {}
  PROVE  Greatest(S) \in S /\ \A n \in S : n <= Greatest(S)
<1> DEFINE Rest == {most - n : n \in S}
<1>1. PICK m \in Rest : \A n \in Rest : m <= n
  <2>1. ASSUME NEW n \in S PROVE most - n \in Nat
    <3>1. n \in 0..most
      OBVIOUS
    <3> QED
      BY <3>1
  <2>2. Rest \in SUBSET Nat /\ Rest # {}
    BY <2>1
  <2> HIDE DEF Rest
  <2> QED
    BY <2>2, LeastNatural
<1>2. PICK g \in S : m = most - g
  BY <1>1
<1>3. ASSUME NEW n \in S PROVE n <= g
  <2>1. most - g <= most - n
    BY <1>1, <1>2
  <2> QED
    BY <2>1
<1> QED
  BY <1>3 DEF Greatest

\* trunc and capture_text, for every text: no character is split, and none is
\* dropped that the limit has room for.
THEOREM TextsExact ==
  \A text \in Seq(Nat \ {0}), limit \in Nat : TextIsExact(text, limit)
<1> SUFFICES ASSUME NEW text \in Seq(Nat \ {0}), NEW limit \in Nat
             PROVE  TextIsExact(text, limit)
  OBVIOUS
<1> DEFINE last == Len(text)
           sum == SumOf(text)
           total == Total(text)
           result == CaptureText(text, FALSE, limit)
           Exact(r) == /\ r.text = First(Len(r.text), text) /\ Total(r.text) <= limit
                       /\ \A n \in 0..last :
                            Total(First(n, text)) <= limit => n <= Len(r.text)
                       /\ r.cut <=> total > limit
<1>1. text \in Seq(Nat) /\ last \in Nat /\ last \in 0..last /\ 0 \in 0..last
  OBVIOUS
<1>2. sum \in [0..last -> Nat] /\ sum[0] = 0
  BY <1>1, SumFacts
<1>3. total = sum[last] /\ total \in Nat
  BY <1>1, <1>2, TotalIsSum
<1>4. ASSUME NEW m \in 0..last, NEW n \in m..last
      PROVE  sum[m] + (n - m) <= sum[n]
  BY <1>1, SumsGrow
<1>5. ASSUME NEW n \in 0..last
      PROVE  Total(First(n, text)) = sum[n] /\ sum[n] \in Nat
  BY <1>1, <1>2, PrefixSum
<1>6. First(last, text) = text
  BY Whole
<1>7. ASSUME NEW n \in 0..last
      PROVE  Len(First(n, text)) = n
  BY DEF First
<1> HIDE DEF sum, total
<1>8. Trunc(text, limit) = First(Least(limit, last), text)
  <2>1. total <= limit => last <= limit
    <3>1. sum[0] + (last - 0) <= sum[last]
      BY <1>1, <1>4
    <3> QED
      BY <1>1, <1>2, <1>3, <3>1
  <2>2. CASE total <= limit \/ limit >= last
    <3>1. Least(limit, last) = last
      BY <1>1, <2>1, <2>2 DEF Least
    <3> QED
      BY <1>6, <2>2, <3>1 DEF Trunc, total
  <2>3. CASE ~(total <= limit \/ limit >= last)
    <3>1. Least(limit, last) = limit
      BY <1>1, <2>3 DEF Least
    <3> QED
      BY <2>3, <3>1 DEF Trunc, total
  <2> QED
    BY <2>2, <2>3
<1>9. ASSUME total <= limit
      PROVE  Exact(result)
  <2>1. result = [text |-> text, cut |-> FALSE]
    BY <1>9 DEF CaptureText, total
  <2> HIDE DEF result
  <2>2. result.text = text /\ ~result.cut
    BY <2>1
  <2>3. ~(total > limit) /\ Total(text) <= limit
    BY <1>3, <1>9 DEF total
  <2> QED
    BY <1>1, <1>6, <2>2, <2>3
<1>10. ASSUME total > limit
       PROVE  Exact(result)
  <2> DEFINE ends == {Total(First(n, text)) : n \in 0..last}
             within == {e \in ends : e <= limit}
             end == Greatest(within)
             size == CHOOSE n \in 0..last : Total(First(n, text)) = end
  <2>1. result = [text |-> First(size, text), cut |-> TRUE]
    <3>1. ~(Total(text) <= limit)
      BY <1>3, <1>10 DEF total
    <3> QED
      BY <3>1, Zenon DEF CaptureText
  <2>2. within \in SUBSET (0..limit) /\ 0 \in within
    BY <1>1, <1>2, <1>5
  <2>3. end \in within /\ \A e \in within : e <= end
    <3> HIDE DEF within
    <3> QED
      BY <2>2, GreatestNatural
  <2>4. size \in 0..last /\ Total(First(size, text)) = end
    <3> HIDE DEF end
    <3> QED
      BY <2>3
  <2>5. sum[size] = end /\ end <= limit /\ Len(First(size, text)) = size
    BY <1>5, <1>7, <2>3, <2>4
  <2>6. ASSUME NEW n \in 0..last, Total(First(n, text)) <= limit
        PROVE  n <= size
    <3>1. sum[n] <= end
      BY <1>5, <2>3, <2>6
    <3> HIDE DEF end, size, within
    <3> SUFFICES ASSUME n > size PROVE FALSE
      BY <2>4
    <3>2. size \in Nat /\ n \in size..last /\ sum[size] \in Nat /\ sum[n] \in Nat
      BY <1>1, <1>5, <2>4
    <3>3. sum[size] + (n - size) <= sum[n]
      BY <1>4, <2>4, <3>2
    <3> QED
      BY <2>5, <3>1, <3>2, <3>3
  <2> HIDE DEF result, size, end
  <2>7. result.text = First(size, text) /\ result.cut
    BY <2>1
  <2>8. Len(result.text) = size /\ Total(result.text) = end
    BY <2>4, <2>5, <2>7
  <2> QED
    BY <1>10, <2>5, <2>6, <2>7, <2>8
<1>11. Exact(result)
  <2> HIDE DEF Exact, result
  <2>1. total <= limit \/ total > limit
    BY <1>3
  <2> QED
    BY <1>9, <1>10, <2>1
<1> QED
  BY <1>8, <1>11 DEF TextIsExact, total

-----------------------------------------------------------------------------
(* Search results *)

\* The characters of a list with an entry more.
LEMMA ListCharsStep ==
  ASSUME NEW T, \A x \in T : x.chars \in Nat, NEW list \in Seq(T)
  PROVE  /\ ListChars(list, 0) = 2
         /\ \A n \in 0..Len(list) : ListChars(list, n) \in Nat
         /\ \A n \in 1..Len(list) :
              ListChars(list, n) = ListChars(list, n - 1) + list[n].chars
                                     + (IF n = 1 THEN 0 ELSE 1)
<1> DEFINE chars(n) == [i \in 1..n |-> list[i].chars]
<1>1. ASSUME NEW n \in 0..Len(list)
      PROVE  /\ chars(n) \in Seq(Nat) /\ Len(chars(n)) = n
             /\ Total(chars(n)) = SumOf(chars(n))[n] /\ Total(chars(n)) \in Nat
  <2>1. \A i \in 1..n : list[i].chars \in Nat
    <3>1. \A i \in 1..Len(list) : list[i] \in T
      OBVIOUS
    <3> QED
      BY <3>1
  <2>2. n \in Nat /\ n \in 0..n
    OBVIOUS
  <2>3. chars(n) \in [1..n -> Nat]
    BY <2>1
  <2>4. chars(n) \in Seq(Nat) /\ Len(chars(n)) = n
    <3> HIDE DEF chars
    <3> QED
      BY <2>2, <2>3
  <2> HIDE DEF chars
  <2>5. SumOf(chars(n)) \in [0..n -> Nat]
    BY <2>4, SumFacts
  <2>6. Total(chars(n)) = SumOf(chars(n))[n]
    BY <2>4, TotalIsSum
  <2> QED
    BY <2>2, <2>4, <2>5, <2>6
<1>2. ASSUME NEW n \in 0..Len(list)
      PROVE  ListChars(list, n) = 2 + Total(chars(n)) + (IF n = 0 THEN 0 ELSE n - 1)
  BY DEF ListChars
<1>3. ASSUME NEW n \in 1..Len(list)
      PROVE  Total(chars(n)) = Total(chars(n - 1)) + list[n].chars
  <2>1. n \in Nat /\ n \in 0..Len(list) /\ n - 1 \in 0..Len(list) /\ n \in 1..n /\ n - 1 \in 0..n
    OBVIOUS
  <2>2. chars(n)[n] = list[n].chars
    BY <2>1
  <2>3. First(n - 1, chars(n)) = chars(n - 1)
    <3>1. chars(n) \in Seq(Nat) /\ Len(chars(n)) = n
      BY <1>1, <2>1
    <3>2. \A i \in 1..(n - 1) : chars(n)[i] = chars(n - 1)[i]
      BY <2>1
    <3>3. chars(n - 1) \in Seq(Nat) /\ Len(chars(n - 1)) = n - 1
      BY <1>1, <2>1
    <3> HIDE DEF chars
    <3>4. /\ First(n - 1, chars(n)) \in Seq(Nat)
          /\ Len(First(n - 1, chars(n))) = n - 1
          /\ \A i \in 1..(n - 1) : First(n - 1, chars(n))[i] = chars(n)[i]
      BY <2>1, <3>1 DEF First
    <3> QED
      BY <3>2, <3>3, <3>4, SeqEqual
  <2>4. chars(n) \in Seq(Nat) /\ Len(chars(n)) = n /\ Total(chars(n)) = SumOf(chars(n))[n]
    BY <1>1, <2>1
  <2> HIDE DEF chars
  <2>5. SumOf(chars(n))[n] = SumOf(chars(n))[n - 1] + chars(n)[n]
    BY <2>1, <2>4, SumFacts
  <2>6. Total(First(n - 1, chars(n))) = SumOf(chars(n))[n - 1]
    BY <2>1, <2>4, PrefixSum
  <2> QED
    BY <2>2, <2>3, <2>4, <2>5, <2>6
<1>4. ListChars(list, 0) = 2
  <2>1. 0 \in 0..Len(list) /\ chars(0) \in Seq(Nat) /\ Total(chars(0)) = SumOf(chars(0))[0]
    <3>1. 0 \in 0..Len(list)
      OBVIOUS
    <3> HIDE DEF chars
    <3> QED
      BY <1>1, <3>1
  <2> HIDE DEF chars
  <2>2. SumOf(chars(0))[0] = 0
    BY <2>1, SumFacts
  <2> QED
    BY <1>2, <2>1, <2>2
<1>5. ASSUME NEW n \in 0..Len(list) PROVE ListChars(list, n) \in Nat
  <2>1. n \in Nat /\ Total(chars(n)) \in Nat
    <3>1. n \in Nat
      OBVIOUS
    <3> HIDE DEF chars
    <3> QED
      BY <1>1, <3>1
  <2> HIDE DEF chars
  <2> QED
    BY <1>2, <2>1
<1>6. ASSUME NEW n \in 1..Len(list)
      PROVE  ListChars(list, n) = ListChars(list, n - 1) + list[n].chars
                                    + (IF n = 1 THEN 0 ELSE 1)
  <2>1. /\ n \in Nat /\ n >= 1 /\ n \in 0..Len(list) /\ n - 1 \in 0..Len(list)
        /\ list[n] \in T
    OBVIOUS
  <2>2. Total(chars(n - 1)) \in Nat /\ list[n].chars \in Nat
    BY <1>1, <2>1
  <2>3. /\ ListChars(list, n) = 2 + Total(chars(n)) + (IF n = 0 THEN 0 ELSE n - 1)
        /\ ListChars(list, n - 1)
             = 2 + Total(chars(n - 1)) + (IF n - 1 = 0 THEN 0 ELSE (n - 1) - 1)
    BY <1>2, <2>1
  <2>4. Total(chars(n)) = Total(chars(n - 1)) + list[n].chars
    BY <1>3
  <2> DEFINE before == Total(chars(n - 1))
             more == list[n].chars
  <2>5. /\ ListChars(list, n) = 2 + (before + more) + (n - 1)
        /\ ListChars(list, n - 1) = 2 + before + (IF n = 1 THEN 0 ELSE n - 2)
        /\ before \in Nat /\ more \in Nat
    <3>1. n # 0 /\ (n - 1 = 0 <=> n = 1) /\ (n - 1) - 1 = n - 2
      BY <2>1
    <3> HIDE DEF chars
    <3> QED
      BY <2>2, <2>3, <2>4, <3>1
  <2> HIDE DEF before, more
  <2>6. ListChars(list, n) = ListChars(list, n - 1) + more + (IF n = 1 THEN 0 ELSE 1)
    <3>1. CASE n = 1
      BY <2>5, <3>1
    <3>2. CASE n # 1
      BY <2>1, <2>5, <3>2
    <3> QED
      BY <3>1, <3>2
  <2> QED
    BY <2>6 DEF more
<1> QED
  BY <1>4, <1>5, <1>6

\* It depends on these entries only, ...
LEMMA ListCharsOfPrefix ==
  ASSUME NEW list, NEW other, NEW n, \A i \in 1..n : list[i] = other[i]
  PROVE  ListChars(list, n) = ListChars(other, n)
<1>1. [i \in 1..n |-> list[i].chars] = [i \in 1..n |-> other[i].chars]
  OBVIOUS
<1> QED
  BY <1>1 DEF ListChars

\* ... and grows with them.
LEMMA ListCharsGrow ==
  ASSUME NEW T, \A x \in T : x.chars \in Nat, NEW list \in Seq(T),
         NEW m \in 0..Len(list), NEW n \in m..Len(list)
  PROVE  ListChars(list, m) <= ListChars(list, n)
<1> DEFINE last == n - m
           Holds == {i \in 0..last : ListChars(list, m) <= ListChars(list, m + i)}
<1>1. m \in Nat /\ n \in Nat /\ Len(list) \in Nat /\ m <= n /\ n <= Len(list) /\ last \in Nat
  OBVIOUS
<1>2. 0 \in Holds
  <2>1. ListChars(list, m) \in Nat /\ m + 0 = m
    BY <1>1, ListCharsStep
  <2> QED
    BY <1>1, <2>1
<1>3. ASSUME NEW i \in 1..last, i - 1 \in Holds PROVE i \in Holds
  <2>1. /\ m + i \in 1..Len(list) /\ (m + i) - 1 = m + (i - 1) /\ i \in 0..last
        /\ m + i \in 0..Len(list) /\ m + (i - 1) \in 0..Len(list)
        /\ list[m + i] \in T
        /\ ListChars(list, m) <= ListChars(list, m + (i - 1))
    BY SMTT(30), <1>1, <1>3
  <2>2. list[m + i].chars \in Nat
    BY <2>1
  <2>3. /\ ListChars(list, m) \in Nat /\ ListChars(list, m + (i - 1)) \in Nat
        /\ ListChars(list, m + i) \in Nat
    BY <1>1, <2>1, ListCharsStep
  <2>4. ListChars(list, m + i) = ListChars(list, m + (i - 1)) + list[m + i].chars
                                   + (IF m + i = 1 THEN 0 ELSE 1)
    BY <2>1, ListCharsStep
  <2> QED
    BY <2>1, <2>2, <2>3, <2>4
<1>4. last \in Holds
  <2> HIDE DEF Holds, last
  <2>1. 0..last \subseteq Holds
    BY <1>1, <1>2, <1>3, UpwardInduction
  <2> QED
    BY <1>1, <2>1
<1>5. m + last = n
  BY <1>1
<1> QED
  BY <1>4, <1>5

\* The allowed entries among the first n, for each n.
AllowedOf(items, inside) ==
  CHOOSE f : f = [n \in 0..Len(items) |->
                    IF n = 0 THEN <<>>
                    ELSE IF items[n].path \in inside THEN Append(f[n - 1], items[n])
                         ELSE f[n - 1]]

LEMMA AllowedFacts ==
  ASSUME NEW T, NEW items \in Seq(T), NEW inside
  PROVE  LET list == AllowedOf(items, inside) IN
         /\ list[0] = <<>>
         /\ \A n \in 1..Len(items) :
              list[n] = IF items[n].path \in inside THEN Append(list[n - 1], items[n])
                        ELSE list[n - 1]
<1> DEFINE last == Len(items)
           Round(f, n) == IF items[n].path \in inside THEN Append(f[n - 1], items[n])
                          ELSE f[n - 1]
           Then(list, n) == IF items[n].path \in inside THEN Append(list, items[n])
                             ELSE list
           step == [x \in Seq(T) \X (1..last) |-> Then(x[1], x[2])]
           Solves(f) == f = [n \in 0..last |-> IF n = 0 THEN <<>> ELSE Round(f, n)]
<1>1. last \in Nat /\ <<>> \in Seq(T)
  OBVIOUS
<1>2. step \in [Seq(T) \X (1..last) -> Seq(T)]
  <2>1. ASSUME NEW list \in Seq(T), NEW n \in 1..last PROVE Then(list, n) \in Seq(T)
    OBVIOUS
  <2> HIDE DEF Then
  <2> QED
    BY <2>1
<1>3. PICK f \in [0..last -> Seq(T)] : Recursion(f, <<>>, step, last)
  <2> HIDE DEF step
  <2> QED
    BY <1>1, <1>2, RecursionExists
<1>4. ASSUME NEW n \in 1..last PROVE f[n] = Round(f, n)
  <2>1. n - 1 \in 0..last
    BY <1>1
  <2>2. f[n - 1] \in Seq(T)
    BY <1>3, <2>1
  <2>3. step[<<f[n - 1], n>>] = Then(f[n - 1], n)
    <3> HIDE DEF Then
    <3> QED
      BY <2>2
  <2> HIDE DEF step
  <2> QED
    BY <1>3, <2>3 DEF Recursion
<1>5. Solves(f)
  <2> HIDE DEF step, last, Round
  <2>1. f[0] = <<>>
    BY <1>3 DEF Recursion
  <2>2. ASSUME NEW n \in 0..last PROVE f[n] = IF n = 0 THEN <<>> ELSE Round(f, n)
    <3>1. n = 0 \/ n \in 1..last
      BY <1>1
    <3> QED
      BY <1>4, <2>1, <3>1
  <2> QED
    BY <1>3, <2>2
<1>6. Solves(AllowedOf(items, inside))
  BY <1>5 DEF AllowedOf
<1>7. ASSUME NEW F, Solves(F)
      PROVE  F[0] = <<>> /\ \A n \in 1..last : F[n] = Round(F, n)
  <2>1. last \in Nat
    BY <1>1
  <2> HIDE DEF last, Round
  <2>2. 0 \in 0..last /\ \A n \in 1..last : n \in 0..last /\ n # 0
    BY <2>1
  <2> QED
    BY <1>7, <2>2
<1> QED
  BY <1>6, <1>7

\* What filter_search_results has after each of the entries.
FilterOf(items, inside, limit) ==
  CHOOSE f : f = [n \in 0..Len(items) |->
                    IF n = 0 THEN [items |-> <<>>, chars |-> 2, full |-> FALSE]
                    ELSE AddItem(f[n - 1], items[n], inside, limit)]

LEMMA FilterFacts ==
  ASSUME NEW T, \A x \in T : x.chars \in Nat, NEW items \in Seq(T),
         NEW inside, NEW limit \in Nat
  PROVE  LET result == FilterOf(items, inside, limit) IN
         /\ result[0] = [items |-> <<>>, chars |-> 2, full |-> FALSE]
         /\ \A n \in 1..Len(items) :
              result[n] = AddItem(result[n - 1], items[n], inside, limit)
<1> DEFINE last == Len(items)
           S == [items : Seq(T), chars : Nat, full : BOOLEAN]
           start == [items |-> <<>>, chars |-> 2, full |-> FALSE]
           Round(f, n) == AddItem(f[n - 1], items[n], inside, limit)
           Then(result, n) == AddItem(result, items[n], inside, limit)
           step == [x \in S \X (1..last) |-> Then(x[1], x[2])]
           Solves(f) == f = [n \in 0..last |-> IF n = 0 THEN start ELSE Round(f, n)]
<1>1. last \in Nat /\ start \in S
  OBVIOUS
<1>2. ASSUME NEW result \in S, NEW n \in 1..last PROVE Then(result, n) \in S
  <2>1. /\ result.items \in Seq(T) /\ result.chars \in Nat
        /\ items[n] \in T /\ items[n].chars \in Nat
    OBVIOUS
  <2>2. [result EXCEPT !.full = TRUE] \in S
    OBVIOUS
  <2>3. [items |-> Append(result.items, items[n]),
         chars |-> result.chars + items[n].chars
                     + (IF result.items = <<>> THEN 0 ELSE 1),
         full  |-> FALSE] \in S
    <3>1. /\ Append(result.items, items[n]) \in Seq(T)
          /\ result.chars + items[n].chars + (IF result.items = <<>> THEN 0 ELSE 1) \in Nat
      BY <2>1
    <3> QED
      BY <3>1
  <2> HIDE DEF S
  <2> QED
    BY <2>2, <2>3, Zenon DEF AddItem
<1>3. step \in [S \X (1..last) -> S]
  <2> HIDE DEF S, Then
  <2> QED
    BY <1>2
<1>4. PICK f \in [0..last -> S] : Recursion(f, start, step, last)
  <2> HIDE DEF step, S, start
  <2> QED
    BY <1>1, <1>3, RecursionExists
<1>5. ASSUME NEW n \in 1..last PROVE f[n] = Round(f, n)
  <2>1. n - 1 \in 0..last
    BY <1>1
  <2> HIDE DEF S, Then
  <2>2. f[n - 1] \in S
    BY <1>4, <2>1
  <2>3. step[<<f[n - 1], n>>] = Then(f[n - 1], n)
    BY <2>2
  <2> HIDE DEF step
  <2> QED
    BY <1>4, <2>3 DEF Recursion, Then
<1>6. Solves(f)
  <2> HIDE DEF step, last, Round, start, S
  <2>1. f[0] = start
    BY <1>4 DEF Recursion
  <2>2. ASSUME NEW n \in 0..last PROVE f[n] = IF n = 0 THEN start ELSE Round(f, n)
    <3>1. n = 0 \/ n \in 1..last
      BY <1>1
    <3> QED
      BY <1>5, <2>1, <3>1
  <2> QED
    BY <1>4, <2>2
<1>7. Solves(FilterOf(items, inside, limit))
  BY <1>6 DEF FilterOf
<1>8. ASSUME NEW F, Solves(F)
      PROVE  F[0] = start /\ \A n \in 1..last : F[n] = Round(F, n)
  <2>1. last \in Nat
    BY <1>1
  <2> HIDE DEF last, Round, start
  <2>2. 0 \in 0..last /\ \A n \in 1..last : n \in 0..last /\ n # 0
    BY <2>1
  <2> QED
    BY <1>8, <2>2
<1> QED
  BY <1>7, <1>8

LEMMA AddItemCases ==
  ASSUME NEW result, result.full \in BOOLEAN, NEW item, NEW inside, NEW limit,
         NEW then, then = AddItem(result, item, inside, limit)
  PROVE  /\ result.full \/ item.path \notin inside => then = result
         /\ ~result.full /\ item.path \in inside /\ ~Fits(result, item.chars, limit)
              => then = [result EXCEPT !.full = TRUE]
         /\ ~result.full /\ item.path \in inside /\ Fits(result, item.chars, limit)
              => then = [items |-> Append(result.items, item),
                         chars |-> result.chars + item.chars
                                     + (IF result.items = <<>> THEN 0 ELSE 1),
                         full  |-> FALSE]
BY Zenon DEF AddItem

\* Counting the characters only as far as it takes makes no difference.
LEMMA FitsExactly ==
  ASSUME NEW result, result.chars \in Nat, NEW chars \in Nat, NEW limit \in Nat,
         result.chars <= limit
  PROVE  Fits(result, chars, limit) <=>
           result.chars + chars + (IF result.items = <<>> THEN 0 ELSE 1) <= limit
<1> DEFINE separator == IF result.items = <<>> THEN 0 ELSE 1
<1>1. separator \in Nat
  OBVIOUS
<1>2. Fits(result, chars, limit) <=>
        Least(chars, limit - result.chars + 1) + separator <= limit - result.chars
  BY DEF Fits
<1> HIDE DEF separator
<1>3. Fits(result, chars, limit) <=> result.chars + chars + separator <= limit
  BY <1>1, <1>2 DEF Least
<1> QED
  BY <1>3 DEF separator

\* What a result is to be when the allowed entries so far are list.
Leading(result, list, limit) ==
  /\ Len(result.items) <= Len(list)
  /\ \A i \in 1..Len(result.items) : result.items[i] = list[i]
  /\ result.chars = ListChars(list, Len(result.items)) /\ result.chars <= limit
  /\ result.full \in BOOLEAN
  /\ IF result.full
     THEN /\ Len(result.items) < Len(list)
          /\ ListChars(list, Len(result.items) + 1) > limit
     ELSE Len(result.items) = Len(list)

LEMMA FilterSoFar ==
  ASSUME NEW T, \A x \in T : x.chars \in Nat, NEW items \in Seq(T),
         NEW inside, NEW limit \in Nat, limit >= 2, NEW n \in 0..Len(items)
  PROVE  LET list   == AllowedOf(items, inside)[n]
             result == FilterOf(items, inside, limit)[n]
         IN  /\ list \in Seq(T) /\ result.items \in Seq(T)
             /\ Leading(result, list, limit)
<1> DEFINE last == Len(items)
           list == AllowedOf(items, inside)
           result == FilterOf(items, inside, limit)
           Claim(i) == /\ list[i] \in Seq(T) /\ result[i].items \in Seq(T)
                       /\ Leading(result[i], list[i], limit)
           Holds == {i \in 0..last : Claim(i)}
<1>1. last \in Nat
  OBVIOUS
<1>2. 0 \in Holds
  <2>1. list[0] = <<>> /\ result[0] = [items |-> <<>>, chars |-> 2, full |-> FALSE]
    BY AllowedFacts, FilterFacts
  <2>2. <<>> \in Seq(T) /\ Len(<<>>) = 0
    OBVIOUS
  <2>3. ListChars(<<>>, 0) = 2
    BY <2>2, ListCharsStep
  <2> HIDE DEF list, result
  <2>4. result[0].items = <<>> /\ result[0].chars = 2 /\ result[0].full = FALSE
    BY <2>1
  <2>5. Leading(result[0], list[0], limit)
    BY <2>1, <2>2, <2>3, <2>4 DEF Leading
  <2>6. list[0] \in Seq(T) /\ result[0].items \in Seq(T)
    BY <2>1, <2>2, <2>4
  <2> HIDE DEF last
  <2> QED
    BY <1>1, <2>5, <2>6
<1>3. ASSUME NEW i \in 1..last, i - 1 \in Holds PROVE i \in Holds
  <2> DEFINE old == list[i - 1]
             new == list[i]
             r == result[i - 1]
             s == result[i]
             item == items[i]
  <2>0. i \in 0..last /\ item \in T /\ item.chars \in Nat
    BY <1>1
  <2>1. old \in Seq(T) /\ r.items \in Seq(T) /\ Leading(r, old, limit)
    BY <1>3
  <2>2. new = IF item.path \in inside THEN Append(old, item) ELSE old
    BY AllowedFacts
  <2>3. s = AddItem(r, item, inside, limit)
    BY FilterFacts
  <2> SUFFICES new \in Seq(T) /\ s.items \in Seq(T) /\ Leading(s, new, limit)
    BY <2>0
  <2> HIDE DEF old, new, r, s, item, Holds
  <2>4. r.full \in BOOLEAN /\ Len(old) \in Nat /\ Len(r.items) \in Nat
    BY <2>1 DEF Leading
  <2>5. CASE item.path \notin inside
    <3>1. new = old /\ s = r
      BY <2>2, <2>3, <2>4, <2>5, AddItemCases
    <3> QED
      BY <2>1, <3>1
  <2>6. CASE item.path \in inside
    <3>1. /\ new = Append(old, item) /\ new \in Seq(T) /\ Len(new) = Len(old) + 1
          /\ \A k \in 1..Len(old) : new[k] = old[k]
          /\ new[Len(old) + 1] = item
      BY <2>0, <2>1, <2>2, <2>6
    <3>2. ASSUME NEW k \in 0..Len(old)
          PROVE  ListChars(new, k) = ListChars(old, k)
      <4>1. \A j \in 1..k : new[j] = old[j]
        BY <2>4, <3>1
      <4> QED
        BY <4>1, ListCharsOfPrefix
    <3>3. CASE r.full
      <4>1. s = r
        BY <2>3, <3>3, Zenon DEF AddItem
      <4>2. Len(r.items) \in 0..Len(old) /\ Len(r.items) + 1 \in 0..Len(old)
        BY <2>1, <2>4, <3>3 DEF Leading
      <4>3. /\ ListChars(new, Len(r.items)) = ListChars(old, Len(r.items))
            /\ ListChars(new, Len(r.items) + 1) = ListChars(old, Len(r.items) + 1)
        BY <3>2, <4>2
      <4>4. Leading(r, new, limit)
        BY <2>1, <2>4, <3>1, <3>3, <4>2, <4>3 DEF Leading
      <4> QED
        BY <2>1, <3>1, <4>1, <4>4
    <3>4. CASE ~r.full
      <4> DEFINE m == Len(old)
                 separator == IF r.items = <<>> THEN 0 ELSE 1
      <4>1. /\ Len(r.items) = m /\ r.chars = ListChars(old, m) /\ r.chars <= limit
            /\ \A k \in 1..m : r.items[k] = old[k]
        BY <2>1, <3>4 DEF Leading
      <4>2. r.chars \in Nat
        BY <2>1, <2>4, <4>1, ListCharsStep
      <4>3. ListChars(new, m + 1) = r.chars + item.chars + separator
        <5>1. m + 1 \in 1..Len(new) /\ (m + 1) - 1 = m /\ m \in 0..m
          BY <2>4, <3>1
        <5>2. ListChars(new, m + 1) = ListChars(new, (m + 1) - 1) + new[m + 1].chars
                                        + (IF m + 1 = 1 THEN 0 ELSE 1)
          BY <3>1, <5>1, ListCharsStep
        <5>3. (m + 1 = 1) <=> r.items = <<>>
          BY <2>1, <2>4, <4>1
        <5>4. ListChars(new, (m + 1) - 1) = r.chars /\ new[m + 1].chars = item.chars
          BY <3>1, <3>2, <4>1, <5>1
        <5> QED
          BY <5>2, <5>3, <5>4
      <4>4. Fits(r, item.chars, limit) <=> ListChars(new, m + 1) <= limit
        BY <2>0, <4>1, <4>2, <4>3, FitsExactly
      <4>5. ListChars(new, m) = r.chars /\ ListChars(new, m + 1) \in Nat
        <5>1. m \in 0..m /\ m + 1 \in 0..Len(new)
          BY <2>4, <3>1
        <5> QED
          BY <3>1, <3>2, <4>1, <5>1, ListCharsStep
      <4>6. CASE Fits(r, item.chars, limit)
        <5>1. s = [items |-> Append(r.items, item),
                   chars |-> r.chars + item.chars + separator, full |-> FALSE]
          BY <2>3, <2>4, <2>6, <3>4, <4>6, AddItemCases
        <5> HIDE DEF separator
        <5>2. s.items = Append(r.items, item) /\ s.chars = ListChars(new, m + 1)
          BY <4>3, <5>1
        <5>3. s.full = FALSE
          BY <5>1
        <5>4. /\ s.items \in Seq(T) /\ Len(s.items) = m + 1
              /\ \A k \in 1..m : s.items[k] = r.items[k]
              /\ s.items[m + 1] = item
          BY <2>0, <2>1, <4>1, <5>2
        <5>5. \A k \in 1..(m + 1) : s.items[k] = new[k]
          BY <2>4, <3>1, <4>1, <5>4
        <5>6. Leading(s, new, limit)
          <6>1. Len(s.items) = Len(new) /\ Len(new) \in Nat
            BY <2>4, <3>1, <5>4
          <6>2. s.chars = ListChars(new, Len(s.items)) /\ s.chars <= limit
            BY <4>4, <4>6, <5>2, <5>4
          <6>3. \A k \in 1..Len(s.items) : s.items[k] = new[k]
            BY <5>4, <5>5
          <6>4. s.full \in BOOLEAN /\ ~s.full
            BY <5>3
          <6> HIDE DEF m
          <6> QED
            BY <6>1, <6>2, <6>3, <6>4 DEF Leading
        <5> QED
          BY <3>1, <5>4, <5>6
      <4>7. CASE ~Fits(r, item.chars, limit)
        <5>1. s = [r EXCEPT !.full = TRUE]
          BY <2>3, <2>4, <2>6, <3>4, <4>7, AddItemCases
        <5>2. s.items = r.items /\ s.chars = r.chars /\ s.full
          BY <5>1
        <5>3. Leading(s, new, limit)
          BY <2>4, <3>1, <4>1, <4>4, <4>5, <4>7, <5>2 DEF Leading
        <5> QED
          BY <2>1, <3>1, <5>2, <5>3
      <4> QED
        BY <4>6, <4>7
    <3> QED
      BY <3>3, <3>4
  <2> QED
    BY <2>5, <2>6
<1>4. 0..last \subseteq Holds
  <2> HIDE DEF Holds, last
  <2> QED
    BY <1>1, <1>2, <1>3, UpwardInduction
<1> QED
  BY <1>4

\* filter_search_results, for any entries and any set of paths that are inside: the
\* result is the longest list of leading allowed entries that fits, and its length is
\* what was counted. The brackets have to fit.
THEOREM SearchesExact ==
  ASSUME NEW T, \A x \in T : x.chars \in Nat, NEW items \in Seq(T),
         NEW inside, NEW limit \in Nat, limit >= 2
  PROVE  SearchIsExact(items, inside, limit)
<1> DEFINE last == Len(items)
           list == Allowed(items, inside)
           result == FilterSearch(items, inside, limit)
           m == Len(result.items)
           fitting == {n \in 0..Len(list) : ListChars(list, n) <= limit}
<1>1. last \in 0..last
  OBVIOUS
<1>2. list = AllowedOf(items, inside)[last]
  BY DEF Allowed, Loop, AllowedOf
<1>3. result = FilterOf(items, inside, limit)[last]
  BY DEF FilterSearch, Loop, FilterOf
<1>4. list \in Seq(T) /\ result.items \in Seq(T) /\ Leading(result, list, limit)
  <2> HIDE DEF list, result
  <2> QED
    BY <1>1, <1>2, <1>3, FilterSoFar
<1> HIDE DEF list, result
<1>5. Len(list) \in Nat /\ m \in 0..Len(list) /\ result.full \in BOOLEAN
  BY <1>4 DEF Leading
<1>6. m \in fitting
  BY <1>4, <1>5 DEF Leading
<1>7. ASSUME NEW n \in fitting PROVE n <= m
  <2> SUFFICES ASSUME n > m PROVE FALSE
    BY <1>5
  <2>1. n \in Nat /\ n <= Len(list) /\ m \in Nat /\ ListChars(list, n) <= limit
    BY <1>5
  <2>2. result.full /\ ListChars(list, m + 1) > limit
    BY <1>4, <2>1 DEF Leading
  <2>3. m + 1 \in 0..Len(list) /\ n \in (m + 1)..Len(list) /\ n \in 0..Len(list)
    BY <2>1, <1>5
  <2>4. ListChars(list, m + 1) <= ListChars(list, n)
    BY <1>4, <2>3, ListCharsGrow
  <2>5. ListChars(list, n) \in Nat /\ ListChars(list, m + 1) \in Nat
    BY <1>4, <2>3, ListCharsStep
  <2> QED
    BY <2>1, <2>2, <2>4, <2>5
<1>8. Greatest(fitting) = m
  <2>1. fitting \in SUBSET (0..Len(list)) /\ fitting # {}
    BY <1>6
  <2>2. Greatest(fitting) \in fitting /\ m <= Greatest(fitting)
    <3> HIDE DEF fitting
    <3> QED
      BY <1>5, <1>6, <2>1, GreatestNatural
  <2>3. Greatest(fitting) <= m /\ Greatest(fitting) \in Nat /\ m \in Nat
    BY <1>5, <1>7, <2>2
  <2> QED
    BY <2>2, <2>3
<1>9. result.items = First(m, list)
  <2>1. First(m, list) \in Seq(T) /\ Len(First(m, list)) = m
    BY <1>4, <1>5 DEF First
  <2>2. \A i \in 1..m : First(m, list)[i] = result.items[i]
    BY <1>4, <1>5 DEF First, Leading
  <2> QED
    BY <1>4, <2>1, <2>2, SeqEqual
<1>10. result.chars = ListChars(list, m)
  BY <1>4 DEF Leading
<1> QED
  BY <1>8, <1>9, <1>10 DEF SearchIsExact, list, result

-----------------------------------------------------------------------------
(* The answers of the tools: the limits, one after the other *)

LEMMA ReplyFacts ==
  ASSUME NEW reply \in Replies
  PROVE  LET read == ReadResponse(reply.chunks, Limits.response) IN
         /\ reply.text \in Seq(Nat \ {0}) /\ Total(reply.text) \in Nat
         /\ read.kept = Least(Limits.response, Total(reply.text))
         /\ read.cut <=> ~Complete(reply)
<1>1. /\ reply.text \in Seq(Nat \ {0}) /\ reply.chunks \in Seq(Nat)
      /\ Total(reply.chunks) = Total(reply.text) /\ Limits.response \in Nat
  BY RepliesAssumption
<1>2. reply.text \in Seq(Nat) /\ Len(reply.text) \in 0..Len(reply.text)
  BY <1>1
<1>3. Total(reply.text) \in Nat
  BY <1>2, SumFacts, TotalIsSum
<1>4. BodyIsExact(reply.chunks, Limits.response)
  BY <1>1, BodiesExact
<1> QED
  BY <1>1, <1>3, <1>4 DEF BodyIsExact, Complete

\* Of a reply that is complete nothing is missing, and nothing is added to it.
LEMMA ReceivedFacts ==
  ASSUME NEW reply \in Replies
  PROVE  LET received == Received(reply, Limits) IN
         /\ received.body \in Seq(Nat \ {0})
         /\ received.notice = IF Complete(reply) THEN <<>> ELSE Limits.notice
         /\ Complete(reply) => received.body = reply.text
<1> DEFINE read == ReadResponse(reply.chunks, Limits.response)
           text == reply.text
           last == Len(text)
           fitting == {n \in 0..last : Total(First(n, text)) <= read.kept}
           whole == First(WholeIn(text, read.kept), text)
<1>1. /\ text \in Seq(Nat \ {0}) /\ text \in Seq(Nat) /\ last \in Nat /\ Total(text) \in Nat
      /\ read.kept = Least(Limits.response, Total(text)) /\ read.kept \in Nat
      /\ read.cut <=> ~Complete(reply)
  <2>1. Least(Limits.response, Total(text)) \in Nat
    BY ReplyFacts, RepliesAssumption DEF Least
  <2> QED
    BY <2>1, ReplyFacts
<1>2. Received(reply, Limits).body = (IF Total(whole) < read.kept THEN Append(whole, 3)
                                      ELSE whole)
  BY DEF Received, Lossy
<1>3. Received(reply, Limits).notice = IF read.cut THEN Limits.notice ELSE <<>>
  BY DEF Received, Notice
<1> HIDE DEF read, text
<1>4. fitting \in SUBSET (0..last) /\ 0 \in fitting
  <2>1. 0 \in 0..last
    BY <1>1
  <2>2. Total(First(0, text)) = 0
    BY <1>1, <2>1, PrefixSum, SumFacts
  <2> QED
    BY <1>1, <2>1, <2>2
<1>5. WholeIn(text, read.kept) \in 0..last
      /\ \A n \in fitting : n <= WholeIn(text, read.kept)
  <2>1. Greatest(fitting) \in fitting /\ \A n \in fitting : n <= Greatest(fitting)
    <3> HIDE DEF fitting, last
    <3> QED
      BY <1>1, <1>4, GreatestNatural
  <2> QED
    BY <1>4, <2>1 DEF WholeIn
<1>6. whole \in Seq(Nat \ {0})
  BY <1>1, <1>5 DEF First
<1>7. Append(whole, 3) \in Seq(Nat \ {0})
  <2>1. 3 \in Nat \ {0}
    OBVIOUS
  <2> HIDE DEF whole
  <2> QED
    BY <1>6, <2>1
<1>8. ASSUME Complete(reply) PROVE Received(reply, Limits).body = text
  <2>1. read.kept = Total(text)
    BY <1>1, <1>8, RepliesAssumption DEF Complete, Least, text
  <2>2. First(last, text) = text
    BY <1>1, Whole
  <2>3. last \in fitting
    BY <1>1, <2>1, <2>2
  <2>4. WholeIn(text, read.kept) = last
    BY <1>1, <1>5, <2>3
  <2>5. ~(Total(whole) < read.kept)
    BY <1>1, <2>1, <2>2, <2>4
  <2> QED
    BY <1>2, <2>2, <2>4, <2>5
<1> HIDE DEF whole
<1> QED
  BY <1>1, <1>2, <1>3, <1>6, <1>7, <1>8 DEF text

LEMMA DocumentIsComplete ==
  ASSUME NEW reply \in Replies, Parses(reply, Received(reply, Limits))
  PROVE  Complete(reply)
BY ReceivedFacts, RepliesAssumption DEF Parses

LEMMA Joined ==
  ASSUME NEW S, NEW s \in Seq(S), NEW t \in Seq(S)
  PROVE  /\ s \o t \in Seq(S) /\ Len(s \o t) = Len(s) + Len(t)
         /\ Len(s) \in Nat /\ Len(t) \in Nat
         /\ t = <<>> => s \o t = s
OBVIOUS

\* A text that is shorter than the limit is everything, or ends with the notice.
LEMMA QuotedIsExact ==
  ASSUME NEW reply \in Replies, NEW limit \in Nat
  PROVE  LET made == Quoted(Received(reply, Limits), limit) IN
         /\ made.from = "text"
         /\ \/ Len(made.text) = limit
            \/ Complete(reply) /\ made.text = reply.text /\ made.notice = 0
            \/ ~Complete(reply) /\ made.notice = Len(Limits.notice)
<1> DEFINE body == Received(reply, Limits).body
           notice == Received(reply, Limits).notice
           both == body \o notice
           text == Trunc(both, limit)
           made == Quoted(Received(reply, Limits), limit)
<1>1. /\ made.from = "text" /\ made.text = text
      /\ made.notice = Len(text) - Least(Len(text), Len(body))
  BY DEF Quoted
<1>2. /\ body \in Seq(Nat \ {0})
      /\ Complete(reply) => body = reply.text
      /\ notice = IF Complete(reply) THEN <<>> ELSE Limits.notice
  BY ReceivedFacts
<1>3. Limits.notice \in Seq(Nat \ {0})
  <2>1. Limits.notice \in Seq({1}) /\ {1} \subseteq Nat \ {0}
    BY RepliesAssumption
  <2> QED
    BY <2>1
<1> HIDE DEF body, notice
<1>4. notice \in Seq(Nat \ {0})
  BY <1>2, <1>3
<1>5. /\ both \in Seq(Nat \ {0}) /\ Len(both) \in Nat
      /\ Len(both) = Len(body) + Len(notice) /\ Len(body) \in Nat /\ Len(notice) \in Nat
      /\ notice = <<>> => both = body
  BY <1>2, <1>4, Joined
<1>6. Complete(reply) => both = reply.text /\ Len(notice) = 0
  <2> HIDE DEF both
  <2> QED
    BY <1>2, <1>5
<1>7. text = First(Least(limit, Len(both)), both)
  BY <1>5, TextsExact DEF TextIsExact
<1> HIDE DEF made, text
<1>8. CASE limit <= Len(both)
  <2>1. Least(limit, Len(both)) = limit
    BY <1>5, <1>8 DEF Least
  <2>2. Len(text) = limit
    BY <1>5, <1>7, <1>8, <2>1 DEF First
  <2> QED
    BY <1>1, <2>2 DEF made
<1>9. CASE ~(limit <= Len(both))
  <2>1. Least(limit, Len(both)) = Len(both)
    BY <1>5, <1>9 DEF Least
  <2>2. text = both
    BY <1>5, <1>7, <2>1, Whole
  <2>3. made.notice = Len(notice)
    BY <1>1, <1>5, <2>2 DEF Least
  <2> QED
    BY <1>1, <1>2, <1>6, <2>2, <2>3 DEF made
<1> QED
  BY <1>8, <1>9

\* The caller can tell what it got, whatever the backend sends and wherever the
\* limits are.
THEOREM AnswersExact == Spec => []AnswersAreExact
<1>1. ASSUME CallsInv PROVE AnswersAreExact
  <2> SUFFICES ASSUME NEW c \in Calls, pc[c] = "answered"
               PROVE  LET made    == answer[c].made
                          reply   == answer[c].reply
                          limit   == IF tool[c] = "bridge_prompt" THEN Limits.prompt
                                     ELSE Limits.file
                          allowed == Allowed(reply.list[1], Limits.inside)
                      IN  \/ /\ made.from = "document" /\ Complete(reply)
                             /\ made.text =
                                  IF tool[c] = "bridge_prompt" THEN reply.content[1]
                                  ELSE First(Least(limit, Len(reply.content[1])),
                                             reply.content[1])
                          \/ /\ made.from = "list" /\ Complete(reply)
                             /\ made.text =
                                  First(Greatest({n \in 0..Len(allowed) :
                                          ListChars(allowed, n) <= Limits.search}),
                                        allowed)
                          \/ /\ made.from = "text"
                             /\ \/ Len(made.text) = limit
                                \/ /\ Complete(reply) /\ made.text = reply.text
                                   /\ made.notice = 0
                                \/ ~Complete(reply) /\ made.notice = Len(Limits.notice)
    BY DEF AnswersAreExact, AnswerIsExact
  <2>1. PICK reply \in Replies :
          /\ answer[c] = [reply |-> reply, made |-> Made(tool[c], reply)]
          /\ Made(tool[c], reply).from # "error"
    BY <1>1 DEF CallsInv, AnswersOK
  <2> DEFINE made == Made(tool[c], reply)
             received == Received(reply, Limits)
  <2>2. answer[c].reply = reply /\ answer[c].made = made
    BY <2>1
  <2>3. tool[c] \in Tools
    BY <1>1 DEF CallsInv, AnswersOK
  <2>4. Limits.file \in Nat /\ Limits.prompt \in Nat
    BY RepliesAssumption
  <2>5. CASE tool[c] = "bridge_prompt"
    <3>1. made = PromptAnswer(reply, Limits)
      BY <2>5 DEF Made
    <3>2. CASE Parses(reply, received) /\ reply.content \notin {<<>>, <<<<>>>>}
      <4>1. made.from = "document" /\ made.text = reply.content[1]
        BY <3>1, <3>2 DEF PromptAnswer
      <4> QED
        BY <2>2, <2>5, <3>2, <4>1, DocumentIsComplete
    <3>3. CASE ~(Parses(reply, received) /\ reply.content \notin {<<>>, <<<<>>>>})
      <4>1. made = Quoted(received, Limits.prompt)
        BY <3>1, <3>3 DEF PromptAnswer
      <4> QED
        BY <2>2, <2>4, <2>5, <4>1, QuotedIsExact
    <3> QED
      BY <3>2, <3>3
  <2>6. CASE tool[c] = "bridge_read_file"
    <3>1. made = FileAnswer(reply, Limits)
      BY <2>6 DEF Made
    <3>2. CASE Parses(reply, received) /\ reply.content # <<>>
      <4>1. made.from = "document" /\ made.text = Trunc(reply.content[1], Limits.file)
        BY <3>1, <3>2 DEF FileAnswer
      <4>2. reply.content[1] \in Seq(Nat \ {0})
        BY <3>2, RepliesAssumption
      <4>3. made.text = First(Least(Limits.file, Len(reply.content[1])), reply.content[1])
        BY <2>4, <4>1, <4>2, TextsExact DEF TextIsExact
      <4> QED
        BY <2>2, <2>6, <3>2, <4>1, <4>3, DocumentIsComplete
    <3>3. CASE ~(Parses(reply, received) /\ reply.content # <<>>)
      <4>1. made = Quoted(received, Limits.file)
        BY <3>1, <3>3 DEF FileAnswer
      <4> QED
        BY <2>2, <2>4, <2>6, <4>1, QuotedIsExact
    <3> QED
      BY <3>2, <3>3
  <2>7. CASE tool[c] = "bridge_search"
    <3> DEFINE T == [path : STRING, chars : Nat]
               list == reply.list[1]
    <3>1. made = SearchAnswer(reply, Limits)
      BY <2>7 DEF Made
    <3>2. Parses(reply, received) /\ reply.list # <<>>
      BY <2>1, <3>1 DEF SearchAnswer
    <3>3. made.from = "list"
          /\ made.text = FilterSearch(list, Limits.inside, Limits.search).items
      BY <3>1, <3>2 DEF SearchAnswer
    <3>4. list \in Seq(T) /\ Limits.search \in Nat /\ Limits.search >= 2
      BY <3>2, RepliesAssumption
    <3>5. \A x \in T : x.chars \in Nat
      OBVIOUS
    <3>6. SearchIsExact(list, Limits.inside, Limits.search)
      <4> HIDE DEF T, list
      <4> QED
        BY <3>4, <3>5, SearchesExact
    <3>7. made.text = LET allowed == Allowed(list, Limits.inside) IN
                      First(Greatest({n \in 0..Len(allowed) :
                                        ListChars(allowed, n) <= Limits.search}), allowed)
      BY <3>3, <3>6 DEF SearchIsExact
    <3> QED
      BY <2>2, <3>2, <3>3, <3>7, DocumentIsComplete
  <2> QED
    BY <2>3, <2>5, <2>6, <2>7 DEF Tools
<1> QED
  BY <1>1, CallsInvariant, PTL
=============================================================================
