----------------------------- MODULE BackendCalls -----------------------------
(***************************************************************************)
(* The backend tools, from the HTTP request to the answer: authentication, *)
(* the gate of the backend tools (of ToolGate the model has the number of  *)
(* permits), the check of the session's owner or the creation of a session *)
(* and the saving of its ownership, the message to the backend, and the    *)
(* answer; under the deadline of the tool, clients that go away, a backend *)
(* that fails or hangs, failed saves, and restarts in which the            *)
(* environment may have changed.                                           *)
(*                                                                         *)
(* Saving is remember_session of DurableState, seen from the call: once    *)
(* started it is a task of its own that outlives the call. The backend is  *)
(* external: it gives every session an id of its own.                      *)
(***************************************************************************)
EXTENDS Authentication, BoundedCollections, BoundedTexts

CONSTANTS
  Environments, \* the environments that the bridge is started in, by name
  Requests,     \* what the clients present
  Calls,        \* tool calls in flight
  Principals,
  SessionIds,   \* bound: ids the backend gives out
  Slots,        \* concurrency of the backend tools
  Replies,      \* what the backend may send
  Limits        \* the configured limit of a response, those of the tools, the
                \* notice, and the paths that are inside the work directory

EnvNames == DOMAIN Environments
Configs  == [e \in EnvNames |-> Config(Environments[e])]

ASSUME CallsAssumption ==
  /\ Slots \in Nat \ {0} /\ IsFiniteSet(Calls)
  /\ None \notin EnvNames \cup Calls \cup Principals \cup SessionIds
  /\ \A e \in EnvNames, request \in Requests :
       Acceptable(Environments[e]) =>
         Authenticated(Configs[e], request).who \in Principals \cup {None}

ASSUME RepliesAssumption ==
  /\ Limits.response \in Nat /\ Limits.file \in Nat /\ Limits.prompt \in Nat
  /\ Limits.search \in Nat /\ Limits.search >= 2
  /\ Limits.notice \in Seq({1}) /\ Limits.notice # <<>>
  /\ \A reply \in Replies :
       /\ reply.text \in Seq(Nat \ {0}) /\ reply.chunks \in Seq(Nat)
       /\ Total(reply.chunks) = Total(reply.text)
       /\ Len(reply.content) \in {0, 1} /\ Len(reply.list) \in {0, 1}
       /\ reply.content \in Seq(Seq(Nat \ {0}))
       /\ reply.list \in Seq(Seq([path : STRING, chars : Nat]))

VARIABLES
  env,          \* the environment of the running process, or None
  sessions,     \* AppState.sessions: per principal, oldest first
  disk,         \* the sessions in the state file
  task,         \* the transaction that saves an ownership, or NoTask
  pc,           \* where each call is
  tool,         \* which of the backend tools it is
  caller,       \* who it is from, and how that is known
  session,      \* the session it is for, or None
  answer,       \* what it returns, and the reply that this was made from, or None
  \* the backend, and history
  born,         \* born[s]: the principal that s was created for, or None
  prompts,      \* prompts[s]: whose messages were sent to s
  remembered    \* the sessions whose ownership has been saved

callVars == <<pc, tool, caller, session, answer>>
vars == <<env, sessions, disk, task, callVars, born, prompts, remembered>>

config == Configs[env]

Tools    == {"bridge_prompt", "bridge_read_file", "bridge_search"}
NoTask   == [for |-> None, who |-> None, id |-> None, stage |-> "none"]
TaskSet  == [for : Calls \cup {None}, who : Principals, id : SessionIds,
             stage : {"saving", "saved"}]

\* The calls that hold a permit.
Admitted == {c \in Calls : pc[c] \notin {"idle", "queued"}}

Init ==
  /\ env = None
  /\ sessions = [p \in Principals |-> <<>>]
  /\ disk = [p \in Principals |-> <<>>]
  /\ task = NoTask
  /\ pc = [c \in Calls |-> "idle"]
  /\ tool = [c \in Calls |-> "none"]
  /\ caller = [c \in Calls |-> Nobody]
  /\ session = [c \in Calls |-> None]
  /\ answer = [c \in Calls |-> None]
  /\ born = [s \in SessionIds |-> None]
  /\ prompts = [s \in SessionIds |-> {}]
  /\ remembered = {}

-----------------------------------------------------------------------------
(* The process *)

\* main: the environment is accepted, and the state file is loaded.
Start(e) ==
  /\ env = None
  /\ Acceptable(Environments[e])
  /\ env' = e
  /\ sessions' = [p \in Principals |->
                    IF Configs[e].durable
                    THEN DropOldest(disk[p], Configs[e].maxSessions) ELSE <<>>]
  /\ UNCHANGED <<disk, task, callVars, born, prompts, remembered>>

\* The process ends at any point; its calls and its transaction end with it.
Stop ==
  /\ env # None
  /\ env' = None
  /\ sessions' = [p \in Principals |-> <<>>]
  /\ task' = NoTask
  /\ pc' = [c \in Calls |-> "idle"]
  /\ tool' = [c \in Calls |-> "none"]
  /\ caller' = [c \in Calls |-> Nobody]
  /\ session' = [c \in Calls |-> None]
  /\ answer' = [c \in Calls |-> None]
  /\ UNCHANGED <<disk, born, prompts, remembered>>

-----------------------------------------------------------------------------
(* A call *)

Go(c, from, to) ==
  /\ pc[c] = from
  /\ pc' = [pc EXCEPT ![c] = to]

\* The call is over. The permit, if it had one, is free; a transaction that it
\* started goes on by itself.
End(c) ==
  /\ pc' = [pc EXCEPT ![c] = "idle"]
  /\ tool' = [tool EXCEPT ![c] = "none"]
  /\ caller' = [caller EXCEPT ![c] = Nobody]
  /\ session' = [session EXCEPT ![c] = None]
  /\ answer' = [answer EXCEPT ![c] = None]

\* require_mcp_auth lets the request in, once and for all, and call_tool starts.
\* The prompt may name any session id, or none.
Arrive(c, request) ==
  /\ env # None
  /\ Go(c, "idle", "queued")
  /\ Authenticated(config, request).who # None
  /\ caller' = [caller EXCEPT ![c] = Authenticated(config, request)]
  /\ \/ /\ tool' = [tool EXCEPT ![c] = "bridge_prompt"]
        /\ \E s \in SessionIds \cup {None} : session' = [session EXCEPT ![c] = s]
     \/ /\ \E other \in {"bridge_read_file", "bridge_search"} :
             tool' = [tool EXCEPT ![c] = other]
        /\ UNCHANGED session
  /\ UNCHANGED <<env, sessions, disk, task, answer, born, prompts, remembered>>

\* backend_slots.acquire
Admit(c) ==
  /\ Cardinality(Admitted) < Slots
  /\ Go(c, "queued", "admitted")
  /\ UNCHANGED <<env, sessions, disk, task, tool, caller, session, answer, born,
                 prompts, remembered>>

\* Mutant: the session is looked for in every history.
OwnsSession_Anybody(principal, id) ==
  \E p \in Principals : id \in Elements(sessions[p])

\* owns_session
OwnsSession(principal, id) == id \in Elements(sessions[principal])

\* require_session. From here on the answer is not asked for again.
CheckOwner(c) ==
  /\ tool[c] = "bridge_prompt" /\ session[c] # None
  /\ OwnsSession(caller[c].who, session[c])
  /\ Go(c, "admitted", "sending")
  /\ UNCHANGED <<env, sessions, disk, task, tool, caller, session, answer, born,
                 prompts, remembered>>

\* POST /session reaches the backend, which creates a session.
Create(c) ==
  /\ tool[c] = "bridge_prompt" /\ session[c] = None
  /\ Go(c, "admitted", "created")
  /\ \E s \in SessionIds :
       /\ born[s] = None
       /\ born' = [born EXCEPT ![s] = caller[c].who]
       /\ session' = [session EXCEPT ![c] = s]
  /\ UNCHANGED <<env, sessions, disk, task, tool, caller, answer, prompts, remembered>>

Remembered(who, id) ==
  [sessions EXCEPT ![who] = RememberBounded(@, id, config.maxSessions)]

\* The reply names the session, and remember_session has its turn at the gate.
\* Without a state file the memory is all there is; with one, a task is spawned.
Remember(c) ==
  /\ pc[c] = "created" /\ task = NoTask
  /\ IF config.durable
     THEN /\ Go(c, "created", "waiting")
          /\ task' = [for |-> c, who |-> caller[c].who, id |-> session[c],
                      stage |-> "saving"]
          /\ UNCHANGED <<sessions, remembered>>
     ELSE /\ Go(c, "created", "sending")
          /\ sessions' = Remembered(caller[c].who, session[c])
          /\ remembered' = remembered \cup {session[c]}
          /\ UNCHANGED task
  /\ UNCHANGED <<env, disk, tool, caller, session, answer, born, prompts>>

\* The transaction has saved the sessions with the new one.
Save ==
  /\ task.stage = "saving"
  /\ disk' = Remembered(task.who, task.id)
  /\ remembered' = remembered \cup {task.id}
  /\ task' = [task EXCEPT !.stage = "saved"]
  /\ UNCHANGED <<env, sessions, callVars, born, prompts>>

\* Mutant: the call goes on as if the session had been saved.
SaveFails_Ignored ==
  /\ task.stage = "saving"
  /\ task' = NoTask
  /\ pc' = [c \in Calls |-> IF c = task.for THEN "sending" ELSE pc[c]]
  /\ UNCHANGED <<env, sessions, disk, tool, caller, session, answer, born, prompts,
                 remembered>>

\* The save fails: the call that waits for it, if it still does, reports that.
SaveFails ==
  /\ task.stage = "saving"
  /\ task' = NoTask
  /\ IF task.for = None THEN UNCHANGED callVars ELSE End(task.for)
  /\ UNCHANGED <<env, sessions, disk, born, prompts, remembered>>

\* The saved sessions are published, and the call goes on.
Publish ==
  /\ task.stage = "saved"
  /\ sessions' = Remembered(task.who, task.id)
  /\ task' = NoTask
  /\ pc' = [c \in Calls |-> IF c = task.for THEN "sending" ELSE pc[c]]
  /\ UNCHANGED <<env, disk, tool, caller, session, answer, born, prompts,
                 remembered>>

\* POST /session/{id}/message reaches the backend.
Send(c) ==
  /\ Go(c, "sending", "prompting")
  /\ prompts' = [prompts EXCEPT ![session[c]] = @ \cup {caller[c].who}]
  /\ UNCHANGED <<env, sessions, disk, task, tool, caller, session, answer, born,
                 remembered>>

\* What a tool makes of a reply.
Made(name, reply) ==
  CASE name = "bridge_prompt"    -> PromptAnswer(reply, Limits)
    [] name = "bridge_read_file" -> FileAnswer(reply, Limits)
    [] name = "bridge_search"    -> SearchAnswer(reply, Limits)

\* The response has been read, and there is an answer in it.
Answered(c) ==
  /\ \/ Go(c, "prompting", "answered")
     \/ tool[c] # "bridge_prompt" /\ Go(c, "admitted", "answered")
  /\ \E reply \in Replies :
       /\ Made(tool[c], reply).from # "error"
       /\ answer' = [answer EXCEPT ![c] =
                       [reply |-> reply, made |-> Made(tool[c], reply)]]
  /\ UNCHANGED <<env, sessions, disk, task, tool, caller, session, born, prompts,
                 remembered>>

\* The permit is dropped and the result returned.
Finish(c) ==
  /\ pc[c] = "answered"
  /\ End(c)
  /\ UNCHANGED <<env, sessions, disk, task, born, prompts, remembered>>

\* The task that a call waits for when it leaves is nobody's from then on.
Detached(c) == IF task.for = c THEN [task EXCEPT !.for = None] ELSE task

\* The call ends before its answer: refused as busy; an argument, directory or
\* session that is refused; a request or a response of the backend that fails,
\* with or without effect; the deadline; or the client went away.
Leave(c) ==
  /\ pc[c] \notin {"idle", "answered"}
  /\ End(c)
  /\ task' = Detached(c)
  /\ UNCHANGED <<env, sessions, disk, born, prompts, remembered>>

\* Mutant: the deadline covers the check and the creation of a session only.
TimesOut_BeforeSending(c) ==
  /\ pc[c] \in {"admitted", "created", "waiting"}
  /\ Leave(c)

\* The case in which the deadline of the tool passes (30 s, 120 s for a prompt): it
\* runs from the permit to the answer.
TimesOut(c) ==
  /\ pc[c] \notin {"idle", "queued", "answered"}
  /\ Leave(c)

Next ==
  \/ \E e \in EnvNames : Start(e)
  \/ Stop
  \/ Save \/ SaveFails \/ Publish
  \/ \E c \in Calls :
       \/ \E request \in Requests : Arrive(c, request)
       \/ Admit(c) \/ CheckOwner(c) \/ Create(c) \/ Remember(c) \/ Send(c)
       \/ Answered(c) \/ Finish(c) \/ Leave(c)

Spec == Init /\ [][Next]_vars

\* The deadline of a call that has a permit passes, and a call that has its answer
\* returns. Permits are given out in the order of the queue (ToolGate), so nobody is
\* passed over for ever. Nothing is assumed of the backend, of a save, of clients,
\* nor of the 5 s that a call waits for its permit.
FairSpec ==
  Spec /\ \A c \in Calls : WF_vars(TimesOut(c) \/ Finish(c)) /\ SF_vars(Admit(c))

-----------------------------------------------------------------------------
(* Properties *)

Histories == [Principals -> Seq(SessionIds)]

TypeOK ==
  /\ env \in EnvNames \cup {None}
  /\ sessions \in Histories /\ disk \in Histories
  /\ task \in TaskSet \cup {NoTask}
  /\ pc \in [Calls -> {"idle", "queued", "admitted", "created", "waiting",
                       "sending", "prompting", "answered"}]
  /\ tool \in [Calls -> {"none"} \cup Tools]
  /\ caller \in [Calls -> [who : Principals, how : {"token", "oauth", "anonymous"}]
                            \cup {Nobody}]
  /\ session \in [Calls -> SessionIds \cup {None}]
  /\ answer \in [Calls -> {None} \cup
                   UNION {{[reply |-> reply, made |-> Made(name, reply)] :
                             name \in Tools} : reply \in Replies}]
  /\ born \in [SessionIds -> Principals \cup {None}]
  /\ prompts \in [SessionIds -> SUBSET Principals]
  /\ remembered \subseteq SessionIds

\* "Backend sessions created through the bridge are tracked per authenticated
\* principal and ownership is persisted across bridge restarts" (SECURITY.md): a
\* message goes only to a session that was created for its sender, however many
\* others the sender's calls push out of the history between the check and the
\* message, and whatever restarts, changed environments, failed saves and
\* abandoned transactions lie in between; and no history, in memory or on disk,
\* takes over another principal's session.
OnlyCreatorPrompts ==
  /\ \A s \in SessionIds : prompts[s] \subseteq {born[s]}
  /\ \A p \in Principals :
       \A s \in Elements(sessions[p]) \cup Elements(disk[p]) : born[s] = p

\* "Reusable session ownership [is] saved before a successful response" (README):
\* no message is sent to a session whose ownership could not be saved, although
\* the backend has created it; and the session that an answer names can be used
\* again after a restart, or newer ones fill the history.
OwnershipBeforeUse ==
  /\ \A s \in SessionIds : prompts[s] # {} => s \in remembered
  /\ \A c \in Calls :
       pc[c] = "answered" /\ tool[c] = "bridge_prompt" /\ config.durable =>
         \/ session[c] \in Elements(disk[caller[c].who])
         \/ Len(disk[caller[c].who]) >= config.maxSessions

\* "MCP_ALLOW_UNAUTHENTICATED=true is accepted only on a loopback listener"
\* (README): a call without credentials is served only when none are configured
\* and the server listens on the loopback host. "Secret-looking variables cannot be
\* added through MCP_CHILD_ENV_ALLOW": the list of what shells, programs and the
\* helper are given has none. And a number out of range stops the process: no history
\* has room for none, or without end.
StartedSafely ==
  /\ \A c \in Calls :
       caller[c].how = "anonymous" =>
         config.tokens = <<>> /\ ~config.oauth /\ config.loopbackHost
  /\ env # None =>
       /\ \A name \in config.childEnv : ~IsSecretEnvName(name)
       /\ config.maxSessions \in Nat \ {0} /\ config.maxSessions <= 10000

\* What the backend sent was received as a whole.
Complete(reply) == Total(reply.text) <= Limits.response

\* What comes out of a document is the document's, and the backend had sent no more
\* than that; a search result is the longest list of leading allowed entries that
\* fits; and a text that is shorter than its tool's limit is all of the reply, or has
\* the whole notice at its end. (A text of that limit may have lost its notice, and
\* what followed it.)
AnswerIsExact(name, reply, made) ==
  LET limit   == IF name = "bridge_prompt" THEN Limits.prompt ELSE Limits.file
      allowed == Allowed(reply.list[1], Limits.inside)
  IN  \/ /\ made.from = "document" /\ Complete(reply)
         /\ made.text = IF name = "bridge_prompt" THEN reply.content[1]
                        ELSE First(Least(limit, Len(reply.content[1])), reply.content[1])
      \/ /\ made.from = "list" /\ Complete(reply)
         /\ made.text = First(Greatest({n \in 0..Len(allowed) :
                                          ListChars(allowed, n) <= Limits.search}),
                              allowed)
      \/ /\ made.from = "text"
         /\ \/ Len(made.text) = limit
            \/ Complete(reply) /\ made.text = reply.text /\ made.notice = 0
            \/ ~Complete(reply) /\ made.notice = Len(Limits.notice)

\* The caller can tell what it got, wherever a chunk or a character meets a limit
\* ("Limit whole entries so even a capped response remains valid JSON",
\* backend.rs:225).
AnswersAreExact ==
  \A c \in Calls :
    pc[c] = "answered" => AnswerIsExact(tool[c], answer[c].reply, answer[c].made)

\* A call that waits for a permit gets its turn and ends, though those before it wait
\* for a backend that hangs, or behind a transaction that is stuck: the deadline of a
\* tool covers everything its permit is held for.
QueuedCallsEnd ==
  \A c \in Calls : pc[c] = "queued" ~> pc[c] = "idle"
=============================================================================
