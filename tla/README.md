# opencode-mcp-bridge: TLA+ models and proofs

This directory holds a verification development of the bridge: TLA+ modules
translated from the Rust sources, the Node.js helper and the deployment script, TLC
configurations that check them on small instances, and TLAPS proofs of the
properties that matter most, for every value of the constants. Paths are relative to
the repository; `PROJECT.json` maps each definition to the lines it models.

## 1. The system

The bridge is one process. It serves MCP tool calls over HTTP, is its own OAuth
authorization server, runs programs for its callers, drives a browser through a
Node.js helper, and forwards prompts to a local OpenCode backend. All handlers
run concurrently on one tokio runtime. A handler is a future that can be dropped
at any `await` when its client goes away.

| Component | State it keeps | Operations | Interacts with |
|---|---|---|---|
| Durable state (`state.rs`, `durable.rs`, `oauth/mod.rs`, `oauth/memory.rs`) | maps of codes, access tokens, refresh tokens, clients; session history per principal; the state file; the mutex `durable_mutations` | token exchange and rotation, registration, `remember_session`, cleanup, login, load | everything that authenticates; backend client |
| Bounded collections (`oauth/memory.rs`, `state.rs`) | none | `insert_bounded`, `remember_bounded` | durable state |
| Tool gate (`limits.rs`) | two semaphores per tool class | `acquire`, drop of the permit | shell, browser and backend tools |
| Browser helper (`browser.rs`, `scripts/browser.cjs`) | a mutex-protected slot with the child process and its next request id | action, prewarm, shutdown | tool gate, lifecycle |
| Process supervisor (`process.rs`) | per call: child, group guard, reader tasks, capture buffers | run, time out, drop | operating system |
| Client directory (`oauth/client.rs`, `oauth/memory.rs`) | the client map: registrations and cached metadata documents | resolve, fetch, cache, register, clean up | durable state |
| Throttling (`oauth/memory.rs`, `oauth/mod.rs`) | buckets of event times | check, record, clear, sweep | login and registration endpoints |
| Backend client (`backend.rs`) | none of its own | read a file, search, prompt (check the owner, or create and remember a session; send) | tool gate, session ownership |
| Lifecycle (`main.rs`) | cancellation token, tasks | start, signal, drain, clean up | all |
| Authentication (`auth.rs`) | none | determines the principal of a request | configuration, durable state, MCP surface |
| MCP surface (`tools.rs`) | none | dispatch | all tools |
| Configuration (`config.rs`) | none | reads and refuses environments | all |
| Utilities (`util.rs`) | none | clock, random tokens, truncation | all |
| Guarded deployment (`scripts/deploy-user-service.sh`, `scripts/package-release.sh`) | lock file, installed package, rollback snapshot, transient unit | synchronize, build, hand over, restart, verify, roll back | systemd, git |
| Other scripts (`scripts/`) | none | install, bootstrap, launch a browser, scan | |

### What is hard here

- **Transactions across awaits.** A token exchange validates, draws tokens,
  writes a whole-state file on a blocking thread and publishes three maps under
  three locks. Only the gate, taken before validation and held by a task that
  outlives its request, makes that atomic. Logins and metadata lookups change
  the same maps without it.
- **Crashes and failed saves.** The file is the commit point; the memory follows
  it step by step; a restart may come in between.
- **Cancellation at every await.** Permits, helper processes, group guards and
  file writers are owned by values whose destructors do the work.
- **Reused names.** Process numbers are reused by the system, request ids wrap,
  cached clients are replaced under the reader.
- **A deployment that outlives its lock.** A script started by the service that it
  restarts must hand the restart over, and is alone neither before nor after.
- **Checked here, used later.** A call determines its principal and checks the
  owner of a session, and then waits, for a permit, a transaction, a backend.
- **Full collections.** Every map is bounded, and what it evicts matters.
- **Time.** A clock read before a lock is used after it; windows, lifetimes and
  deadlines are compared at their boundaries.

`PROJECT.json` lists these hazards one by one, at the line where they bite, with
the properties that would catch them.

### What makes each component correct

- Durable state: a credential is exchanged at most once, over races, failed
  saves, lost answers and restarts; nothing unsaved is accepted; nothing saved
  is overwritten; entries leave their maps only for the reasons the code gives.
- Tool gate: no permit is lost, no slot idles while somebody waits, every call ends.
- Browser helper: an answer reaches the action that asked, one helper runs and
  can always be reached, a hang keeps the mutex from the next action, and the bridge from
  shutting down, only up to a deadline.
- Process supervisor: a call kills its whole group when it should, and never
  anything else; captured output that is neither marked truncated nor has the report
  of a failed read in it is complete; a full pipe or a lingering descendant does not block a call; on Windows the script
  file of a call is there for as long as the program runs, and no longer.
- Backend calls: a prompt reaches only a session that was created for its sender
  and whose ownership has been saved; a queued call gets its turn; the caller can tell
  what an answer lacks, where the code lets it.
- Configuration and authentication: without credentials nobody is served, except
  where that was asked for, nothing else is configured, and only the machine itself
  can connect; the list of variables that shells, programs and the helper are given
  (`childEnv`) has none with a name that looks secret; numbers are in range. (A child
  that is given no list inherits everything: `taskkill.exe`, `process.rs:663`.)
- Limits: half a document is refused; a search result is the longest list of leading
  allowed entries that fits; a text that is shorter than its tool's limit is whole, or
  ends with the notice. The limits of the tools leave no mark of their own: `trunc` cuts
  what `read_file` and `prompt` quote at `backend.rs` 59, 62, 65 and 171, with the
  notice of line 302 if that is where it is, and the cap of a search (216-218) is silent.
- Client directory: bounded size, bounded staleness, no fresh entry removed.
- Throttling: exact within its window, in a table of bounded size.
- Deployment: a run that is not disturbed installs the whole new package or goes
  back to the program that ran when it began; wherever a script is killed, a whole
  program is on the disk or in the snapshot.

## 2. Modules

| Module | Models | Lines it follows |
|---|---|---|
| `BoundedCollections` | `insert_bounded`, `remember_bounded` as operators | `oauth/memory.rs` 65-114, `state.rs` 206-217 |
| `DurableState` | the transactions on the durable state | `oauth/mod.rs` 122-553, `oauth/memory.rs` 31-225, `state.rs` 101-190, `durable.rs` 44-180 |
| `CredentialLedger` | abstract: what the token endpoint promises | (implemented by `DurableState`) |
| `PowerLoss` | `DurableState` on a machine that loses power | `durable.rs` 155-180 |
| `ToolGate` | the admission gate, on tokio's semaphore | `limits.rs` |
| `BrowserWorker` | the helper slot, the helper, prewarm, shutdown | `browser.rs` 25-56, 246-468, `main.rs` 215-290, `scripts/browser.cjs` 79-148 |
| `ClientDirectory` | client lookups, fetches, registrations, cleanup | `oauth/client.rs` 112-352, `oauth/memory.rs` 14-225 |
| `RateLimiter` | throttling of logins and registrations | `oauth/memory.rs` 150-161, 251-335 |
| `ProcessSupervisor` | one program run per call, on Unix or on Windows | `process.rs` 56-122, 207-240, 311-340, 419-678 |
| `Configuration` | which environments are refused, and the configuration taken from the others | `config.rs` 14-516 |
| `Authentication` | the principal of a request | `auth.rs` 25-90 |
| `BackendCalls` | calls of the backend tools, with all they go through and what they answer | `backend.rs` 45-180, `tools.rs` 109-158 and 226-262, `state.rs` 101-172, `main.rs` 141-157 |
| `BoundedTexts` | the limits of responses, documents, search results, captures and quoted texts, and the answers that the tools make with them, as operators | `backend.rs` 45-84, 156-228 and 288-351, `oauth/client.rs` 234-258, `process.rs` 586-600, `util.rs` 21-31 |
| `Deployment` | runs of the guarded update | `scripts/deploy-user-service.sh` 28-331, `scripts/package-release.sh` 9-16, `deploy/mcp-bridge.service` |
| `Admission_proofs` | theorems and proofs about `ToolGate` and `RateLimiter` | |
| `*_proofs` (others) | inductive invariants, theorems and proofs, for the module of that name; `BackendCalls_proofs` has those about `BoundedTexts`, too | |
| `MC*` | symmetry, sets, environments and requests for TLC | |

`DurableState` composes `BoundedCollections`; `PowerLoss` extends `DurableState`;
`DurableState` instantiates `CredentialLedger` under a refinement mapping.
`BackendCalls` composes `Configuration`, `Authentication`, `BoundedCollections` and
`BoundedTexts`, and has of `ToolGate` the number of permits and of `DurableState` the transaction
that remembers a session, as its call sees them. The others are independent: they
share no state in the code except where noted below (the client map, of which
`DurableState` sees the registrations and `ClientDirectory` both kinds; a browser
action, which in `BrowserWorker` already holds its `ToolGate` permit).

A definition whose name has the form `Action_Fault` is a mutated form of
`Action`: a plausible bug. It is not part of any specification; `PROJECT.json`
("mutants") says which property each one breaks.

### DurableState

`codes`, `access`, `refresh`, `clients`, `sessions` are the maps of `AppState`;
`disk` is the state file; `gate` is the holder of `durable_mutations`. A task is
a request (or a round of the cleanup loop) in flight: queued for the gate,
holding it, saving a prepared snapshot, then `saved`, `half` and `publishing`
while it publishes map after map. `Disconnect` is a client that goes away while
its request waits for the gate; once the transaction has been spawned nothing
can cancel it, and only the answer is lost (`answered`).

- The reason for `at`: one clock reading per transaction. The code reads the
  clock in the validation and again when it prepares; the model takes both at
  the same instant, with the time free to advance before and after.
- A value stored under a random key never changes, so a map is the set of its
  keys and the issue times are kept apart (`codeAt`, `issuedAt`, ...). An
  exchange draws an access and a refresh token together: a *grant* names both.
- `Refuse` is any early return of the endpoint: unknown or expired credential,
  wrong client, redirect URI, resource or PKCE verifier, full client directory.
  Which of them applies depends on data the model does not have, so a refusal
  is always possible. The success path has the guard that matters
  (`Redeemable`).
- `clients` holds the registrations only. Cached metadata documents, which count
  for the capacity in the code, appear as the refusal that is always possible;
  `ClientDirectory` has them.
- `Save` is the whole of `save_owned` and `write_atomic`: the blocking writer
  keeps `write_lock` to its end even if its caller is dropped, and the task that
  calls it cannot be dropped. A crash inside it leaves either file.
- `Durable = FALSE` is `MCP_STATE_FILE=:memory:`: nothing is saved and a restart
  forgets everything.

### ToolGate

`admitted` and `running` are the permits of the two semaphores, `queue` the
waiters of `running` and `assigned` those that were handed a permit and have not
been polled since. `Withdraw` is the drop of the acquisition at its await, which
must pass on a permit that had been assigned. tokio's semaphore is external: the
module has what the gate relies on (first in, first out; hand-over on release).

### BrowserWorker

`slot` is the `Option<BrowserWorker>` in the mutex, `lock` its holder, `own` the
helper that a task has taken out of the slot or is starting; `stdin` and `stdout`
are the pipes. An answer carries the request it was computed for, which the code
cannot see: it compares ids only. `Cancel` is the deadline of an action or its
dropped future, at any await. `Unreadable` is an answer that the helper cuts
after a number of UTF-16 units, in the middle of a surrogate pair: the half that
is left makes JSON that `serde_json` refuses, and the helper is discarded (the action
fails all the same, although it was performed). A helper is replaced (`Spawn`) when it
has exited, and also when `try_wait` cannot tell (`browser.rs:345`). `Signal`,
`EndDrain`, `TerminateWorker` and `Exit` are the shutdown in `main`; `ServerFails` is
the server that ends by an error, without a drain (`main.rs:249`). That the runtime's
own drop ends is not modelled.

### ClientDirectory

`clients` maps ids to entries with an expiry and, for cached documents, the
version they hold. A lookup reads the clock, looks under the read lock
(`Lookup`), looks again under the write lock when the entry had expired
(`Recheck`), fetches (`Answered`, `Fetch`) and caches (`Cache`, which judges what has
expired by a clock read before the lock). The map begins with the registrations of the
state file. A registration reads the clock when it has the gate (`RegisterBegins`), then
waits for the map and looks for room (`RegisterLocks`), and keeps the map locked while
it saves (`Unlocked`) to the end (`Registered`, `RegisterFails`); its lifetime counts
from when its client was issued, before the wait for the gate. Cleanup reads the clock
(`CleanUp`), drops cached documents (`CacheCleaned`), saves, and publishes
(`CleanedUp`). The gate here is the `durable_mutations` of `DurableState`, held by a
registration or by cleanup. The id of a registration is drawn while it holds the gate;
the code draws it just before, which no other operation can see.

### RateLimiter

`failed` maps a bucket (purpose, kind, value) to the times of its events. A
request passes the check (`Pass`), and records (`Record`), succeeds (`Succeed`)
or disappears (`Abandon`) later. `any_rate_limited` stops at the first limited
key, so the buckets behind it are not pruned (`Looked`). `prune` pops the times from
the front while they are outside the window (`PopFront`). `recorded` is what was
recorded since the bucket was last cleared or evicted, and is never pruned. A check
and the cleanup read the clock before they lock the table, so they judge by a time that
may be past (`at`); `record_rate_event` reads it under the lock. The factors of the per-user and the global limit are constants (2 and 16 in the
code) so that small instances reach them. The specification, its state and its type
invariant carry names of their own (`LimiterSpec`, `stage`, `LimiterTypeOK`), so that
one module can hold the proofs about it and about `ToolGate`.

### ProcessSupervisor

`procs` is the operating system's process table: who started a process, its
group, whether a signal to the group, or `taskkill`, would miss it (`away`).
Numbers are reused: on Unix when neither a process nor a group has them, on Windows as
soon as the process is gone, and `taskkill` is assumed to tell a parent from a later
process with its number. `child` and `guard` are the number of the program a call
started and the number that its guard would kill. One stream stands for standard
output and error. A stranger's process has no effect except that it may take a
number. `ReadFails` is the reader's error (`process.rs:625`): it appends a report, as a
whole or as far as there is room, and stops, and the capture is not marked. When waiting
fails, the guard stays armed: perhaps somebody else has waited for the program
(`stolen`), and its number may be another's by the time the guard kills.

`windows` is drawn once, at the start. On Unix a process leaves the group with
`setsid` (`Detach`), the group is killed by number, and a client that goes away
drops the future that runs the program (`Dropped`), with its guard and its reader.
On Windows that future is a task of its own, which learns that its caller is gone
(`gone`, then `Cancelled`) and does what it does at the deadline: `TaskKill` ends
the tree, in one step, or fails or runs into its 2 s having ended any part of it, and
then the program alone is killed. `taskkill` finds processes by their parents, so those
whose parent has exited are `away`, and when the program itself has, all are
(`Die`). `script` is the temporary file of a long PowerShell command. `BridgeEnds`
drops the supervisor with everything else; a bridge that is killed outright leaves the
script file, and is not modelled. Processes that are `away` escape: that
is what groups and trees can do, and the properties say so.

### Configuration, Authentication

An environment is a record of what the variables say, with the texts reduced to
what decides: a URL to its scheme, whether its host is the loopback host and
whether it is bare; a password to its length. The name of a variable is the sequence of
the pieces it falls into around the texts that `is_secret_env_name` looks for, so a text
is found wherever it is in the name, as in the code (`AUTHOR` is refused for its `AUTH`).
Of the variables some count as unset when they are blank; a blank `MCP_PROFILE` is
refused (`config.rs:16`). `Ranges` has the names, defaults and ranges of all
numbers. A value out of range is refused, never moved into the range.
`Acceptable` is `Config::from_env` returning `Ok`; every conjunct is one of its
errors, the work directory that does not exist among them. Other paths, hosts that are
not loopback hosts, and the switches of the tools are left out.

`Authenticated` takes the three places a secret may be in as one set. The first
configured token that is among them decides; then an OAuth access token, of which
the model has whose it is, or that it is none; then anonymous access.

### BackendCalls

- `Start` takes any acceptable environment, so a restart may change tokens, names,
  limits and the kind of state file; `Stop` may come at any point and is the crash
  as well.
- A call is let in once (`Arrive`), keeps the principal to its end (`caller`), gets
  its permit (`Admit`), and if it is a prompt passes the owner check (`CheckOwner`)
  or creates a session (`Create`) and has it remembered (`Remember`). From there
  it sends (`Send`) without asking again.
- `task` is the transaction of `remember_session`. It holds the gate of
  `DurableState` and outlives the call that spawned it (`Detached`).
- `Leave` is every early end: a refusal, an error, a failed request, the deadline,
  a client that goes away. What the backend did by then stays done. `TimesOut` is its
  case in which the deadline of the tool passes, and only there for fairness.
- A call is answered (`Answered`) from any of the `Replies` that the tool makes
  something of (`Made`); `answer` has the reply and what was made of it, under the
  `Limits` of the response and of each tool.
- The backend gives every session an id of its own (`born`) and does nothing else
  by itself. `prompts` and `remembered` are history.
- `bridge_read_file` and `bridge_search` have no effect on this state but their answer.

### BoundedTexts

Bodies are sequences of chunk sizes, texts sequences of character widths, search
entries a path and a number of characters. The operators follow the loops of the
code round by round (`Loop`, a function defined by recursion over the rounds).
`Received` is the limited read of a response with its notice and with a character that
the limit splits (`Lossy`); `FileAnswer`, `PromptAnswer` and `SearchAnswer` are what the
tools make of it, in the order of the code: first the limit of the response, then, if
what was received is a document, what is in it, or else the text and the notice under
the limit of the tool. `BodyIsExact`, `SearchIsExact` and `TextIsExact` say of one input
what the operators are for.

### Deployment

A file is the commit it was built from; `live` is what the service was started
from. `exe` and `helper` are the package under `target/release`, and
`rollbackExe` and `rollbackHelper` the one snapshot all runs share.

- `lock` is the `flock` on `deploy.lock`. A run inside the service hands over to a
  transient unit (`HandOver`) and frees the lock; the worker takes it again
  (`WorkerStarts`) or is turned away.
- `Abort` is any command that fails under `set -e`, a check that fails outside
  `restart_and_verify`, or a kill: nothing is undone, the lock goes with the
  process. A failure to stop the service is ignored (`|| true`), so `Stop` may
  leave it running.
- `Restart` starts what is on the disk, if that is a whole program, or nothing;
  `RestartFails` is a `systemctl restart` that fails, and may leave the old service
  running. Health, listener and identity checks are one outcome, as are the waiting loops: when the service runs the
  program on the disk, `Verified` and `Stop` are both possible.
- The comparison of the provenance decides nothing in `Verified`, see the
  findings.
- `Crash` and `AutoRestart` are `Restart=on-failure` with its `RestartSec`: the
  service is down for a while (`Waiting`), in which the package may be replaced,
  and is started from the disk.
- `install` and `cargo build` remove a file before they write the new one. The file is
  then gone or a part (`Unfinished`) until the next step, and stays so when the script
  is killed in between. `cargo build` does nothing when the program is up to date.

## 3. What TLC checks

`cd tla; tlc -config <cfg> <module>`. Sizes are distinct states. Deadlock is
checked in every run.

| Run | Question | Instance | States |
|---|---|---|---|
| `durable_tokens` | Are codes and refresh tokens one-time, and tokens kept, over races, failures and restarts? Does the endpoint implement the ledger? | 3 tasks, 2 codes, 4 grants, maps of 1 code and 2 tokens, lifetimes 1, 2 and 3, clock to 4 | 161,742 |
| `durable_ownership` | Do sessions, registrations, exchanges and cleanup overwrite each other? Does every task end? | 2 tasks, 1 code, 1 grant, 1 client with room for 1, 3 sessions with room for 2 | 158,640 |
| `power_loss` | Does a consumed refresh token stay consumed after a power cut? (It does not, see below.) | 1 task, 3 grants | stops at the counterexample |
| `tool_gate` | Are permits conserved, does no waiter stay behind while one is free, does every call end? | 5 callers, concurrency 1 (1 runs, 3 wait, 1 is refused) | 9,946 |
| `backend_calls` | To which sessions do prompts go, in which environments does the bridge serve whom, what do answers lack, does a queued call end? | 2 calls of 1 slot, 4 principals, 2 sessions with room for 1 (or 256), 3 good and 10 bad environments, 4 requests, 4 replies | 400,667 |
| `browser_worker` | Are answers own, is there one reachable helper, is the mutex handed on, does shutdown end? | 3 actions, prewarm, 2 helpers, ids wrap after 2 | 66,296 |
| `client_directory` | Is the client map bounded, fresh, and cleaned of expired entries only? | 2 resolvers, 1 document of 2 versions, 1 registration, room for 1, clock to 4 | 2,195,732 |
| `rate_limiter` | Is throttling exact and its table bounded? | 2 requests, 2 sources, 1 user, 4 buckets for 7 keys, limits of 1, 2 and 2, window 2, clock to 3 | 245,234 |
| `process_supervisor` | Whom do the signals of a call reach, is the capture honest, who keeps the script, does a call end? | 1 call, Unix or Windows, 3 reusable process numbers, capture 1, pipe 2, 5 units written | 751,220 |
| `deployment` | Is an undisturbed deployment all or nothing, and is a program never lost? | 3 runs, 2 inside the service, 3 commits | 2,877,128 |
| `deployment_provenance` | Does success mean the expected commit? (It does not, see below.) | 2 runs, 1 inside the service, 3 commits | stops at the counterexample |
| `deployment_rollback` | Is what a rollback restores one package? (It is not, see below.) | 2 runs outside the service, 3 commits | stops at the counterexample |

The properties, with the code behaviour each is about, are stated at the end of
each module. The ones that carry most:

- `SpentIsGone`, `OneWinner`, `VisibleIsCommitted` (`DurableState`): the commit
  that spends a credential removes it from the file at once and from memory
  before the gate is free; no two exchanges have one parent; what authentication
  accepts is committed.
- `CredentialsLeaveOnlyFor`, `OwnershipIsKept`: nobody loses a
  credential, a client or a session except by expiry, use, or eviction by newer
  entries from a full map. A failed save consumes nothing.
- `ImplementsLedger`: every step of the transactions is a step of
  `CredentialLedger` or a stutter. The step that redeems is `Save`. The mapping
  takes for live what an exchange has validated and is about to spend
  (`Claimed`): a login may evict that code from the full map in between, and the
  exchange still succeeds, once.
- `NobodyWaitsForFreeSlot`, `PermitsConserved`.
- `SlotIsQuiescent`, `AnswersAreOwn`, `NoOrphan` (every helper is reachable, so
  there is one, or two while one is replaced): what `run_worker_request`
  achieves by taking the helper out of the slot.
- `MutexIsHandedOn`: who waits for the mutex gets it, though the helper hangs, because
  the deadline of the action that holds it covers the start of the helper as well as the
  request. The deadlines of those that wait are not assumed.
- `QueuedCallsEnd`: the same of the permits of the backend tools, one await after the
  other: the check, the creation, the save, the message.
- `DeploymentIsAtomic`: with other scripts, workers of earlier hand-overs and
  crashes about. A run inside the service promises this only when no other run
  interferes: another script may take the lock between the hand-over and the
  worker, and a late worker then restarts, or rolls back over, a newer
  deployment that has been verified.
- `NothingIsLost`: a program is removed from the disk before the next one is written, by
  `cargo build` and by `install`; that another is in the snapshot by then is what the
  order of `deploy-user-service.sh` is for.
- `OnlyOwnProcesses`: why the guard is disarmed between `wait` and the next `await`,
  and why work that a program leaves behind survives it.
- `GroupIsGone`, `ScriptIsHeld`: why the supervisor on Windows is a task of its
  own, and why it, not the caller, owns the script file.
- `OnlyCreatorPrompts`, `OwnershipBeforeUse` (`BackendCalls`): what `SECURITY.md:62`
  and `README.md:253` promise of session ownership, over all that may happen
  between the check and the message. The second says what an answer is worth: the
  session it names is in the state file, unless newer ones fill it.
- `StartedSafely`: `README.md:289-293`, from the environment to the call.
- `AnswersAreExact`: of the answer that a call has, under the limit of the response and
  that of its tool. What it does not promise the code does not do: a text as long as its
  tool's limit may have lost its end, and its notice with it, without a mark. The run has
  four replies, and the theorem is about any. A constant check (`LimitsAreExact` of
  `MCBackendCalls`) has the loops for all small inputs.

### Bounds, and why they are enough

- Clocks stop at a bound that lets every lifetime start late and still end; the
  lifetimes of codes, access and refresh tokens are 1, 2 and 3, so that entries
  expire before, with and after each other and the orders that eviction
  distinguishes all occur.
- Maps hold one or two entries and there are more keys than places, so every
  insertion meets an empty, a partly full and a full map.
- Two grants more than places let an exchange rotate at capacity and be rotated
  again; with three tasks, one can hold the gate while two wait for it.
- Five callers of a gate of one are one more than its capacity.
- Two helpers let one die, or be dropped, while another starts; a third would
  be in the same situation as the second. A helper number is used once.
- Two ids wrap within three requests.
- Capacities are constant over the restarts of a model: a limit that is lowered
  before the state file is loaded again is not covered, except by the histories of
  `BackendCalls`. With one client in `durable_ownership` nobody is refused
  for a full directory; the theorem `CapacitiesHold` is about any number.
- In `RateLimiter`, four buckets for seven keys force evictions; limits of 1, 2
  and 2 stand for the base, twice the base and sixteen times the base.
- In `process_supervisor`, 5 units are more than capture and pipe hold together.
  One call is enough: calls meet only through reused numbers, and there the
  strangers, who may own any free number, are as good as a second call.
- In `backend_calls`, two calls share one permit, so that one waits for the other. They
  meet all the same: the transaction of a call that has left saves and publishes, and
  pushes the other's session out of a history of one, between its check and its message.
  The bad environments differ from a good one in one variable each. A third session,
  call or permit would meet the same full history; the theorems of `BackendCalls_proofs`
  are about any number.
- The replies are a text with a character across the limit of the response, one within
  all limits, and a document that ends at the limit, with more behind it and without,
  whose text and list are longer than the limits of their tools.
- In the constant check, texts of four pieces can end before, at and after a limit, with a piece on
  either side of it, and pieces of 1 to 4 bytes can straddle it in every way.
- Three deployments: one that snapshots, one that restarts late out of a
  hand-over, and one between them; each may have a commit of its own.

Symmetry is used over identifiers that the modules do not tell apart, and only
in runs without liveness properties.

### Fairness, and why the code justifies it

- `DurableState!FairSpec`: a spawned transaction is polled until it ends, and a
  save ends one way or the other (weak fairness of `Step`). tokio's mutex is
  first come, first served, which the model renders as strong fairness of
  `Acquire`. Nothing is assumed of clients, logins, the clock, restarts.
- `ToolGate!FairSpec`: a call that runs ends (each tool has its own deadline),
  woken futures are polled, destructors run. Deadlines and cancellations of
  waiters are *not* assumed: the queue must move without them.
- `BackendCalls!FairSpec`: the deadline of a call that has its permit fires (30 s, 120 s
  for a prompt), an answered call returns, and permits are given out in the order of the
  queue, which is strong fairness of `Admit` here. Nothing is assumed of the backend, of
  saves or of clients, nor of the 5 s that a call waits for its permit.
- `BrowserWorker!FairSpec`: the deadline of the action or prewarm that holds the mutex
  fires, a free mutex is given to one that waits, and the 10 s drain and the 2 s cleanup
  end. Nothing is assumed of the helper, which may hang for ever, nor of the deadlines of
  those that wait.
- `ProcessSupervisor!PolledSpec`: the call, its supervisor and its reader are polled,
  the 250 ms and 100 ms timers and the 2 s of `taskkill` pass, and a program that wants
  to write does when the pipe has room. The deadline of the call is not assumed:
  `EveryCallEnds` has it as its hypothesis, for as long as the caller waits, and
  `OutputNeverBlocks` does without it.
- `ClientDirectory`, `RateLimiter` and `Deployment` have safety properties only.

### Findings

`power_loss` contradicts `SECURITY.md:29`, "Refresh tokens rotate; a consumed
refresh token cannot be reused." `write_atomic` syncs the temporary file
(`durable.rs:162`) and renames it over the state file (`durable.rs:173`), and
does not sync the directory. When power fails before the system writes the
directory back, the previous file is in place after the reboot, and a refresh
token that was exchanged, with the answer delivered, is exchanged again. The
run is the smallest such history. `SpentIsGone` and `OneWinner` hold for every
failure of the process itself.

`deployment_provenance` contradicts `README.md:178`, the update "verifies process
identity/listener/health/build provenance, and rolls back the packaged
binary/helper if verification fails." `restart_and_verify` compares the provenance
at `deploy-user-service.sh:235` without `|| return 1`, and is called in the
condition of an `if` (lines 275 and 328), where bash ignores `set -e`. When the
comparison fails, the function prints its success and returns 0.

`deployment_rollback` contradicts `CHANGELOG.md:95`, "snapshots the current package
for rollback". `prepare_rollback` copies the executable of the running process, and
the helper from the disk (`deploy-user-service.sh:72`). After a run that stopped
between the packaging and the restart these are of different packages, and the next
rollback restores the old executable with the newer helper.

## 4. What is proved

`tlapm <module>_proofs.tla`. There are theorems about all components with state, and
about the operators of `BoundedCollections` and `BoundedTexts`. (Those of `BackendCalls`
are about the operators of `Configuration` and `Authentication`, too.) All invariants and
action properties that the passing runs check are theorems.

Each component rests on one inductive invariant, stated at the head of its proofs, which
TLC has checked on the run's instance before. Every theorem is about all values of the
constants that satisfy the assumptions named in the component's module.

**Credentials** (`DurableState_proofs`). For all tasks, codes, grants, clients,
principals, all lifetimes and capacities of at least 1, with and without a state
file:

- `TypeCorrect`: `Spec => []TypeOK`
- `SpentStaysGone`: `Spec => []SpentIsGone`
- `ExchangeIsOneTime`: `Spec => []OneWinner`
- `OnlyCommittedIsVisible`: `Spec => []VisibleIsCommitted`
- `MemoryIsSaved`: `Spec => []MemoryMatchesDisk`
- `CapacitiesHold`: `Spec => []Bounded`
- `CredentialsLeave`: `Spec => CredentialsLeaveOnlyFor`
- `OwnershipKept`: `Spec => OwnershipIsKept`
- `LedgerImplemented`: `Spec => ImplementsLedger`

They rest on two named assumptions. `ConfigAssumption` is weaker than the ranges
outside of which `config.rs` refuses to start. `IdAssumption` says that random
identifiers of different kinds do not coincide and that there are finitely many
of them.

The first four follow from `CredentialInv` (theorem `CredentialsSafe`). None of
`SpentIsGone`, `OneWinner` and `VisibleIsCommitted` is inductive alone, for two
reasons. First, a task that holds a prepared snapshot carries an old view of
the memory to the file: what makes it harmless is that nobody else can commit in
the meantime (`GateHeld`) and that the snapshot holds only committed, unspent
tokens and the fresh one, without the one it spends (`SavingOK`). Second,
between the save and the last publication the memory still has the spent
credential, and what is about to be published must be clean (`PublishingOK`).
`Known` excludes tokens out of nowhere, which a login could otherwise turn into
a spent code. The proof that `Next` keeps the invariant has one lemma per group
of actions (`AuthorizeSafe`, `WaitingSafe`, `Preparing`, `SaveSafe`,
`PublishSafe`, `Ending`, `RestartSafe`), each with one step per conjunct the
action can disturb; `StepSafe` and `NextSafe` combine them.

The others need to know more of a snapshot than that it is clean, and rest on
`DurableInv` (theorem `DurableInvariant`), which is `CredentialInv` and `StorageInv`:

- `CapacityInv`: the snapshots fit, too. They become the file and the memory later.
- `CopyOK`: a snapshot is the memory of now, but for the maps its own job changes and
  has not published yet, and once saved it is the file. This is the heart of
  `MemoryMatchesDisk`, which says nothing while somebody publishes: a snapshot that
  misses another's change would be caught only after the fact.
- `ClocksOK`: no grant is younger than the snapshot under way. Hence the token that an
  exchange draws outlives all others in the map, `insert_bounded` never picks it, and
  who is pushed out is pushed out by entries that expire no earlier.
- `TokensOK`: what a snapshot lacks of the memory was dropped for a reason, and the
  reason still holds when it is published, map after map, at a later time.
- `JobsOK`: only exchanges draw grants, and requests name what their senders were given.

*The refinement.* `Save` of an exchange is `Redeem`, `FinishExchange` is `Answer`,
`Authorize` is `Offer`; every other step is `Vanish`, or leaves the ledger alone. The
two hard cases are `PublishRefresh`, where the mapping changes from the snapshot to
the memory and must not change its value (`CopyOK`), and `Restart`, which must
not revive anything: the file it loads is the memory or what was about
to be published. `LedgerIsOneTime` proves of the abstract specification that it
keeps what it is there to promise, by its own invariant `LedgerInv`.

`OwnershipKept` uses the theorem `RememberBoundedLosesOldest` of the collections.

**The gate** (`Admission_proofs`). For any finite set of callers and any concurrency
of at least 1: `Conserved` (`[]PermitsConserved`), `BoundedWaiting`
(`[]NobodyWaitsForFreeSlot`) and `TypeCorrect`. The invariant is `GateInv`. Counting permits is not inductive without
knowing who is in the queue: a call that withdraws must be in the queue or have
been given a permit, never both, and once (`QueueOK`), or its permit would be
counted twice or not at all. That at most three times the concurrency wait
follows from both counts: who waits is admitted and does not run, and somebody
waits only when every permit of `running` is out.

**Throttling** (`Admission_proofs`). For any finite set of requests, any sources and
users, limits, window and number of buckets of at least 1: `ThrottleExact`
(`[]ThrottleIsExact`), `BucketsLeave` (`BucketsLeaveOnlyFor`) and `LimiterTypeCorrect`
(`[]LimiterTypeOK`). The invariant is `LimiterInv`. Exactness is not inductive: a request
that is let through was checked against a bucket that had been pruned, some time ago or
not at all, and by a clock that was late; the next check prunes again. What holds
throughout is `HistoryOK`: a bucket is what was recorded for its key, in the order of
the clock, without a prefix of times that have left the window by now. Whether a limit
is reached at a time then depends on the history alone, however often the bucket was
pruned. That the number of buckets is
bounded, and that only idle ones or the oldest leave, needs the table to be finite,
which is part of the invariant, and requests to be finitely many, which is part of
`LimitAssumption`. Where pruning stops is the least of a set of numbers.

The proof found a mistake in an earlier form of the model: `Record` updated the history
by a CASE whose guards overlapped when a bucket is emptied by the very recording that
fills it again. TLC takes the first guard that holds; the semantics of CASE leaves open
which. The history is now an IF in the order that was meant.

**Backend calls** (`BackendCalls_proofs`). For any environments, requests, calls,
principals, sessions and slots that satisfy `CallsAssumption` (the names are
distinct, calls are finitely many, and `Principals` has everybody that a good
environment can authenticate), and any replies and limits that satisfy
`RepliesAssumption`: `CreatorPrompts` (`[]OnlyCreatorPrompts`),
`SavedBeforeUse` (`[]OwnershipBeforeUse`), `StartsSafely` (`[]StartedSafely`) and
`AnswersExact` (`[]AnswersAreExact`).
The invariant is `CallsInv`. `OnlyCreatorPrompts` needs that the call about to send,
and the transaction about to publish, are about a session of their own principal
(`BornOK`, `TaskOK`), since neither looks again. `OwnershipBeforeUse` needs that the
memory is what a restart would load, or is about to become that (`InStep`): the
check reads the memory, the promise is about the file. `StartsSafely` needs that
the caller was authenticated under the environment that still runs (`CallersOK`),
which a restart keeps true only because it ends every call.

**Limits** (`BackendCalls_proofs`). For inputs of any length and any limit, not just
those of the run: `BodiesExact` (chunks of any size), `TextsExact` (no character takes
less than a byte) and `SearchesExact` (any entries, any set of allowed paths, and a limit
that has room for the two brackets, as the constant `SEARCH_OUTPUT_LIMIT` has). Each loop
has an invariant that relates what it holds after n rounds to the sum of the first n
sizes: `ReadSoFar`, `GrownSoFar`, `FilterSoFar`. The last says that a result that is not
full has all allowed entries so far, and one that is full has all before the first that
did not fit; and that its count never exceeds the limit, so that the subtraction of two
`usize` in the code cannot wrap. `AnswersExact`, of the answers of the calls, rests on
these: that what a tool makes of a reply is what its document has, or its text with the
notice, cut once more, is a matter of which limit comes first.

**Deployment** (`Deployment_proofs`). For any number of runs and commits:
`NothingLost` (`[]NothingIsLost`) and `Atomic` (`DeploymentIsAtomic`). `DeploymentInv`
says of an undisturbed run, stage by stage, what is on the disk, in the snapshot and
running (`Progress`), who can hold the lock (`LockHeld`), and of any run that a program
that has run is in the snapshot before the one on the disk is touched (`Prepared`).

**Browser helper** (`BrowserWorker_proofs`). For any actions, helpers and range of
ids: `SlotStaysQuiescent` (`[]SlotIsQuiescent`), `OnlyOwnAnswers` (`[]AnswersAreOwn`),
`HelperIsReachable` (`[]NoOrphan`) and `TypeCorrect`. The invariant is `HelperInv`.
That an action gets no other's answer is not inductive, since ids wrap and the code
compares nothing else: what protects it is that a helper that is asked has at most
that one request, or its answer, in its pipes (`PipesOK`). That needs the slot to be
empty of life while a task owns a helper (`HelpersHeld`), and that only the holder of the
mutex owns one (`LockHeld`).

**Process supervisor** (`ProcessSupervisor_proofs`). For any calls, any
process numbers that are used again, any limits, on Unix and on Windows: `OnlyOwnIsSignalled`
(`[]OnlyOwnProcesses`), `GroupIsCleaned` (`[]GroupIsGone`), `ScriptOutlivesCaller`
(`[]ScriptIsHeld`), `UnmarkedOutputIsComplete` (`[]UnmarkedIsComplete`) and
`TypeCorrect`. The invariant, `SupervisorInv`, has one part about the operating
system and the others about each call. `TableOK`: a group, or a tree, is of one call, and
a process that has its number belongs to it. `OwnsGroup`: until it is waited for, the
program leads the group whose number the guard has, and all its descendants are in
it or away. `StageOK`: whom the call may have signalled by now. `CleanOK`: once killed, a group stays
empty, for nobody is left in it who could fork. `StreamOK`: what was written is
captured, in the pipe or marked, reports included, and a reader that has finished will
miss nothing; one that has failed has left its report. TLC
runs one call; that calls do not meet in the process table is proved for any number.

**Client directory** (`ClientDirectory_proofs`). For any requests, documents,
registrations, capacity and lifetimes of at least 1: `StalenessIsBounded`
(`[]StalenessBounded`), `OnlyExpiredAreRemoved` (`OnlyExpiredLeaves`) and `TypeCorrect`,
which has the capacity. The invariant is `DirectoryInv`: a version that was replaced
is in the map, or in the hands of a request, whose clock may be late, only with an expiry of at most its
replacement, one fetch and one cache lifetime (`Servable`), and the room that a
registration has seen is still there when it has saved (`GateOK`), because it keeps
the map locked meanwhile. With a fetch time and a lifetime of 0 the staleness would
not be bounded as stated: a request could be served what is replaced in the instant
it begins. `DirectoryAssumption` therefore asks for at least 1 of each; `config.rs`
refuses less than 2 s (line 164) and less than 30 s (line 176).

**Collections** (`BoundedCollections_proofs`). `InsertBoundedFits` and
`RememberBoundedFits`: the limits hold, a remembered session is in the history and
others leave it only when it is full. `InsertBoundedEvictsFirst`: an unexpired entry
is removed at capacity only, and then none that outlives one that is kept.
`RememberBoundedLosesOldest`: a history stays without duplicates, and loses only its
oldest session.

**Only model-checked**:

- All liveness properties (`EveryTaskEnds`, `EveryCallEnds` and the like): fairness and
  ENABLED are beyond the prover.
- The three runs that end in a counterexample.
- That the model and the code agree: that is read, line by line, with `PROJECT.json`.

No module uses RECURSIVE operators. Induction theorems that take an operator are out of
the provers' reach; induction over a set of numbers is not. `LeastNatural` gets the least
element of a set from the well-foundedness of `<`, `UpwardInduction` gets from that
induction on the set of the numbers for which a claim holds, and `RecursionExists` that
a function defined by recursion exists, without which nothing could be said of the loops.

## 5. What is not modelled

- **Browser endpoints** (`tabs`, `new`, `close` in `browser.rs`): one bounded HTTP
  request each to Chrome, and no state in the bridge. How much of the response is
  taken is in `BoundedTexts`; which addresses may be opened is a function of a URL.
- **OAuth pages and parameters** (`oauth/response.rs`, the checks in `oauth/mod.rs` and
  `oauth/client.rs`): redirect URIs, PKCE, resource, scope, headers and HTML. They
  decide between the outcomes that `DurableState`, `RateLimiter` and
  `ClientDirectory` leave open, as functions of texts.
- **Paths** (`backend.rs` 230-285): what is inside the work directory is a fact about
  the file system and its links; `BoundedTexts` takes it as an input.
- **Tool schemas and arguments, rendering of results** (`tools.rs`), quoting of
  commands (`process.rs`), fingerprints (`util.rs`), build provenance (`build.rs`).
- **Routing, listener, health endpoints** (`main.rs`): no state.
- **Install, bootstrap, browser launch and scan scripts**: sequential, run by hand
  or in CI.

## 6. Plan

- *Models.* `ToolGate` as an implementation of the count of permits that
  `BackendCalls` has of it, and `BackendCalls` over the gate of `DurableState`, with
  the other transactions queueing for it. An observer of authentication over
  `DurableState`: a token accepted while a transaction publishes it stays accepted
  until it expires or is pushed out.
- *Proofs.* The composition of `BackendCalls` with `ToolGate`, as a refinement, once it
  is modelled.
