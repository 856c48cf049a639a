# Factn assistant service: TLA+ models

The service puts AI assistants on other people's web sites.  A browser opens a
WebSocket to it with a key or a token; the service checks the key's project,
tenant, plan and quota, opens a Gemini Live connection for the session, and moves
text and audio between the two.  A dashboard API manages tenants, projects, tools
and keys.  MongoDB keeps the documents, Redis keeps caches, counters and
single-use tokens, and everything else is coroutines of one asyncio loop.

The modules here model the parts whose correctness depends on the order in which
these coroutines, the clients, Gemini, Redis and MongoDB act.  Paths below are
relative to `src/`.


## 1. Inventory

| component | source | state | operations | hard because | modelled in |
|---|---|---|---|---|---|
| Session manager | `core/session_manager.py`, end of `core/gemini_runner.py`, `repositories/session_repo.py` | `_sessions` (sid → state), the runner tasks, the sweep task, `db.sessions` | `get_or_create`, `_on_runner_done`, `_terminate`, `_cleanup_loop`, `stop` | sids are chosen by clients and reused; callbacks and terminations are late; cancellations are swallowed in places | `SessionManager` |
| Chat session | `api/chat.py`, `core/session_state.py`, `core/gemini_runner.py` | bounded inbox and outbox, the runner's loop, `_recv_task`, `voice_active`, the Gemini connection | client messages, frame handling, voice and text turns, interrupt, disconnect, TTL, termination | two loops per socket, several sockets per session, one receive stream, awaits without timeouts | `ChatSession` |
| Ephemeral tokens | `api/tokens.py`, `db/redis_client.py`, token path of `api/chat.py` | one Redis key per token | mint, redeem, rotate (TTL, peek, redeem, set) | rotation is four commands, and handshakes and other rotations run between them | `EphemeralTokens`, promise: `Tickets` |
| Project config | `repositories/project_repo.py`, `api/projects.py`, `db/redis_client.py` | project document, cached configuration with TTL | edits (set, delete, tools), cache-aside reads | read-modify-write of an array; update and invalidation are two commands; a reader's fill is a third | `ProjectConfig` |
| Accounts and refresh tokens | `repositories/auth_token_repo.py`, `repositories/tenant_repo.py`, `api/auth.py` | tenant documents (password, `is_active`), `auth_tokens` documents with expiry and family | register, login, refresh, logout, deactivation | a registration is three inserts and updates, a rotation is find, delete, insert; logout and a second refresh run between them; failures in the middle | `RefreshTokens`, promise: `LoginSessions` |
| Admission of a WebSocket | `api/chat.py` 81-262 and 483-493, `db/redis_client.py` 120-134, `repositories/session_repo.py` | rate-limit counters, usage of the day, key, tenant and project | key or token path, rate limit, origin, suspension, quota, cap | six commands, each on a value that may change before the next; a fixed window; a client library that repeats commands; a quota of closed sessions only | `Admission`; token path also in `EphemeralTokens`, cap in `SessionManager` |
| Tool executor | `core/tool_executor.py`, `_handle_tool_call` in `core/gemini_runner.py` | attempt, `state.tool_calls` | static tools, webhooks with retries and `Retry-After` | a receive task may be executing a tool when it is cancelled or the session ends; timeouts leave open what the backend did | `Webhooks` |
| Lifecycle events | `core/session_events.py` | fire-and-forget tasks | `session.started`, `session.ready`, `session.closed` with a retry | independent deliveries, no order; counters are read before and after an await | `Webhooks`; when the closed event is issued also `SessionManager` |
| Plan limits | `core/plan_limits.py`, `api/projects.py` 413-560 and 670-800, `api/keys.py` | the plan in the tenant document; what is configured under it | project limit, caps of TTL, rate and timeout, effective values | the plan is read when a request begins and may change before it writes; count and insert are two commands | `PlanLimits`; tools per project in `ProjectConfig`, daily quota in `Admission` |
| API keys | `repositories/api_key_repo.py`, `api/keys.py` | key documents | create, list, revoke, look up | a revoked key meets handshakes, mints and tokens under way | `Admission` (look-up, revocation), `PlanLimits` (creation) |
| Tenants | `repositories/tenant_repo.py`, `api/dependencies.py` | tenant documents | create, password, plan change, suspend, deactivate, delete | single-document updates that every other part reads once and then relies on | `RefreshTokens`, `PlanLimits`, `Admission` |
| Documents, schemas | `core/documents.py`, `core/schemas.py`, `schemas.py` | none | (de)serialisation | | initial values only |
| MongoDB, indexes | `db/mongo.py`, `db/indexes.py`, `repositories/__init__.py` | connection | set-up | | not modelled; the unique `_id` is in `SessionManager!Insert` |
| Test and analytics endpoints | `api/projects.py` 834-1085 | none | one Gemini turn under `wait_for`; reads of session documents | | not modelled |
| Start-up | `main.py` | lifespan | start, stop | order of shutdown | the call of `stop()` in `SessionManager` |
| Seed script, test page | `scripts/seed.py`, `test.html` | | | | not modelled |

How they interact.  A WebSocket handler (`api/chat.ws_chat`) resolves its project
(tokens, cache, documents), asks the session manager for the session of its sid,
and then talks to the runner through two queues of the shared `SessionState`.
The manager starts the runner as a task, hears of its end by a done callback, and
ends it by a STOP frame in the inbox and, after two seconds, by cancelling the
task.  A runner that ends writes the session's document, launches the closed
event and puts `session_ended` and a sentinel into the outbox, on which the
forward loop of a handler exits.  Dashboard requests share nothing with
handlers but documents and the Redis cache.

What makes each modelled component correct:

* **Session manager** - a cap admits no more sessions than it says, however it is
  edited; the registry holds no entry of a task that is gone; a running session is
  registered or being terminated (or was displaced by an earlier session of its
  sid), and `stop()` leaves no other behind; a document is written before the close
  is announced; a session being terminated ends, unless it has swallowed its
  cancellation.
* **Chat session** - one consumer of Gemini's stream at a time, always known to the
  runner; nothing after the sentinel; no wait for an answer that nothing
  is owed; the sentinel, once queued, reaches a forward loop.
* **Ephemeral tokens** - one mint, at most one session, across rotations, expiry and
  crashes; no rotation changes the project.
* **Project config** - tool names unique and their number within the plan however
  edits overlap; a stale cache has a known cause and does not last.
* **Tool calls and lifecycle events** - the document and the closed event agree on the
  number of tool calls; no tool request follows the closed event; what the code has
  taken as settled is not sent again; calls and deliveries end.
* **Accounts and refresh tokens** - a rotation chain has one end unless two refreshes
  raced for one token; families do not change tenant; a session that is over stays
  over; an account without a password has no tokens, wherever registration stopped.
* **Admission** - a window lets through what its limit says, whatever is repeated or
  late; a refusal for the rate is deserved; nobody gets in against an obstacle that
  stood all the while.
* **Plan limits** - a tenant exceeds its number of projects only by a race, and by no
  more than it; nothing configured exceeds every plan the tenant has had.


## 2. Plan

Written, in this order, the most important behaviour first:

1. `SessionManager`, `SessionManager_proofs`, `MCSessionManager`
2. `ChatSession`, `ChatSession_proofs`, `MCChatSession`
3. `Tickets`, `EphemeralTokens`, `EphemeralTokens_proofs`, `MCEphemeralTokens`
4. `ProjectConfig`, `ProjectConfig_proofs`, `MCProjectConfig`
5. `LoginSessions`, `RefreshTokens`, `RefreshTokens_proofs`, `MCRefreshTokens`
6. `Webhooks`, `Webhooks_proofs`, `MCWebhooks`
7. `Admission`, `Admission_proofs`, `MCAdmission`
8. `PlanLimits`, `PlanLimits_proofs`, `MCPlanLimits`

Every component with state that its handlers share is modelled, and everything the
passing runs check is proved as well, except liveness (section 5).

No module uses RECURSIVE.  Models of two
components are kept apart where the interface is narrow enough to be a few
nondeterministic steps on each side: `SessionManager` sees a runner as the phases
in which it is suspended, and `ChatSession` sees the manager as `ManagerStop` and
`ManagerCancel`.  Both describe the same runner; the table in section 3.2 relates
the two.


## 3. Modules

One action is what a coroutine does between two points at which it really
suspends (manager, chat) or one database command (tokens, cache, refresh tokens).

### 3.1 SessionManager

| TLA+ | code |
|---|---|
| `registry` | `_sessions`; `None` for an absent sid |
| `sidOf`, `projectOf` | `state.session_id`, `state.project_id` |
| `capOf` | `max_concurrent_sessions` of the `ProjectConfig` the session was created with |
| `phase` | the await at which `session_runner` is suspended; `done` before, `gone` after its done callback |
| `cancelling` | `task.cancel()` requested, not yet delivered |
| `stopQueued` | a STOP frame in the inbox; other frames are `TakeFrame` |
| `idle` | `is_idle(300)` |
| `records`, `closedSent` | `db.sessions` by `_id`; the closed event and the sentinel were issued |
| `pc`, `todo`, `target` | the coroutines `_cleanup_loop` and `stop()`: where they are, sids left, runner awaited |
| `deaf` | history: runners that have swallowed a cancellation |

`Create` and `Resume` are `get_or_create`.  The cap is no constant of a project: `PATCH`
edits it at any time (`api/projects.py:522`), a handshake brings the one its
configuration carries, which may come from the cache, and only `HasRoom` looks at it.
So `Create` may have any cap of `Caps`, each time.  Lowering a cap ends no session, and
registered sessions may be more than the cap now in force; what holds is
`AdmittedWithinCap`: of those admitted under a cap of c or less there are at most c.  `Connect` … `Saved` are the runner;
`Cancelled` delivers a cancellation, and `AfterCancel` says where each await lets
it out: the drain of an old receive task swallows it, the finally block does not.
`Sweep`, `WaitExpires`, `WaitOver` run `_terminate` over a list of sids for the
sweep and for `stop()`: sids that need no wait are passed in one step and the
first live one is popped, signalled and awaited.  The order in which a list is
walked is any order.  The manager's lock needs no variable, because no critical
section awaits.  `Create` starts a runner in `connecting`, or in `done` when
`build_gemini_config` rejects the configuration before the `try`.  `Unreliable` names
the sids whose insert may raise, so that one instance shows both kinds.

### 3.2 ChatSession

| TLA+ | code |
|---|---|
| `inbox`, `outbox` | `asyncio.Queue` of `SessionState`, `put_nowait`: a full inbox answers "busy", a full outbox drops |
| `rpc` | the await of `session_runner` |
| `cur`, `task` | `_recv_task`, and every receive task: running, cancelled, finished with the connection `alive` or `dead`, or `over` |
| `conn`, `activity`, `owed` | the Gemini connection: usable, between `activity_start` and `activity_end`, owing an answer |
| `sock`, `voiceActive`, `forward` | each handler: socket, `voice_active`, forward loop |
| `term` | how far `_terminate` has gone with this session |

Frames keep their kind only.  Everything the consumer of Gemini's stream puts
into the outbox (audio, transcripts, tool results) is one kind, `frame`.

The runner's phases in the two modules correspond as follows.

| `SessionManager!phase` | `ChatSession!rpc` |
|---|---|
| `connecting` | `connecting` |
| `serving` | `get`, `start` |
| `turn` | `textTurn`, `awaitVoice` |
| `draining` | `drain` |
| `exiting`, `saving` | `exit`, `save` |
| `done`, `gone` | `ended`, `gone` |

### 3.3 Tickets and EphemeralTokens

`store` is the Redis key of each token (never set, set, gone), `project` and
`mint` its payload and its ancestry; `hs` and `rot` are the handshakes and the
rotation requests with the token they carry.  `Redeem` is the Lua script, atomic
in Redis; `CheckTtl`, `Peek`, `Consume`, `Replace` are the commands of a rotation;
`Expire` may happen at any moment, and `Abort` is a crash or a failing Redis
between the redeem and the SET.  The client is created with `retry_on_timeout`: when
the reply to a redeem is lost, the script runs again and finds nothing, so the
handshake or the rotation is refused although its token was taken (second disjuncts
of `Present` and `Consume`).  After the redeem a handshake is admitted or
refused by checks that leave tokens alone.

`Tickets` is the promise: each mint is a ticket, valid, taken or spent, that
admits one session.  A rotation takes the ticket and returns it.

### 3.4 ProjectConfig

`rev`, `active`, `tools` are the document (a revision stands for every field that
is not looked into), `cache` and `expires` the Redis key, `edit`, `op`, `newTools`
the dashboard requests, `conn` and `got` the requests that resolve a
configuration.  `Read` is `get_by_id` with the endpoint's checks, `Write` the
`$set`, `Invalidate` the DEL (two of them for a deletion), `InvalidateFails` a
failing Redis or a stopped process between the two.  `ReadCache`, `ReadDoc`,
`Fill` are the three commands of `get_config_for_key` and `get_config_by_id`.
`heldBack` is history: the fill was already old when it was made.

A tool update replaces a tool by one of the same name, so the list of names stays
as it is.  A removal keeps the other entries in their order: `Without` reads the
array at the positions to keep, which `InOrder` lists in increasing order.  (The
provers cannot unfold `SelectSeq`, which is defined by recursion.)  The plan does not change during a behaviour.

### 3.5 LoginSessions and RefreshTokens

`account` and `enabled` are the tenant documents (none, without a password, open),
`entry` the register and login requests; `doc`, `tenant`, `family` are the `auth_tokens`
documents; `ref` and `refToken` the refresh requests.  A token stands for its own
hash, a tenant for its e-mail address.  `Register`, `SetPassword` and `Enter` are the
three commands of a registration, `LogIn` and `Enter` those of a login, and
`EntryFails` stops either in between.  `Match` is the find with the loop over its
result, at the moment the matching document is read; `Delete` and `Create` are the
next two commands, `Answer` the look-up of the tenant, after which the client gets
the new token or nothing, `Fail` a stop or an error before the new token is stored.
`Expire` and `Purge` are the clock and MongoDB's TTL index.  `loggedOut` is history.

`LoginSessions` is the promise: a login begins a session, and what is over stays
over.  A family is an active session while it has a stored token or a refresh
that has matched one.

### 3.6 Webhooks

`runner` and `consumer` are `session_runner` and the coroutine in
`_consume_gemini_responses` (`inline` when they are one), `cancelled` a cancellation
on its way to a receive task.  `call`, `left`, `attempt` are the loops of
`_handle_tool_call` and `_execute_webhook`, `counted` is `state.tool_calls`,
`recorded` and `announced` what the document and the closed event say of it.
`dlv` and `tries` are the two delivery tasks.  `posts` and `settled` are history: what
the backend has been sent, and the calls whose answer or error the code took as final.
Of the counters only `tool_calls` is here, and `recorded` is what `close_session` is
given, whether or not the insert succeeds.

`Execute` runs static and unknown tools up to the next webhook, which is the next
await.  An attempt ends in `Transient` (429, 500, 502, 503, 504, a timeout, a failed
connect) or in `Final` (a success, any other HTTP status, any other exception).  `Final`
follows the code and not its docstring, which has network errors and HTTP 5xx retried
(`core/tool_executor.py:19`): 501, 505 and the other 5xx outside `_RETRYABLE_STATUS`
(65) are final, and so is, by `except Exception` (252), a lost connection such as
`httpx.ReadError`.  `SettledIsNotRetried` speaks of what the code calls final, and does
not say that it is right to.  Durations are left out.

### 3.7 Admission

| TLA+ | code |
|---|---|
| `hs` | the command `_resolve_project` waits for, or the close code, or the session: `open` a new one, `joined` one that was running, `closed` recorded |
| `cred` | the key or token; a token is named by the mint that made it |
| `arrival`, `hits` | the window of a handshake; the counters `rate_limit:{prefix}:{window}` |
| `revoked`, `active`, `cached`, `tenant`, `plan` | key, project, cached configuration and tenant documents |
| `usage`, `today` | `get_daily_token_usage` for a start of day; the day a session started |
| `mint`, `mintKey`, `token` | `create_token` requests, the secret key, the Redis key |
| `window`, `day` | the clock |

`Count` is the increment with its comparison, `CountUnheard` an increment whose reply
is lost and which the client library sends again.  A counter has two minutes to
live and its requests give up after five seconds, so no command finds it expired.
`GetTenant` goes on to the origin, the suspension and the plan's quota without
another await, and, without a quota, into `get_or_create`.  `Enters` leaves open
whether there is room under the cap.  The configuration is served from the cache
even when the project is gone.  `Close` records the tokens of a session for the day
on which it started.

`resent` and `standing` are history; `standing` holds the obstacles (revoked key,
project neither cached nor active, tenant deleted or suspended, quota used up) that
have stood at every moment since a request's first command.

Left out: `last_used_at`, `expires_at` of keys, which no code sets, and collisions of
key prefixes.

### 3.8 PlanLimits

`plan`, `enabled` are the tenant document, `projects`, `inactive`, `setting`, `keyRpm`
the projects, their TTL, rate and tool timeout, and the keys; `req` with `planRead`,
`target`, `toolRead` the dashboard requests with the tenant and the project each has
read.  Every request is `Authenticate`, then one read, then one write: `CountProjects`
and `InsertProject`, or `ReadProject` and one of `UpdateProject`, `WriteTool`,
`InsertKey`, `SoftDelete`.  `IsWithin` and `Effective` are the helpers of
`core/plan_limits`; the table itself is the constant `Limit`.  `SessionTtl` is what
`session_runner` waits for, the stored value.  A project has at most one
tool here, as names and numbers of tools are in `ProjectConfig`.  `held` and `peak`
are history: the plans so far, and the most create requests that were ever between
count and insert.  The list that is counted ends at 1000 documents, beyond every
finite limit of the table.


## 4. Runs

| run | bounds | distinct states | shows |
|---|---|---|---|
| `Manager_sessions` | 2 sids, 1 project with a cap edited between 1 and 2, 2 runners, one sid with failing inserts, inboxes may be full | 645 k | types, what a cap admits, registry, no session lost but to a reuse of its sid, neither by the sweep nor by `stop()`; documents written before the close is announced; a session being terminated ends, unless deaf |
| `Manager_shutdownHangs` | 1 sid, 1 runner | violation | `stop()` waits for ever for a sweep that swallowed its cancellation |
| `Chat_session` | 2 handlers, 2 receive tasks, inbox 1, outbox 2 | 1.2 M | one receiver, known to the runner; nothing after the sentinel; turns end; the sentinel is taken |
| `Chat_sentinel` | 2 handlers, inbox 1, outbox 3 | violation | one sentinel, two forward loops: the second never exits |
| `Tokens_safety` | 3 tokens, 2 projects, 2 handshakes, 2 rotations; symmetric | 26 k | single use, project kept, implements `Tickets` |
| `Config_cache` | 2 edits, 2 connections, 3 names, limit 2 | 323 k | names unique, within the plan, stale caches explained and temporary |
| `Refresh_safety` | 4 tokens, 2 tenants, 2 register or login requests, 3 refreshes; symmetric | 172 k | forks need a race, one tenant per family, no tokens without a password, implements `LoginSessions` |
| `Webhooks_session` | 3 function calls | 602 k | record and event agree; quiet after the closed event; no retry of what is settled; requests end |
| `Admission` | 2 handshakes, 1 mint, 1 secret key with limit 1, plans with quota 1 and without, 2 windows, 2 days; symmetric | 1.8 M | windows let through their limit, refusals are earned, nobody passes a standing obstacle |
| `Plan_limits` | 4 requests, 2 plans, values below and above the caps; symmetric | 316 k | project limit overrun by races only, caps of a plan held |
| `Plan_downgrade` | 2 requests, 2 plans; symmetric | violation | a TTL above the plan in force, after a downgrade |
| `Refresh_logout` | 2 tokens, 1 tenant, 1 refresh | violation | a token stored after the logout that deleted all |

Why the bounds are enough.  Two sids make the sweep and `stop()` walk a list; two
runners let a sid be reused while its first session is still being terminated; a
cap of one makes every admission race tight, and a cap of two beside it raises or
lowers the cap, or lets a stale one pass, between two admissions.  A
second project would only be counted by itself; that for safety it changes nothing, nor
does any other larger instance, is proved (section 5).  An
inbox of one is full after one frame, and every sequence of frames passes through
it as the runner takes them (a start after an interrupt, a text after a start, a
STOP that finds no room); an outbox of two has room for `session_ended` and the
sentinel, for one of them, or for neither; two receive tasks are what can exist at once if
the runner is right, and the invariants say that it is never both.  Three tokens
are a mint, its rotation and a second one (or another mint); two handshakes and
two rotations make every pair of racing requests.  Two edits and two connections
are every pair of writers, of readers, and of a writer with two readers.  Four
refresh tokens and three refreshes are a fork (two racing refreshes) whose
branch is rotated once more; two register or login requests compete for one e-mail
address or begin two sessions.  Two handshakes with a limit of one fill a window and
overrun it, by key, by token, or by one of each, and two windows have a boundary
between them; two tokens on one counter would need a second mint, and are covered by
the theorem only; a key that is secret may be presented as well as mint, so that one
key exercises both (a publishable key differs only in being refused by the mint).  One
token per session and a quota of one make the quota the next thing to be reached.
Four dashboard requests are two racing creations with a third one or an edit and a
key beside them.  The second plan of `Plan_limits` stands for every larger plan,
with caps that a request can still exceed.  Three function calls are a message of two with one
more after it, or one message with a static tool between two webhooks.

`CHECK_DEADLOCK FALSE` is in every configuration: all requests and runners may have
been used up, and the service has shut down or idles for good.

Symmetry is used only in runs without liveness properties, over sets whose members
no definition tells apart.

### Fairness

`SessionManager`: the event loop runs whatever is ready and fires timers, so the
steps of the sweep and of `stop()` are weakly fair, and so are those steps of a runner
that need nobody's answer: a cancellation is delivered, a cancelled receive task ends
at its next await, the close of a websocket has a timeout.  `Saved` is fair on the
assumption that MongoDB answers or fails.  `TakeStop` is strongly fair: the inbox is a
queue with finitely many frames before the STOP.  `Connect` and `EndTurn` are not fair,
because the runner waits for Gemini without a timeout (`core/gemini_runner.py:404`,
`:437`); `TerminationEnds` holds without them, because `_terminate` cancels what it
has waited for too long.  Clients owe nothing, and no session has to become idle.

`ChatSession`: the runner, the forward loops and cancelled tasks are weakly fair;
Gemini answers a finished input or the stream ends when the connection is gone.
While the user is speaking Gemini owes nothing, hence the condition in
`WF_vars((owed \/ ~conn) /\ RecvDone(t))`.  Under it, `TurnReturns` says that the
runner waits only where an answer is owed or the connection is gone.

`ProjectConfig`: a request that has begun goes on, and Redis drops expired keys.
An invalidation may fail instead of succeeding; `CacheSettles` holds all the same,
because every fill has a TTL.

`Webhooks`: every request is answered or fails, and every pause ends, as each POST
has a timeout; a backend that sends a body byte by byte for ever is excluded.  Nothing
is assumed about how a request ends, nor about the client or Gemini.

`EphemeralTokens`, `RefreshTokens`, `Admission` and `PlanLimits` are checked for safety
only: their requests are short sequences of commands without loops or waits on each
other.

### What the violations show

* `Manager_shutdownHangs` - `_terminate` catches the `CancelledError` that `stop()`
  sends to the sweep, the sweep continues its loop, and `stop()` awaits it for ever.
* `Plan_downgrade` - `core/plan_limits.py:21` and `:123` call the effective TTL the
  minimum of the project's and the plan's.  It is taken once, when a request writes the
  project; a downgrade leaves the stored value, and `session_runner` waits for that.
  While a tenant stays on one plan `CapsOfAPlanHeld` is the minimum.
* `Chat_sentinel` - one sentinel serves any number of forward loops; a second socket
  on the session (a client that came back) waits in `outbox.get()` for good.
* `Refresh_logout` - a refresh that had found its token before a logout stores the
  next one after it.

Met while modelling, and left without a run of their own:

* `_on_runner_done` pops by session id.  When `_terminate` has popped a session and a
  client reuses its sid before the old runner's callback runs, the callback removes
  the new session's entry.  The session goes on, out of reach of the cap, of the
  sweep and of `stop()`, which logs "terminating all sessions"
  (`core/session_manager.py:86`) and returns before it has ended.
  `OrphanHasPredecessor` and `StopLeavesOnlyDisplaced` except this case, and show that
  a running session is lost in no other way;
* the drain of an old receive task catches the `CancelledError` that `_terminate` sends
  after two seconds (`core/gemini_runner.py:361`).  The runner goes on to the frames
  that are queued before the STOP; if one opens a turn that Gemini never ends, nobody
  cancels the runner again, though it "processes turns until stopped" (281).
  `_terminate` awaits it without a timeout, and so no idle session is ended any more,
  nor does `stop()` return.  `TerminationEnds` excepts this case, and shows that a
  session that is not deaf in this way ends;
* of the network errors and HTTP 5xx that `core/tool_executor.py:19` has retried, some
  are given up at the first attempt (section 3.6);
* a connection that read a project before an edit fills the cache after the edit's
  invalidation, so that the next connections get the old configuration for up to a
  minute, unlike `project_repo.py:176-178` says (`StaleIsExplained` and
  `CacheSettles` bound it);
* the cap counts registered sessions, so sessions being terminated run beside the
  ones it counts;
* after a cap is lowered more sessions stay registered than it allows, and for as long
  as the old configuration is cached further ones are admitted under the old cap;
* a sentinel that finds the outbox full is dropped, and then no forward loop exits;
* a second session of one sid closes without a document of its own, its insert being
  a duplicate key;
* a cancellation during `close_session` leaves a document without a closed event;
* a session can be resumed after its runner has left the loop;
* the sweep ends a session that became active after the list of idle ones was made;
* after an interrupt text is dropped until the old receive task ends;
* a `voice_start` refused by a full inbox still sets `voice_active`, and the
  `voice_end` after it reaches Gemini without a start;
* a handshake refused after the redeem has used its token up;
* of two overlapping edits of a tools array one is lost;
* a tool call may take longer than `tool.timeout_ms`, because `tool_executor.py:27`
  counts on an outer `wait_for` that no caller has, pauses come on top of three
  attempts, and an attempt has a minimum of one second;
* the started event, when it is retried, may arrive after the closed one;
* the module comment of `auth_token_repo` (16-17) says that the reuse of a rotated
  token ends its family, while the code logs it at most;
* a registration that stops before its password leaves an account nobody can log in
  to and an e-mail address nobody can register again;
* a refresh of a deactivated account rotates the token and then answers 401;
* the concurrent sessions of a plan are enforced nowhere, although
  `core/session_manager.py:32-33` says so;
* soft-deleted projects count toward the limit of projects and can be given keys;
* a token outlives the revocation of its key;
* tokens used by the test endpoint count toward no quota, nor do those of sessions
  whose document could not be inserted;
* a session that runs over midnight counts for the day before;
* an increment that is sent twice leaves its counter without a TTL.


## 5. Proofs

Proved with TLAPS: every invariant, every action property and both refinements that
the passing runs check, for all values of the constants that satisfy the
assumptions named here.  They say that constants are what they look like (numbers,
finite sets, a `None` that is nothing else) and bound nothing.

| module | assumptions | theorems |
|---|---|---|
| `SessionManager_proofs` | `SidsFinite`, `CapsAreNumbers`, `NoneIsNoRunner`, `EnvironmentSwitches` | `TypeCorrect`, `CapHolds`, `RegistryStaysConsistent`, `OnlySidReuseOrphans`, `StopMissesOnlyDisplaced`, `CloseIsRecorded` |
| `ChatSession_proofs` | `QueueSizes`, `NoneIsNoTask` | `ChatTypeCorrect`, `OneReceiver`, `ReceiversAreKnown`, `NothingAfterSentinel` |
| `EphemeralTokens_proofs` | `NoneIsNothing` | `TokensTypeCorrect`, `TokensAreSingleUse`, `RotationStaysInProject`, `ImplementsTickets` |
| `ProjectConfig_proofs` | `LimitIsNumber` | `ConfigTypeCorrect`, `ToolNamesStayUnique`, `ToolLimitHolds`, `StaleOnlyFromTwoCauses` |
| `RefreshTokens_proofs` | `NoneIsNothing` | `RefreshTypeCorrect`, `OneTenantPerFamily`, `PasswordBeforeTokens`, `ForksAreRaces`, `ImplementsLoginSessions` |
| `Webhooks_proofs` | `CallsBounded`, `NoneIsNoCount` | `WebhooksTypeCorrect`, `RecordAgreesWithEvent`, `NoRequestAfterClosed`, `SettledStaysSettled` |
| `Admission_proofs` | `FiniteRequests`, `DistinctNames`, `LimitsAreNumbers` | `AdmissionTypeCorrect`, `AdmissionIsClear`, `RateLimitHolds`, `RefusalsHaveCauses` |
| `PlanLimits_proofs` | `RequestsFinite`, `LimitsAreNumbers` | `PlanTypeCorrect`, `ExcessOnlyByRace`, `CapsHeld` |

The action properties among them are `NoRequestAfterClosed` and `SettledStaysSettled`.

**`SessionManager_proofs`.**  `TypeCorrect` is inductive as it stands.  For the rest
the inductive invariant is `RegistryInv`, types with the cap, registry consistency,
`OrphanHasPredecessor` and what they lean on: runners that were never created are
in no entry, a created runner has a sid, and walkers wait for runners that exist.
`AdmittedWithinCap` is kept because only `Create` adds an entry, when all registered
sessions of the project, and so those admitted under any lower cap, are fewer than the
cap it has been given; every other step only removes entries (`TerminateEachRemoves`,
`CapKept`).  Consistency
needs the callback: an entry of a finished runner is removed by the very step that
makes the runner `gone`, because it is under that runner's sid.  A live runner
stays registered or awaited because `WaitFor` pops exactly the entries of finished
runners and of the one it goes on to await, and only `OnRunnerDone` of another
runner with the same sid can remove its entry otherwise.  The shutdown adds `StopInv`:
`stop()` walks only after the sweep has ended, every registered sid is on its list from
then on, and so nothing is registered when it returns.  For documents, `Filed` is
added: a document is under the sid of the runner that wrote it, and runners that
were never created have written and announced nothing, so that giving a sid to a
new runner disturbs no earlier announcement.  Only `Saved` and `Cancelled` write, and
what they write is `Insert`, which leaves an existing document alone.

**`ChatSession_proofs`.**  `ChatInv` adds to the types where receive tasks may be:
`ReceiverKnown` (one that has not finished is `cur`), `StreamFree` (there is none
while the runner connects, starts a voice turn or reads the stream itself),
`WaitsForTask` and `StoppedBeforeSave` (none goes on after the loop).  The two
properties about receivers do not suffice for each other: that a voice turn starts
no second receiver needs `StreamFree` at `start`, which holds because the runner gets
there by draining `cur`, and `cur` is all there is.  `SentinelAtEnd` says that the
outbox has no sentinel before the runner has ended; with `StoppedBeforeSave` nobody
is left to put a frame behind it.  The queues are handled by lemmas about
`Put`, `Queued` and `Tail` for any size.

**`EphemeralTokens_proofs`.**  The inductive invariant `TokenInv` adds `Lineage` (a
token that was never set has no mint, the mint of any other was issued, requests
carry issued tokens) and `CheckedProject` (a rotation past its check holds a token
of its own project).  Single use is kept because a claim on a mint is a live token,
a handshake or a rotation, and each step that makes one unmakes another; a redeem
whose reply is lost takes a claim away.  As a mint has at most one claim, where it is
determines the ticket (`TicketIsClaim`), and for the refinement it is enough to say for
each action which claim moves (`Moves`): the other tickets stay, so the step is one
of `Tickets` or a stutter.

**`ProjectConfig_proofs`.**  That the document's array is sound is not inductive,
because `Write` writes what was prepared earlier.  `ConfigInv` adds `Prepared` (an
array about to be written has distinct names, within the limit), which is kept
because it was made from a sound array and not from the current one.  `Behind` (what
a connection is about to cache is no newer than the document, and when it is as
new the project is still active) makes a fill either correct or `heldBack`.  The
lemmas `AppendKeeps`, `WithoutShrinks` and `PositionsInOrder` are about arrays of
any length: finitely many positions can be listed in order, so the filter of
`delete_tool` is what it is meant to be.

**`RefreshTokens_proofs`.**  `TokenInv` adds `Known` (what requests and documents
name exists; a family is named by its first token and its tenant is that token's),
`Opened` (accounts are `bare` while a register request has the password to write, one
request at a time) and `Unforked` (each family has a race, or its stored tokens and
its refreshes under way are one, or they are a refresh and the token it is about to
delete).  `Unforked` is `ForkNeedsRace` without cardinalities, with the one
situation named in which two things are one.  Each action of `RefreshTokens` is an
action of `LoginSessions` on one family, on all of a tenant's, or leaves them.

**`Webhooks_proofs`.**  `WebhookInv` adds `Counted` (a call is counted when it has its
result, and the calls of a message fit), `Quiet` (once the finally block has begun, a
consumer that is still there has been cancelled), `Recorded` (what is counted stays
what the document says) and `SettledIsBehind` (settled calls are behind the current
one).  `Quiet` is what the properties rest on: the receive task is not awaited, but a
cancelled one does nothing more.

**`Admission_proofs`.**  The obstacles: `Cleared` says for each place of a handshake or
a mint which of them cannot have stood since its first command any more, because
its check was passed while they were down.  The rate limit: `CounterInv` holds a
counter between two sets of handshakes.  It is at least the number of those it let
pass, which gives `WindowLimit` because nobody passes at a higher count than their
limit; it is at most the number of those that reached it plus those that may have
counted twice, which gives `RefusalsAreEarned` because a refused handshake saw
more than its limit.  Keys with different limits that share the counter of tokens need
the bound for every limit (`UnderAt`).  Both bounds hold for any number of
requests, keys and windows.

**`PlanLimits_proofs`.**  `PlanInv` adds `Known` (a plan that was read is one the
tenant has been on) and `AllAllowed`, which extends `CapsOfAPlanHeld` to what requests
have read and not yet written: a tool update may write back a timeout that was read
under an earlier plan.  `ExcessNeedsRace` is inductive with them, as it counts
projects together with the requests about to insert one; a request that has counted
adds itself to `InFlight` when the projects were below the limit, and `peak` grows
with it.

Model-checked only: liveness (`TerminationEnds`, `TurnReturns`,
`SentinelTaken`, `CacheSettles`, `RequestsEnd`), because TLAPS has no support for
ENABLED and so for fairness, and the violations of section 4.


## 6. Not modelled

Payloads, prompts, audio, transcripts and their formats; access tokens, cookies and
password hashing; the per-address limiter of logins, which is the counter of
`Admission` under another prefix; token counts and metrics, except that sessions
add to the usage of a day; logging.  `touch_last_accessed` and `last_used_at` change
nothing that is read elsewhere.  The test endpoint holds a connection to Gemini of
its own under `wait_for` and keeps nothing; the analytics endpoints read documents that
never change.  Python's `asyncio`, Redis, MongoDB and Gemini are taken at the
contract their use in the code relies on: a cooperative scheduler, atomic commands
and scripts, unique `_id`, TTLs, and a connection that answers or breaks.
