# Specifications of FreebuffProxy

FreebuffProxy is a Go proxy: clients speak the OpenAI or the Claude API to it,
and it forwards each request to one upstream service under one of several
accounts ("tokens"). The upstream allows an account a single *free session*,
bound to one model, and every chat call names a *run* that was started under
that session. Most of the difficulty of the program is in sharing one session
and a few runs among requests, background loops and failures. This directory
holds TLA+ modules of that part, of the shutdown, of the conversion between the
Claude and the OpenAI protocol and of the administration of accounts, TLC
configurations that check them on small instances, and TLAPS proofs of the results
that matter most for every instance. Beside that core it covers the round over
several accounts and the pool of egress proxies.

All paths below are relative to `src/`.

## 1. Inventory

| Component | State | Operations | Hard behaviour |
|---|---|---|---|
| Token pool (`run_manager.go`) | `reqMu`, `runs`, `draining`, per run `inflight`, `finishing`, `cooldownUntil` | `acquire`, `release`, `rotateAgent`, `finishIfReady`, `invalidate`, `markCooldown`, `maintain`, `prewarm`, `shutdown` | critical sections interleave around upstream calls; three callers may finish one run; a lock is held across calls |
| Free session (`free_session.go`) | `session`, `sessionModel`, `sessionRefreshCh` | `ensureSession`, `switchSession`, `invalidateSession`, `endSession` | a switch is DELETE, sleep, POST, poll, with everything else going on meanwhile |
| Chat request loop (`server.go`) | the lease, the attempt | `proxyChatRequest` | two attempts, each with its own lease; outcome decides what is invalidated |
| Run manager (`run_manager.go`) | `pools`, `next` | `Acquire`, `AddToken`, `RemoveToken`, `Close` | `pools` is shared without a lock |
| Accounts (`auth.go`, `webui_pages.go`) | `config.json`, `cfg.APIKeys` | import, delete, key management, `saveConfig` | unsynchronised read-modify-write of a file |
| Claude streaming (`anthropic.go`) | `claudeStreamState` | chunk conversion, finalisation | order of content block events, streams that end early |
| Claude request/response conversion (`anthropic.go`) | none | message, tool and reply conversion, in both directions | what is said must survive two conversions and the client in between |
| Tool schemas and metadata (`server.go`) | none | `normalizeToolSchemas`, `injectUpstreamMetadata` | recursive rewriting of JSON schemas |
| Model registry (`models.go`) | `agentModels`, `modelToAgent` | `refresh`, lookups | refresh may change the agent of a model between two requests |
| Process end (`main.go`, `run_manager.go`) | one context of 30 seconds | signal, `Close`, `shutdown`, `endSession` | everything is still at work; not everything is waited for |
| Egress proxy pool (`proxy_pool.go`) | `entries`, `current`, `proxy_pool.json` | `CheckProxy`, `SelectBest`, `AddBatch`, `Remove` | results written after a network call; one network call under the mutex |
| Configuration (`config.go`), routing (`server.go`), token count, Web UI logs | small or none | | sequential |

How they interact. A handler calls `RunManager.Acquire`, which tries the token
pools in turn; a pool's `acquire` ensures the session and a run, both through
the upstream client, which asks the proxy pool for an exit before every call.
`release` may finish the run. In the background a ticker runs `maintain` on every
pool, `prewarm` runs once per pool at start-up (and once for every imported
account), and every rotation starts a goroutine that finishes the old run. At the
end `main` stops the HTTP server and closes the run manager, which finishes every
run. A Claude request is converted to an OpenAI request before `proxyChatRequest`,
its reply back after it; nothing is kept between two requests.

What makes each component correct:

* token pool: one request per token; a run is not finished under a request; a
  run is finished once, and in the end; no open run is forgotten; a request that
  waits is answered;
* session: one switch at a time; a request keeps the session it was given;
  runs belong to the session they are used with;
* run manager and accounts: an imported account is in the file and in the pools
  exactly once, a deleted one in neither;
* Claude streaming: whatever the upstream sends, the client sees blocks opened,
  filled and closed in order and a message closed once;
* Claude conversion: a turn is the same streamed or complete; the upstream gets
  back what it said, every tool call directly followed by its result; a tool
  accepts the same arguments before and after its schema is rewritten;
* shutdown: it ends; no run is finished under a request, and no run is forgotten;
* proxy pool: an exit is used only after a check of its own, no request waits
  for ever for the choice of an exit, the file follows the list.

## 2. Modules

* **`TokenPool`** is the core: one token and every process that works on it.
* **`RunLease`** is the abstract specification of what a token pool promises to
  requests: an owner, a run lent to it, runs that are opened and closed once.
* **`MCTokenPool`** instantiates `TokenPool` for TLC.
* **`TokenPool_proofs`** holds the TLAPS proofs of its safety invariants,
  **`TokenPool_refinement`** those that build on them: sessions, the count of
  leases, and that `TokenPool` implements `RunLease`.
* **`RunManager`** has several accounts: the round of `Acquire`, accounts that come
  and go; **`MCRunManager`** is its instance. It sees a pool as a lock and an acquire
  that succeeds or fails, which is what `TokenPool` shows from outside.
  **`RunManager_proofs`** holds its proofs.
* **`ProxyPool`** is the pool of egress proxies and its file, **`MCProxyPool`** its
  instances, **`ProxyPool_proofs`** its proofs.
* **`Shutdown`** extends `TokenPool` by the end of the program around it;
  **`MCShutdown`** is its instance, **`Shutdown_proofs`** its proofs.
* **`ClaudeStream`** is the converter of a stream for a Claude client,
  **`ClaudeProtocol`** what such a client relies on, **`ClaudeStream_proofs`** the proofs
  that the one implements the other and of what the stream promises beyond it,
  **`ClaudeStream_texts`** those about the order of the texts.
* **`ToolSchemas`** is the rewriting of a tool's parameter schema, beside what a
  schema means.
* **`ClaudeTurn`** composes both with the other conversions into one turn of a
  conversation; **`MCClaudeTurn`** is its instance and that of `ClaudeStream`.
* **`Accounts`** is the administration of accounts and keys over `config.json`,
  **`MCAccounts`** its instances, **`Accounts_proofs`** its proofs.

### TokenPool and the code

A *process* is a goroutine: a request (`Req`), the maintenance ticker (`Maint`),
the prewarmer (`Warm`), or the goroutine that finishes a rotated run, which is
named after the run. `pc` says where each one is. **One action is one critical
section of `p.mu`, or one upstream call with its reply.** `reqMu.Lock()` is one
action with the critical section that follows it.

| Code | Actions |
|---|---|
| `proxyChatRequest` (`server.go:310`) | `Arrive`, `ReadInstance`, `Chat`, `Unlock` (with the retry) |
| `acquire` (`run_manager.go:307`) | `Lock`, the session actions, `Recheck`, the rotation actions, `Grant`, `Unlock` on error |
| `release` | `Release`, the finish actions, `Unlock` |
| `ensureSession`, `switchSession` | `EnsureSession`, `EnsureCancelled`, `DeleteSession`, `CreateSession`, `PollSession`, `SessionWithoutInstance`, `ClearRuns`, `StoreSession` |
| `rotateAgent` | `RotateCheck`, `StartRun`, `StartRunFails`, `InstallRun` |
| `finishIfReady` | `FinishCheck`, `FinishAcked`, `FinishFails`, `FinishDone`, `FinishUndo` |
| `invalidate`, `invalidateSession`, `markCooldown` | `InvalidateRun`, `InvalidateSession`, `Cooldown` |
| `maintain`, `prewarm` | `MaintainTick`, `NextRotation`, `NextDrained`, `LoopDone` |
| time | `RunAges`, `SessionExpires`, `CooldownEnds` |

Abstractions, all of data and none of control:

* Upstream replies are reduced to the classes the callers tell apart. A FINISH
  that fails may or may not have been carried out.
* `aged` is the set of current runs older than the rotation interval; `cooling`
  says that now is before `cooldownUntil`; `fresh` that the session has not expired.
* `instances` numbers the sessions the upstream created; a new one supersedes
  the one before it, so DELETE needs no effect of its own. `root` remembers under
  which session a run was started.
* `p.draining` is a set; `RunsDisjoint` is why nothing is lost by that.
* `CreateSession`, `PollSession` and `ClearRuns` are the replies that lead to a
  session; `SessionWithoutInstance` is every way to leave `switchSession`
  without one (an error, a cancelled context, an upstream without sessions).
* The cached session is never `queued` (`switchSession` returns active or
  disabled), so `waitingRoomErrorFromSession` always returns nil.
* `lastError`, `requestCount`, log lines and response copying are left out, and so
  are replies of START that get lost (hazard list). `probeModel` (`webui.go:199`)
  is a request whose chat call "failed" without consequence.
* A process's local variables are reset when the procedure returns.

### Shutdown and the code

The pool goes on as in `TokenPool` (`Going(PoolStep)`), with no request arriving after
the signal and no tick once the ticker has seen `stopCh`. Beside it runs `main`:

| Code | Actions |
|---|---|
| `main` on a signal, `httpServer.Shutdown` (`main.go`) | `Signal`, `HttpReturns` in `Stop` |
| `RunManager.Close` (`run_manager.go:225`) | `Stop`, `TickerStops` (`wg.Wait`), then the pool |
| `shutdown` (`run_manager.go:385`) | `TakeRuns` (its critical section), `CloseRun` for each run, `EndSession` |
| `endSession` | `EndSession`, `Exit` |
| `shutdownCtx`, 30 seconds | `Expire`, at any time after the signal |

* A FINISH under the expired context fails without reaching the upstream. One that
  reaches it may still fail: `gaveUp` is left open then, as `shutdown` only
  logs it.
* `shutdown` looks neither at `inflight` nor at `finishing`. It may send a second
  FINISH for a run that a rotation's goroutine is finishing; a run under a
  request it cannot finish, because it gets so far only when the last request has
  been answered, or with an expired context.
* The prewarmer is not waited for, nor is a request after 30 seconds. Either may
  install a run after `TakeRuns`, and that run stays open upstream. `alone` records
  that neither was at work, and `NothingLeftOpen` is about that case.
* `NoRunLost` of `TokenPool` does not hold after `TakeRuns`, since the pool then knows no
  run; `NoRunForgotten` adds the runs that `shutdown` has taken.

### ClaudeStream and the code

`conv` is `claudeStreamState`, field by field; the conversion functions of
`anthropic.go` are operators on it that append to its list of events, called in the
code's order. The loop of `writeClaudeStreamingResponse` reads (`ReadPayload`,
`ReadDone`, `ReadEOF`, `ReadFails`), then writes event by event (`WriteEvent`,
`WriteFails`), then reads on (`WriteDone`). Every event changes what the client
has seen (`phase`, `blocks`, `reason`), which is the state of `ClaudeProtocol`.

* Texts and argument fragments are counted, not spelled; token usage is left out,
  and ids are the subject of `ClaudeTurn`.
* A payload carries at most one reasoning text and one tool call delta: a list
  converts like several payloads.
* The upstream is assumed to send only usage after its finish reason, and
  nothing after `[DONE]`. (Text after the finish reason would reopen a block that
  is never closed; see the hazards.)
* `appendClaudeFinalContentEvents` ends the tool blocks in ascending order of their index
  (`Ascending`): for each, a delta with its arguments if there are any, then its stop
  (`ToolEnds`).
* Several tool blocks may be open at once: each opens when its name is known, and all
  arguments follow in one delta when the content ends. A tool call that is never named
  is dropped. An upstream that sends nothing at all gives `message_delta` and
  `message_stop` without `message_start`; `ClaudeProtocol` permits that.

### ClaudeTurn, ToolSchemas and the code

A turn goes from "new" by `Offer` to "offered", by `Begin` to "asked", by the steps of
`ClaudeStream` and `TakeMessage`, or by `CompleteReply`, to "replied", and by
`NextRequest` to "sent".

| Code | Definitions |
|---|---|
| tools and tool choice (`anthropic.go`) | `Offer`: `ConvertTool`, `ConvertChoice` |
| `normalizeToolSchemas` and below (`server.go:550`) | `NormalizeParameters`, with `Normalize`, `Simplify` and one operator per rule |
| `writeClaudeStreamingResponse` | `StreamStep`, the actions of `ClaudeStream` |
| `convertOpenAINonStreamResponseToClaude` | `CompleteReply`: `Complete` |
| `convertClaudeMessagesRequestToOpenAI` | `NextRequest`: `ConvertMessages`, `ConvertMessage`, `MessageParts` |
| `sanitizeClaudeToolID` | `SanitizeId` |
| `injectUpstreamMetadata` (`server.go`) | `InjectMetadata` |
| the client (external) | `TakeMessage`/`Assembled`, `Answers` |

* A body is a sequence of opaque pieces; a blank text is the empty body, and the
  others are not blank. Arguments are well-formed JSON. (A blank text, and
  a chunk of reasoning that is only white space, is dropped by the code.)
* The client answers every tool call in one message, with the results in any
  order and the user's text before or behind them.
* `Cleaned` says what is left of an id; the instance has one that loses characters
  and an empty one. In it the two ids of a reply stay
  different.
* A tool result that mixes text or images with other items loses these others;
  `TurnComesBack` exempts it.
* Sampling parameters, thinking budgets, usage, stop sequences and error
  bodies are mapped field by field and left out.

`Accepts` is the reference for schemas: does a schema accept a value without nulls. A
list of types counts as its first type but null, which is what the code's comment
says it does. The keywords are those the code treats (`$ref`, `type`, `enum`, `const`,
`anyOf`, `oneOf`, `properties`, `items`, `nullable`, `definitions`, `$defs`). The
schemas of the instance leave out cases in which the rewriting changes the meaning:
a `$ref` with sibling keywords (below), a null `const` or `enum` of one among other
options, an option that repeats a keyword of its parent, parameters that are called
like a deleted keyword, and schemas deeper than 12 levels.

### Accounts and the code

A handler of `auth.go` or `webui_pages.go` goes through `BeginToken` or `BeginKey`,
`ReadConfig`, `Truncate` and `WriteConfig` (`os.WriteFile` empties the file, then
writes), `Reload` (`AddToken`, `RemoveToken`) and `Answer` or `Fail`; `DiskFails` is
the error of a read or a write, which each handler treats in its own way
(`WithoutFile`). `Crash` and `Restart` (`loadConfig`, `NewRunManager`) may come at any
point.

* Pools are a set of tokens; what happens inside a pool is `TokenPool`.
* Each update in memory (`m.pools`, `cfg.APIKeys`) is one step. The code does
  not lock these either; that race is left to the module `RunManager` of the plan and
  cannot occur with one administrator.
* Requests about the same token or key do not overlap (`Undisputed`): which of them
  should win is not the program's to say.
* `AUTH_TOKENS` and `API_KEYS` of the environment, which would override the file at
  every start, are not set.

### RunManager and the code

| Code | Actions |
|---|---|
| `Acquire` (`run_manager.go:242`) | `Acquire`, then `TryNext`, `Lock` (`pool.acquire` takes `reqMu`), `AcquireFails` or `Granted` for each pool, `Refused` |
| `Release` | `Release` |
| `AddToken`, `RemoveToken` | the same |

* Pools are numbered objects: an account that is deleted and imported again gets a new
  pool with a mutex of its own, while a request still uses the old one.
* `m.next` is left out: `Acquire` may begin anywhere in the ring.
* There is one administrator. A change of the slice is one step, and so is one turn of
  `Acquire`, which reads the slice three times without a lock (its length, the
  length again for the remainder, the element). What happens when a change falls between
  these reads, or two administrators change the slice, is not modelled (see the
  hazards).
* `AcquireFails` stands for every failure inside a pool, `waitingRoomError`
  included; how the errors are merged into one is left out.
* `due` and `shrunk` are history variables: the pools that have been listed since the
  `Acquire` of a request began and that it has not tried, and the requests whose list has
  lost a pool since then. A removal moves the pools behind it up, and such a request
  may miss one of them (see below).

### ProxyPool and the code

| Code | Actions |
|---|---|
| `SelectBest` (`proxy_pool.go:331`), called by `clientForRequest` | `Arrive`, `SelectBest` |
| `AddBatch`, `Remove` | `AddBatch`, `Remove`, then `OpenFile` and `WriteFile` with `p.mu` held |
| `handleProxyPool` "check", "save" | `BeginCheck`, `BeginSave` |
| `handleProxyRefresh`, `checkAll` | `BeginAll`, `LoopEnds` |
| `CheckProxy` | `Probe` (the call), `ProbeFailed` or `ProbeOk` (under `p.mu`), `DetectMode` (a call under `p.mu`), then a save |
| `save` | `Marshal`, `OpenFile`, `WriteFile` |

* An entry is an address and a number, because a `*ProxyEntry` outlives its removal: a
  check that is under way writes to the old one.
* `array` and `size` are the slice with its backing array. `Remove` shifts the array in
  place; a save without the lock reads each element before or after (`OpenFile`). That
  is the data race of the code, as a choice over what it can read.
* `os.WriteFile` empties the file and then writes it. Two writers may write over
  each other (`overlaid`): the file then holds either text or a mixture, `Garbled`.
* Which exit has the lowest latency is left open; `detail` is left out, so that
  `checkAll` may or may not see a change. `fails` stops at its limit.
* The program has a token (`loadConfig` insists), so every successful probe goes on
  with `detectMode`. An address nobody listens at is a probe that fails.
* Several addresses in one call of `AddBatch` are several calls.

## 3. Runs

| Run | Instance | Shows |
|---|---|---|
| `maintain` | 2 requests, 1 model served by either of 2 agents, 2 runs, 1 session, the ticker | leases are counted right, nobody finishes a leased run or finishes twice, no open run is forgotten, cooldown is seen; the pool implements `RunLease` |
| `prewarm` | 2 requests for 2 models of one agent, 2 sessions, 1 run, the prewarmer | mutual exclusion of requests and of switches; only the prewarmer replaces a session in use; every request that waits for the token or for a switch is answered, though its context need not end |
| `drain` | 1 request, 2 runs, the ticker | every draining run is finished in the end |
| `session_kept` | as `prewarm` | **violated**: see below |
| `stale_run` | as `prewarm`, with the ticker | **violated**: see below |
| `shutdown` | 1 request, 2 runs, the ticker, an upstream without sessions | a shutdown at any moment ends, finishes no run under a request and forgets none; requests are answered or cut off |
| `claude_turn` | up to 4 payloads, 2 tool calls, complete replies with up to 5 items, 2 earlier conversations, 376 schemas against 27 values | the converter and the client agree on the open blocks; nothing is lost or reordered; tool calls are announced; a stream that returns has ended its message; `ClaudeProtocol` is implemented; streamed and complete replies agree; the next request is one the upstream accepts and carries the reply back; tools keep their meaning |
| `accounts_crash` | 1 administrator, 3 tokens, 2 keys, 3 crashes or disk errors | memory and file agree between requests, answers are kept across crashes, no account is served that is not recorded |
| `accounts_two_admins` | 2 administrators | **violated**: see below |
| `run_manager` | 2 requests, 3 accounts of which 2 are configured, 4 pools | nobody is refused before every account that was there at the beginning was tried, unless one was deleted meanwhile; an account serves two requests only across a deletion, every Acquire returns, no deadlock |
| `proxy_pool` | 1 address added twice, 1 handler, 1 request, the self-check; 1 failure cools down | a usable exit was checked since it was added, `p.mu` is always given back, requests get their exit, the file catches up with the list |
| `proxy_undialable` | as `proxy_pool`, with an address of a scheme that cannot be dialled | **violated**: see below |

Bounds. `RunIds` bounds the runs the upstream hands out and `MaxSess` the
sessions it creates; when they are used up START and POST can only fail, which
they may at any time. Two runs of one agent are enough for a run to be replaced,
drained and finished while another is leased; two sessions are enough for one
switch under a request, and a third would only repeat it. Two requests are enough
for a holder and a waiter of `reqMu`. `Background` says which of the two loops is
at work, because both together with two sessions are beyond five minutes; the
proofs cover all of them together. In `prewarm` the prewarmer prepares the session and no
run (`WarmAgents` is empty), which is what its properties are about. Requests and run ids are symmetric in the
safety runs; the liveness runs use no symmetry.

Four payloads are enough to open a block, interrupt it by two others and return to
it, and to interleave two tool calls around a text. Three crashes or disk errors
allow a second failure while the first is being repaired; three tokens an
account that was there, one that comes and one that comes and goes. The replies,
conversations and schemas of `MCClaudeTurn` are lists of cases, each there for one
rule of the code; schemas are nested as deep as a recursive definition behind two
references.

The run of `Shutdown` does without sessions and the prewarmer to leave room for
liveness. Its safety properties were also checked once with one session and both loops
(18.7 million states) and are proved for all instances.

Four pools are enough to import a third account and to import one of them anew while
a request still holds its old pool. One address is enough for `ProxyPool`: what two
exits could do to each other is to shift places, and the entry that was added
again already does that with the one before it. A single failure for the
cooldown instead of three only makes it come sooner.

Deadlock is checked in every run of `TokenPool`, `RunManager` and `ProxyPool`: a
request can always arrive or go on. A turn and a shutdown end, and a program whose
`config.json` is empty or without a token does not start again, so the runs of
`ClaudeTurn`, `Shutdown` and `Accounts` do not check it.

Fairness (`Fairness`). Each goroutine is scheduled (weak fairness per process).
`Lock` is strongly fair: a Go mutex hands itself to a waiter that has starved for
a millisecond. Upstream calls end by reply or by timeout, so a call is a step of
its process like any other. `FinishAcked` is strongly fair per run: a FINISH that
is sent over and over for a run is acknowledged some day; without it no code could
finish a run. Nothing is assumed about arrivals, expiry, ageing or cooldown.

**No context is assumed to end.** A request's context (`r.Context()`) has no deadline,
nor has that of the prewarmer of an imported account. `Fairness` therefore contains
`SessionProgress`, not `SessionStep`: a process that waits in `ensureSession` for
another one to switch may give up (`EnsureCancelled`) but need not, and
`RequestReturns` rests on `StoreSession` alone to wake it. A switch that fails without
closing `sessionRefreshCh` violates it. What is assumed is that a switch ends: a
session poll that stays "queued" for ever is a step that repeats, and so is a
session created again and again; `MaxSess` and the fairness of the process's
step stand for an upstream that gives a definite answer some day. With an upstream
that says "queued" for ever, and no deadline, the code waits for ever and so do the
requests behind it.

`FairnessClose` is the same as long as the program runs, except that no FINISH
need ever be acknowledged. The timer of the context fires (`Expire`), `main` goes
on (`CloseStep`), and `TickerStops` is strongly fair: the ticker's `select` chooses at
random between a tick and `stopCh`, so it cannot choose the tick for ever.

In `RunManager` every request goes on and `Lock` is strongly fair, as in `TokenPool`;
that a lease ends is what `RequestReturns` shows there. In `ProxyPool` the
processes go on, whoever waits for `p.mu` gets it (strong fairness of
`SelectBest` and of the two actions after a probe), and the ticker ticks
(`BeginAll(Tick)`). Administrators need do nothing.

### Where the code and its comments disagree

* `session_kept`. `server.go:347` relies on `acquire` having made the session
  ready and on nobody switching it. `prewarm` calls `ensureSession` without
  `reqMu` and with the default model, so it can delete the session, create one
  for another model and drain the run that the request was just given.
  `OnlyPrewarmReplacesUsedSession` shows that nothing else does. The same
  interleaving is how `acquire` comes to answer "run missing after rotation".
* `stale_run`. `free_session.go:130` says that after a switch every old run is
  dropped. A START whose reply arrives after the switch is installed as the current run
  all the same (`run_manager.go:430`) and the next request uses it with the new
  session. The upstream then answers "runid not found" and the retry repairs it.

* `accounts_two_admins`. `auth.go:151` says that an import writes the token into
  `config.json`. Two handlers may both read the file before either writes it; the
  second write then forgets the token of the first, whose import was answered ok. It
  is served until the next start. With one administrator at a time
  `accounts_crash` shows that answers are kept as long as the disk does not fail.

* `proxy_undialable`. The comment at `proxy_pool.go:156` says that an exit whose
  transport cannot be built is checked directly "but marked unusable". Nothing marks
  it: the direct connection works, and the exit is alive, with the mode of the
  direct connection. `socks4://` addresses are such exits. Requests that
  select one go out directly.

Some more were seen and have no run of their own:

* `Acquire` reads `m.pools` anew at each turn and counts its turns (`run_manager.go:250`).
  When an account is deleted meanwhile, the accounts behind it move up and the next turn
  passes over one: of accounts A, B and C, A is tried, fails and is deleted; the second
  turn is then C's and the third does not take place. The request is refused, and B was
  never tried. With two accounts it is even refused after a single turn. No text of the
  repository promises more, and the error says "unable to acquire run from any
  token" all the same. `RefusedTriedAll` exempts the requests that saw a deletion
  (`shrunk`); without this condition TLC finds the second case in seven states.

* `server.go:550` says that normalising means "resolving local $ref values". A `$ref`
  with a sibling keyword, such as a `description`, is not taken for one (`tryResolveRef`,
  `server.go:779`), while the definitions it names are deleted all the same: what is left
  refers to nothing. `SomeSchemas` has no such schema, and `ToolsMeanTheSame` is violated
  as soon as it has one.
* A reply cut off by "length" with tool calls in it is `max_tokens` when complete and
  `tool_use` when streamed. `FormsAgree` exempts it.
* A streamed tool call that never gets a name ends with the stop reason `tool_use`
  and no block. `FormsAgree` exempts it too.

`OneRequestPerAccount` qualifies another comment: `run_manager.go:41` says that a token
handles one request at a time. That holds for a pool; an account that is deleted
during a request and imported again has two pools and may serve two.

## 4. Proofs

`TokenPool_proofs` proves, for every value of the constants allowed by
`PoolAssumption` (any sets of requests, runs, models and agents, any `MaxSess`,
both background loops):

* `TypeCorrect`: `Spec => []TypeOK`;
* `MutualExclusion`: `Spec => []OneRequestPerToken`;
* `LeasedRunsStayOpen`: `Spec => []NoFinishWhileLeased`;
* `FinishedOnce`: `Spec => []FinishExclusive`;
* `RunsAccountedFor`: `Spec => []NoRunLost`;
* `CooldownStaysSeen`: `Spec => []CooldownSeen`.

All follow from one inductive invariant, `IInv`, the conjunction of

* `TypeInv`: types, and which local variables are set at which `pc` (`Places`,
  `AgentKnown`, `AttemptLeft`);
* `LockInv`: `reqMu` and the cooldown. A request is between `Lock` and `Unlock`
  exactly if it owns `reqMu`; since only an owner can set the cooldown, an owner
  before its upstream call cannot find it set;
* `NoRunLost`, see below;
* `RunInv`: what is known about runs. A run that some process has claimed in
  `finishIfReady` is marked `finishing`, not current and not leased (`Claims`);
  a run that was acknowledged stays marked (`Retired`); a run id that was just
  handed out is known to nobody else (`Fresh`).

None of the safety invariants is inductive alone. `NoFinishWhileLeased`, for
instance, needs `LeaseAccounting` (a leased run has `inflight` > 0, so `FinishCheck`
leaves it alone), that a claimed run is not current (so that `Grant` cannot lend
it), and that it never becomes current again (`Fresh`). The proof that a step
preserves `IInv` has one step per action; actions that touch no run (`Quiet`)
share a lemma. `NoRunLost` is a part of its own because it is the only one that the
shutdown breaks: `KnownStep` says of any step of the pool that the runs it knows stay
known, and serves both. TLC checked `IInv` on the instances of `maintain` and `prewarm`
before it was proved.

`TokenPool_refinement` adds, on the same assumptions:

* `Refinement`: `Spec => ImplementsRunLease`. The owner in `RunLease` is the owner of
  `reqMu`, a run is lent from `Grant` to `Release`, and its life
  (new, open, closed) is read off `upRun`; every action of `TokenPool` is then
  an action of `RunLease` or leaves its variables alone. That a run is lent only
  while it is open, and closed only when it is not lent, comes from `RunInv`.
* `SwitchesExclude`: `Spec => []SwitchExclusive`. A process between `DeleteSession`
  and `StoreSession` is the `switcher`.
* `SessionsKept`: `Spec => OnlyPrewarmReplacesUsedSession`, from this and from
  `MutualExclusion`: a request that switches owns `reqMu`, so nobody else leases.
* `LeasesAreCounted` (`LeaseAccounting`) and `RunsKeptApart` (`RunsDisjoint`), which
  are parts of `IInv`.

`Shutdown_proofs` proves for the whole program, on the same assumptions, that a
shutdown keeps `NoFinishWhileLeased` (`ShutdownSparesLeases`), that `NoRunForgotten`
(`ShutdownForgetsNoRun`) and `NothingLeftOpen` hold (`ExitLeavesNothing`), and the types
(`ShutdownTypes`). The inductive invariant `ShutInv` keeps `TypeInv`, `LockInv` and `RunInv`
and puts `NoRunForgotten` in the place of `NoRunLost`. Its part `CloseInv` says what
has come to rest in each phase: after the waits of `main` and `Close` no request is
at work unless the context has expired (`Waited`), a run that `shutdown` took out of the
pool is not on its way back (`Out`), and an `alone` shutdown leaves the pool empty
(`AtRest`). A run that `CloseRun` finishes is therefore leased by nobody. The lemmas on
the pool's steps are those of `TokenPool_proofs`, used through `GoingIsNext`.
`ShutdownImplementsLease` (`SpecClose => ImplementsRunLease`) says more: until the program
has exited, the pool keeps all that it promises to requests. It takes `LeaseStep` of
`TokenPool_refinement`, which does without `NoRunLost` for this purpose, and that a FINISH
of `CloseRun` closes a run nobody has (`CloseRunCloses`). TLC checked this refinement on the
instance of `shutdown` too (495 873 states).

`RunManager_proofs` proves, for any accounts, requests and number of pools
(`ManagerAssumption`), `TypeOK` (`ManagerTypes`), `RefusedTriedAll` (`RefusedAfterAll`) and
`OneRequestPerAccount` (`AccountsSerialise`). The inductive invariant `ManagerInv`
consists of

* `TypeOK`; that `offset` stays in its bound, although `Acquire` reads the length of the
  list anew each turn, needs the next part;
* `ListInv`: every listed pool has an account and no account is listed twice. It is
  what makes a request on an account a request on one listed pool, and bounds the length
  of the list by the number of accounts;
* `PlaceInv`: where a request is in the round, and that it owns the pool it works with;
* `RoundInv`: as long as no account was deleted (`shrunk`), what is `due` to a request lies
  `Ahead` of it in the ring. An account that is added lengthens the ring and moves the
  place where it closes, so this is said of positions in the list of the moment.
  When all turns are over nothing is ahead, so nothing is due. Of a request that saw
  a deletion nothing is said, for there it is not true.

`OneRequestPerAccount` holds because two requests that hold pools of one account hold
different pools, and one of these is no longer listed. TLC checked `ManagerInv` on the
instance of `run_manager` before it was proved. Besides it the proof needs two facts
proved at its beginning: remainders in a ring (`Round`) and what a sequence is
after an element was cut out (`CutOut`).

`Accounts_proofs` proves `TypeOK` of every behaviour. Its other three theorems are of
the form `Spec /\ []Serial => []P`, where `Serial` says that no handler starts while
another is at work. **The code does not guarantee `Serial`**: with handlers that
overlap, answers are lost, which is what the run `accounts_two_admins` shows.
Under it, and with any number of administrators, accounts, keys, crashes and disk errors, they are
`FileAndMemoryAgree`, `AnswersKept` and `ServedIsRecorded`. `SerialInv` has one part per
property, which says of each step of a handler what it has brought into line so far
(`AgreeOf`, `OpenOf`, `ServedOf`), and `FileInv`, which says when `config.json` can be read.
The instance of `accounts_crash` has one administrator and therefore satisfies
`Serial`; TLC checked `SerialInv` there.

`ProxyPool_proofs` proves `AliveWasChecked`, `OwnerIsAtWork` and the types for any
addresses, entries, handlers, requests and limits (`ProxyAssumption`). The first two follow from `PoolInv`.
Its third part, `ResultIsOfTarget`, is what makes `AliveWasChecked` inductive: a
result that waits for the lock belongs to an entry that was probed, whether
it is still listed or not. `PoolTypes` needs an invariant of its own: a
text that was marshalled without the lock fits into the array whatever happened since,
because the array only grows.

`ClaudeStream_proofs` proves for any tools, payloads and lengths of streams:

* `StreamImplementsProtocol`: `Spec => ImplementsClaudeProtocol`. Whatever the upstream
  sends and wherever it stops, every event written is one that a client can follow:
  blocks are numbered without gaps, filled only while they are open, all closed
  when the message ends, and the message ends once;
* `StreamBlocksAgree`, `StreamAnnouncesToolCalls`, `StreamDoneMeansEnded`: the
  invariants `BlocksAgree`, `ToolCallsAreAnnounced` and `DoneMeansEnded`;
* `StreamArgumentsComplete`: the second half of `ContentComplete` (`ArgumentsComplete`);
* `StreamContentComplete` (in `ClaudeStream_texts`): all of `ContentComplete`.

None of them is inductive, because a conversion changes the state of the converter at
once and the client only event by event. `StreamInv` says how the three fit together at
every moment. `ConvOK` is about the converter alone (no block is used twice). `Link` is
about the converter, the events on their way and the client: `BlockLink` says what the
client's blocks will be when the events have been written, `MessageLink` the same of the
message, `ToolLink` which blocks are tool calls, `ArgsLink` that a tool block
holds all its arguments or gets them in one delta that is still under way. `LoopInv` says
what is true at each place of the loop. The proof has two halves: each conversion
function preserves the link when it appends its events (the lemmas up to `FinalizeLink`),
and writing the first event preserves it (up to `EventSeen`). The step by which an
event is seen is then also a step of `ClaudeProtocol`, for `BlockLink` says that the
event's block is open, or the next one to open. `MaxPayloads`, which
bounds TLC's streams, is any number in the proof. TLC checked `StreamInv` on the
streams of `claude_turn` (310 552 states) before it was proved.

That the client is shown the texts in the order in which the upstream sent them needs
more, since text and reasoning go to different blocks and a block is filled by deltas
that arrive one by one. `TextsInv` adds to `StreamInv` the places at which the blocks begin
in the sequence of texts (`Laid`): block `i` takes the texts from `at[i]` to `at[i + 1]`, as many
as it has and as there are deltas for it on their way, and all are of its kind. The
other part, `AtEnd`, is what makes it inductive: no block behind the open one has a text,
so what is added to the open block is the last text. A text therefore has
to close the thinking block before it, and the other way round, which is what the code
does. Each conversion function says what the payload says (the lemmas up to
`FinalizeSays`), and a write moves one delta from the way to the client (`LaidSeen`).
`Shown` puts the blocks one behind the other with `FlattenSeq`, which is a recursive
function; that its result is the texts (`Flattened`) is an induction over the blocks.
The library's induction theorem has an operator as a parameter and cannot be used here,
so `SetInduction` states the principle for sets and proves it from the finiteness of
intervals. TLC checked `TextsInv`, with the places computed from the state, on
the streams of `claude_turn` before it was proved.

Only model-checked:

* the properties of `ClaudeTurn` (`ToolsMeanTheSame`, `RequestAccepted`, `TurnComesBack`,
  `FormsAgree`), which rest on the recursive operators of `ToolSchemas` and on `SelectSeq`,
  which the prover's standard library declares without a definition, so that
  nothing follows about what it selects;
* all liveness properties (`RequestReturns`, `DrainingEnds`, `ShutdownEnds`,
  `AnsweredOrCutOff`, `AcquireReturns`, `SelectReturns`, `FileCatchesUp`), because
  fairness and ENABLED are out of the prover's reach.

## 5. Plan

1. `TokenPool`, `RunLease`, their proofs and the refinement: done.
2. `ClaudeStream`, `ClaudeProtocol`, `Accounts`, `RunManager`, `ProxyPool`: done, their
   safety proved.
3. `Shutdown`: done, with proofs, for one pool.
4. `ToolSchemas`, `ClaudeTurn`: done for TLC.
5. Left, proofs: what `ProxyPool`'s file may hold.
6. Left, `RunManager`: the upstream client of a pool, which after the last deletion has
   no proxy selector; a second administrator; `Close` over several pools.
7. Left, `config.go`: parsing and defaults against what `saveConfig` writes.

## 6. Not modelled

Vendored libraries, the HTML/JS front end, dialling (`proxy_transport.go`), HTTP
headers and bodies, token estimation (`token_count.go`, an estimate with no
promise to check), routing and API-key comparison, and the start of the process
(`main.go`).

The model registry (`models.go`) is one table replaced under a lock every six hours.
`hardcodedFallback` is merged into every fetch, so that the models that are served
never change; that a model's agent may change between two lookups is in `TokenPool`
(`Serves` is a relation). `config.go` parses once, before anything runs. The logs and
usage figures of the Web UI are two ring buffers under one mutex.
