# A verification project for thinyai-walrus

TLA+ modules, TLC configurations and TLAPS proofs for the thinyai-walrus
repository: an agent kernel (`packages/core`), a job scheduler
(`packages/runtime`), adapters that keep memory on Walrus and Sui
(`packages/adapters`), tool plugins (`packages/plugins`) and the processes
that put them together (`heads`).

Paths below are relative to the repository; `PROJECT.json` maps every
definition to the lines it models.

## 1. Inventory

Everything runs in single-threaded JavaScript: a piece of code between two
`await`s is atomic, and everything else interleaves. That is the grain of every
module: one action is one such piece, and the order in which ready
continuations run is left open.

| Component | State it keeps | Operations | What makes it correct |
|---|---|---|---|
| ReAct loop, ACT phase (`core/src/loop.ts` 128-173) | lock table, results by index | map, acquire / wait / retry, execute, release | calls that share a lock are serialised, none waits for ever, every call is answered |
| Agent run (`core/src/agent.ts` 158-249, `loop.ts`) | transcript of each run, one stored transcript per session | load, think, act, guards, append | the guards end it; whole turns are stored; a conversation only grows |
| Budget (`core/src/middleware/budget.ts`) | two counters per middleware | check, call, account, reset | caps hold under concurrent runs |
| Scheduler (`runtime/src/index.ts`) | timers, inFlight, runCounts, stopped | start, stop, tick, runJob | no overlap, capped runs, nothing after stop, jobs never wedge |
| Daemon head (`heads/daemon`) | the process | boot, signal, exit | shutdown does not cut a run |
| Walrus user facts (`adapters/walrus` 463-589) | cache, local file, chained uploads, pointer | load, remember, upload, move pointer, flush, restart | remembered facts survive; the pointer never goes back |
| Model middleware (`core/src/middleware/identity.ts`, `compaction.ts`, the contexts of four plugins) | none | rewrite a request | the conversation, its system messages and its tool results stay well-formed in every composition |
| Spawn (`core/src/spawn.ts`, `plugins/agents`) | depth | delegate_task, a loop of its own | bounded depth; a failing child is an observation |
| Walrus demo (`heads/walrus-demo`, `adapters/walrus` 54-413, `adapters/signer-sui`, `move/memory_head`) | blobs, transcript and audit pointers in a file or on chain, audit buffer | tick: load, run, append, artifact, flush, update | a pointer leads to a blob; a stored turn stays; the trail is complete |
| HTTP head and SQLite (`heads/http`, `adapters/memory-sqlite`) | rate window, responses, the transcripts table | chat, delete, time-out | one answer per response; "done" means stored |
| Web app (`apps/web`) | chat store, reader loops | submit, read, abort, switch session | no mixed answers; the input comes back |
| CLI head (`heads/cli`) | config.json, live signer and model, audit buffer and uploads, the prompt | turns, wallet tools, menus, Esc, Ctrl-C, Ctrl-D, a second terminal | keys are kept; the signer is the file's; the trail is complete |
| Tool chain (`core/src/compose.ts`, `policy.ts`, `simulate.ts`, `approvers.ts`, `plugins/resilience`, chain plugins) | caches, rate window, attempts under way | retry, time-out, limit, cache, policy, approve, simulate, execute | a payment is made once |
| Semantic memory (`adapters/memory-vec`) | a JSON file, its copy in each process | first use, chained add | what was saved stays |
| OpenTelemetry, evaluation harness, generator, scripts | spans, files | - | not modelled |

How they interact. A head calls `agent.run` (a person, a timer or a request
starts it); the run loads its session from a memory backend, and its loop calls
the model through the composed model middleware (budget, compaction, facts) and
tools through the tool middleware (policy, resilience, audit). Runs of one agent
share the memory backend, the middleware instances, the plugins' state and the
event bus; nothing serialises them. Walrus and Sui writes happen inside tools, in
memory backends, or in the background.

What is hard here: two runs of one session (CLI and HTTP head, two requests, a
tick and a request); state read before an `await` and used after it (budget
counters, caches, read-modify-write of the pointer file and of the on-chain
head); background uploads that a process exit cuts off; rejections that leave the
rest of a batch running; restarts of the scheduler under runs in flight; tool
attempts that time out and go on; files that are rewritten whole by several
writers; responses and streams that end from two sides. The
`hazards` of `PROJECT.json` list each at its line, with the properties that
cover it or the reason why none does yet.

## 2. Modules

| Module | What it is |
|---|---|
| `SerialTools` | abstract: what `Tool.locks` promises about a batch of calls |
| `ToolBatch` | the ACT phase in detail; implements `SerialTools` |
| `ToolBatchProofs` | its invariants and the refinement, proved |
| `ModelMiddleware` | pure: what the plugins and compaction make of a transcript |
| `AgentRun` | `agent.run`, `runLoop` and the sub-agents of `delegate_task` (EXTENDS `ModelMiddleware`); the ACT phase is one action |
| `Budget`, `BudgetProofs` | the budget middleware under concurrent runs, and its limits proved |
| `Runtime`, `RuntimeProofs` | the scheduler, and its safety and the daemon's proved |
| `Daemon` | `Runtime` inside a process that signals end (EXTENDS `Runtime`) |
| `WalrusFacts` | a user's facts: memory, file, blobs, pointer, restarts |
| `VectorMemory` | the semantic memory's JSON file, shared by processes |
| `WalrusDemo` | the demo head with the blob client, both pointer stores, the audit logger, the Sui signer and the Move object |
| `HttpHead` | the server: rate limit, SSE responses, timer, SQLite sessions |
| `WebChat` | its clients: the web app and the served page (EXTENDS `HttpHead`) |
| `CliConfig` | config.json and the commands of a second terminal |
| `ToolChain` | one tool call from the loop to the chain: the tool middleware and the tools |
| `CliHead` | the interactive CLI (EXTENDS `CliConfig`, `ToolChain`) |
| `AgentRunProofs`, `WalrusFactsProofs`, `WalrusDemoProofs`, `WebChatProofs`, `CliProofs` | the proofs about these: `WalrusFactsProofs` has `VectorMemory`'s too, `WebChatProofs` the server's, `CliProofs` those of `CliConfig` and `ToolChain` |
| `MC*` | the instances TLC checks |

Compositions: `WebChat` is client and server in one state; `CliHead` runs its
turns on `ToolChain` and its tools write `CliConfig`; `Daemon` wraps `Runtime`;
`AgentRun` asks its model with what `ModelMiddleware` composes. `MCWalrusFacts`
only puts `WalrusFacts` and `VectorMemory` side by side: an agent has one or the
other.

An operator named `X_Something` before `X` is `X` with a plausible mistake in it
(a dropped guard, an off-by-one, a missing reset). No specification uses it: it
is there so that each property can be seen to fail when the code had that
mistake (`mutants` in `PROJECT.json`).

### ToolBatch

`runLoop` starts one async function per requested call. `Map(c)` is its
synchronous head: look the tool up (an unknown one rejects the promise), then
one round of `acquireLocks`, which takes every lock or suspends in
`Promise.race` over the promises registered under its locks. The calls are
mapped in order with nothing in between, so `NextToMap` fixes the order and
every other action waits for `Mapped`. `Retry(c)` is a later round, after a
release resolved one of those promises; the table may have changed meanwhile,
and it is looked at again. `Execute` is the microtask between acquiring and
calling the tool, `Finish` the end of `executeToolCall` (both outcomes become a
result) with the release in the `finally`. `Observe` and `Reject` are the two
outcomes of `Promise.all`; after `Reject` the other calls go on, as they do in
the code. A promise is named by the call that made it. The batch
(which tools are registered, which locks they declare) is chosen in `Init`.

`SerialTools` says: a call begins only when no running call shares a lock, it
ends, an unknown one is refused, and each of these happens eventually.
`AbstractStatus` maps the states of a call to those of the promise.

### AgentRun

A run is suspended in `memory.load`, in the model call, in the tools, or in
`memory.append`; `pc` says where. `Load` builds the seed and the user message,
`Answer` and `Ask` are the two kinds of model response, `Ask` with the repeat
guard, `Observe` the results and the loop condition, `Save` the append, which
*replaces* the stored transcript, and `Fail` any rejection. A message keeps its
role, the run that wrote it and the batch of calls it asks for or answers. A
batch is abstracted to its signature, the same string the repeat guard compares,
and a tool message stands for all results of a batch. `overlap`, chosen in
`Init`, says whether the caller starts a run while another of its session is
active.

`loops[r]` is a stack: the run's own loop and, above it, those of the sub-agents
it waits for. `Delegate` is `delegate_task` with `makeSpawn`'s depth check;
`EndLoop` is the end of any loop, which for a sub-agent, failed or not, is a
result of the tool that spawned it. A sub-agent's messages are not in the run's
transcript, and it has neither memory nor middleware (`spawn.ts` 86-100): budget,
policy and audit of the parent do not see its calls.

### ModelMiddleware

`composeModel(agent, messages)` is the request the model gets. An agent is what
`createAgent` was given: a persona, plugins in an order, options of compaction.
Each operator is one middleware; `KeepCount`, `LastOnes` and `Recent` are
compaction's choice of what stays, with its `slice(-keepRecent)`, which for 0 is
everything. `Selected` is `Array.filter`, by the places of what it keeps. Tokens
are estimated in units: a batch of results is two, everything
else one. `IsAgent` is what `createAgent` takes: no plugin twice, because
`ToolRegistry.register` throws on its tools. `Writers` are the authors of the
system messages that middleware writes, so that no run is taken for one of them.
`WellFormed` says what must hold of the result; `AgentRun` checks it of
every transcript its runs reach and every agent of `MCAgents`, and
`AgentRunProofs` proves it for every agent. `composeModel` and `Selected` are
recursive functions and not folds, so that they can be reasoned about.

### Budget

`CallModel` is the middleware up to `await next(req)`: checks, then
`totalCalls++`. `Return` adds the reported tokens (0 when none are reported),
`CallFails` leaves the call counted. `perTurn`, chosen in `Init`, is a head that
runs one turn at a time and calls `reset()` before each, as the REPL does
(`heads/cli/src/main.ts` 992); the other heads never reset. `calls` and
`tokens` record what each run used itself.

### Runtime and Daemon

`RunJob` is `runJob` up to its first `await`: the three early returns, the mark
and the count. It happens at a tick of a live timer or by a direct call.
`awaiting` and `running` count the invocations suspended in `job.input()` and in
`agent.run`: counters, so that an overlap would be visible. `start()` adds
timers whatever timers there are; `stop()` clears them all. Times are abstracted:
a live timer may tick at any moment. Every job has the same `maxRuns`.
`StoppedOnlyDrains` is what the comment of `stop()` promises, of every step between
`stop()` and the next `start()`.
`Daemon` adds the process: boot, the signal handler's `stop()`, and
`process.exit` after it.

### WalrusFacts

`cache` is the list in memory, `file` the local mirror, `queue` the promise chain
of background writes, `pointer` the stored entry. A blob id is the content of its
blob (Walrus is content-addressed), and so the pointer is the list it leads to.
`Remember` is the `remember_fact` handler with `save`: the list, the mirror, and one more
write on the chain; the list is serialised only when its upload begins, after the
earlier writes, which is what `Upload` does. `filePointerStore.set` does not replace its
file in one step: `RewritePointers` is where `writeFile` has truncated it (`pointer` is
`NotJSON`, which `readAll` takes for a file without entries: `PointerRead`), `MovePointer`
where it is written, and `writing[a]` says which process is in between. Loads, uploads and
pointer updates fail at any time, a pointer update in the middle of the rewrite too, and
then the file stays torn (`FailWrite`); the process crashes and restarts at any time, also
over a torn file (`Crash`). Two processes that rewrite the file at a time may leave it torn.
Facts and preferences are two lists of one form; one is modelled. Left out: a failure or a
kill inside the synchronous `writeFileSync` of the local mirror, and the other pointer
stores (in memory, on chain), which no head gives to this plugin; `WalrusDemo` has the one
on chain. `evicted`, `lastWrite`, `hiccup`, `stored` (all that the pointer has led to) and
`cut` record history for the properties.

### VectorMemory

`JsonVectorStore` and the plugin around it. `FirstUse` / `EndFirstUse` is the
unguarded `ensureInitialized`: two first uses may load at once, and the later
load replaces the items. An add is `Read`, `PushItem`, `Truncate`, `Written`,
chained in `adds[p]`; it may fail at each await, and the process may be killed.
A truncated file is `Torn`, which `load` takes for an empty one. Vectors, their
search and their order are left out. `hurt` names the three things the store
does not survive; after one the file is not followed further.

### WalrusDemo

`pc` is the await a tick is suspended in: `Resolve` and `Fetch` are
`walrusMemory.load`, `Think` the loop, `PutTranscript` and then either
`Truncate` and `Fill` (file) or an update of the head (chain) are `append`, `Store`
the report, `Flushed` the end of `flush` with the reset and the un-awaited
`head.update`. `updates` holds every `head.update` in flight: `ReadHead`, then
`Execute` (applied or aborted on the chain), then `Confirm`; `FailUpdate` rejects
at any of the three. A failed tick may leave a tool running (`strays`), whose end
is captured later. A crash keeps submitted transactions. `excused` records that
a stale, aborted or cut write happened, which is what `AcknowledgedTurnsStay`
exempts; the scheduler is reduced to one tick at a time, which is what `NoOverlap`
of `Runtime` says.

### HttpHead and WebChat

A request is `sent`, `loading`, `running`, `stored`, `finished`. `wire` is what
is on its way to the client and `resp` what was ever written, so that a second
end or a late frame is visible. `Timeout` ends the response and not the run, whose
last frame (`Conclude`) is then written behind the end, as `streamChat` does
unconditionally: Node drops a write after the end, so it is in `resp` and never on
`wire`; tokens go the same way. Only the second `res.end` is guarded. `Store` upserts the transcript the run loaded plus its turn; `gone` records
the turns an upsert or a DELETE took out. All clients share one rate-limit
address. In the app, `reading` are the reader loops that are alive, `ctrl` is
the InputBar's controller, `partial` the one text buffer, as the set of requests
its text came from. Left out: CORS, health checks, 404, and the `error` event that
Node emits, to no listener, for a write to an ended response whose last bytes a
stalled client has not yet taken.

### CliConfig, ToolChain, CliHead

`CliConfig` keeps both shapes of the file. Every writer saves a copy: `saveConfig`
takes the copy and what it was made from, and `kept` is what the file must hold.
`Put` is how every list of the file gets an entry, replacing the one of the same
address or id; so nothing is listed twice (`NoneTwice`), which the removal of a
single entry relies on.

`ToolChain`'s `chain` says how an agent was created. An attempt is the list of
awaits it still has (`todo`): the approver, the simulator, then the tool's own;
the middleware's order is that of the plugins (retry, timeout, rateLimit, cache
or idempotency, policy, simulation). `Issue`, `Retry` and `Step` are the pieces
between awaits; `TimeOut` settles the call and leaves the attempt. The minute of
`rateLimit` is abstracted to `MinuteOver`: the oldest counted attempt may leave
the window at any time. A tool is its sensitivity and its awaits, `Replies` what
each await can do to the chain: `submit` may put the transaction there and still
throw. `ThrowsAtOnce` is what a tool refuses before its first await: at once when no
gate is before it, else after the last gate (`GateStages`), which is why `Step` is
told whether it throws. Amounts, addresses and slippage are classes of arguments; `opt`
is the optional one that matters: `activate` of the wallet tools, `network` of
`sui_setup`. `Logs` says which awaits are followed by an entry of the audit trail
inside the attempt: the approver's decision, a sub-agent's end (`spawn.ts` 102-110), and what
the EVM, token and Solana tools log before they send. `tool_call`, the entry of the call as a
whole, is the loop's and is written when the loop has its answer. What a plugin logs
when it is set up, before the first prompt, is not tracked; a tool name that is not
registered is `tool_batch_unknown_tool`'s matter and not requested here.

`CliHead` adds the prompt: a turn (`Submit`, `Act`, `Settle`,
`Observe`, `Answer`, `TurnDies`), Esc, which aborts a model request only, the
menus, Ctrl-D, Ctrl-C at a prompt (within a turn nothing listens for it), the
wallet tools with their write of the file and the swap of the signer, and the
audit buffer flushed in the background. The signer is a wallet on a network: `sui_setup`
takes the network it is given, every other tool that of the start (`activateSigner`,
`main.ts` 394-396), which is `chain.suiNetwork`. In the file the wallet tools' save writes
the start's network again, as `saveSuiWallet` does. Whether a signer for mainnet then refuses
to sign because of the start's `allowMainnet` is left out. `buffer` has the turns with entries
in the audit buffer; `late` the entries that an attempt logs once it is no longer
`Awaited`, which is only so behind `timeout`: they are nobody's turn any more. `uploads` are the
flushes with what each carried, and what became of it (`Land`, `CtrlC`): a failed one is
not repeated. With `at = "library"` the same chain is
that of a program without a prompt, whose runs call tools side by side.

## 3. Runs

| Run | Instance | States | What it shows |
|---|---|---|---|
| `tool_batch` | 3 calls, 2 locks | 12 684 | the lock protocol serialises, wakes and finishes; it implements `SerialTools`, liveness included |
| `tool_batch_unknown_tool` | same | violated | an unregistered tool rejects the run |
| `agent_run` | 2 runs of 1 session, 2 batches of which one delegates, maxSteps 3, spawn depth 1, 240 agents | 66 535 | guards, whole turns, well-formed requests, growth, termination |
| `agent_run_repeat_guard` | same | violated | a request with unanswered calls |
| `budget` | 3 runs, maxCalls 5, maxTokens 3, up to 2 tokens a call | 65 697 | both caps under interleaving; own use with resets |
| `runtime` | 2 jobs, maxRuns 2, 2 starts | 1 008 | no overlap, caps, nothing begins after stop, no wedged job |
| `daemon_exit` | 2 jobs, maxRuns 3, 1 start | violated | exit under a run in flight |
| `walrus_facts` | 1 process, 3 facts, maxFacts 2, 2 queued writes, 2 loaders; 2 processes, 2 memories, 2 adds, 2 first uses | 443 046 | facts survive, over failed uploads, torn pointer files and restarts; flush; saved memories stay |
| `walrus_facts_hiccup` | same | violated | a failed read loses the earlier facts |
| `walrus_demo` | 3 ticks, 1 crash, file or chain | 136 823 | pointers lead to blobs, stored turns stay, the trail is complete but for strays |
| `web_chat` | 2 requests, 3 sessions, rate limit 1, 1 delta on its way | 609 100 | one answer and one end per response, what comes behind the end unread, "done" means stored, no mixed text, the input comes back |
| `cli` | 2 tool calls, 2 turns, 2 sessions, 3 wallets, 2 providers, 1 other command; 9 ways to create the agent | 2 072 242 | keys kept, live signer and network, payments once, what goes up to the trail and when |

Why the bounds are enough. Three calls over two locks are the least in which one
call waits for two different holders, is woken by one of them, and finds the
other or a third in its way. Two runs and maxSteps 3 allow three equal
batches in a row, a change of batch, and the step bound reached without the
repeat guard; with depth 1 a sub-agent's own delegation is the one refused; two runs of one session give every interleaving of a
load with the other's append, and one turn that loads what another stored. In
`budget` both limits are reachable by one run and by several together, and the
last call may overshoot. Two starts double the timers of a job and restart a
stopped runtime under a run in flight. With maxFacts below the number of facts
the limit evicts, and two queued writes are what a chain needs to be out of
order. Three ticks let the audit update of the first race the transcript of the
second and the third load the outcome. Two requests give a late answer, a stale
upsert, a second stream and one refusal for the rate. Two calls and one retry give
a time-out with its attempt going on beside the next, and a second call on the
same key or cache entry; nine ways to create an agent cover each middleware once
with prompt or library. The one with audit and time-out (`Watched`) has no retry: a first
attempt that goes on behind its turn, beside the next turn's, is all that a late entry needs. Every
start is on testnet, with a `sui_setup` on mainnet; the theorem has either. `MaxStarts`, `MaxUse`, `MaxQueued`, `MaxLoaders`,
`MaxReads`, `MaxAdds`, `MaxTicks`, `MaxCrashes`, `MaxRequests`, `MaxDeltas`,
`MaxTerminal`, `MaxTurns` and `MaxSessions` bound the model, not the code (though
`MaxTicks` is also the job's maxRuns); everything else is a parameter of the code. Deadlock is checked in
every run but `cli`: the states in which everything is over stutter explicitly
(`Settled`, `Quiet`, `AllOver`, `Gone`, `AllDone`). The CLI really stops: its
process is gone and the other terminal is done.

Fairness. The job queue of JavaScript runs every ready continuation, so the
steps of a call, of a run, of the write chain, of a reader loop and the server's
handlers and timers are weakly fair. That a tool, a
model, a memory backend or Walrus settles is an assumption on them: the kernel
puts no time limit on any. `StreamingEnds` needs no such assumption: there a run
may hang, and it is the server's timer that ends the response. A live timer keeps firing. Nothing is assumed of who
calls: no user, signal, failure or crash has to happen. A failure is never
required, and the liveness properties hold whether or not one occurs.

## 4. What the violated runs show

* `tool_batch_unknown_tool`: the lookup at `loop.ts:133` is outside every `try`,
  while the one in `executeToolCall` is inside. A model that invents a tool
  name ends the run, although the loop promises "error-as-obs" (62).
* `agent_run_repeat_guard`: the guard returns after the assistant message is
  pushed and before any result is. The stored session then holds tool calls
  without results, which the next request repeats.
* `daemon_exit`: `stop()` resolves at once, and `process.exit(0)` follows it,
  under whatever run is in flight. The heads `trading-agent` and `walrus-demo`
  shut down in the same way.
* `walrus_facts_hiccup`: `load()` caches an empty list after a failed read; the
  next remembered fact is written over all earlier ones.

What the properties of the other runs exempt is also worth reading; each exemption
is a behaviour of the code that the run reaches:

* `AcknowledgedTurnsStay`: a stored turn disappears when the un-awaited audit
  update of one tick writes back the transcript pointer it read before the next
  tick's append, when a transaction aborts (`signAndExecute` never looks at the
  effects), or when the process ends within `writeFile`.
* `PriorFactsPersist`: a process without a `cacheFile` that ends while the pointer file is
  torn (`cut`) leaves nothing to start from: the next one reads the file as empty, and all
  facts are gone though no read has failed. With a `cacheFile`, which the CLI always
  sets (`heads/cli/src/main.ts:285-294`), the next start begins with that one, and
  its first write mends the pointer; the run checks this. A failed read is the other
  exemption (`walrus_facts_hiccup`).
* `OnlyStraysDropped`: an entry that a left-over tool logs while the trail is being
  uploaded is dropped by the reset.
* `DoneMeansStored`: a deleted session comes back, without error, when a run that
  had loaded it stores its turn; of two overlapping requests one turn is lost.
* `TextIsOwn`: leaving the chat page while an answer streams leaves its reader
  running, and its text may end up in the next message.
* `KeysKept`: `sui_setup` on a file with wallets drops their keys; a menu or
  `thiny init` answered after another writer saves its older copy over theirs.
* `SignerIsActive`: a wallet created or imported with `activate: false` becomes the file's
  active one when none was named, and signs after the next start only. After `sui_setup`
  has chosen another network than that of the start, `sui_use_wallet` signs on the start's
  network while the file names the other, so a restart does change where the CLI signs;
  and `sui_create_wallet` and `sui_import_wallet` move the file back to the start's network.
  What another process writes, or a menu from a stale copy, the running CLI does not notice.
* `PaidOnce`: a time-out, a failed confirmation, or a concurrent call with the same
  key each lead to a second payment.
* `TurnsUploadedOnce`: the entries of a cancelled turn go up with the next answered one,
  under another session if the user typed `/new` in between; so do the entries of an attempt,
  or of a sub-agent, that timed out and goes on. An upload that fails, or that Ctrl-C cuts
  off, is not tried again: its buffer was reset before, so its entries are in no
  trail. The property says what goes up when, and not that it arrives.
* `SavedMemoriesStay`: two processes, a torn file, or a first use that ends between
  an add's push and its write lose saved memories.

Smaller differences between words and code, not run: `maxRuns` is documented as a
bound on *successful* runs (`runtime/src/index.ts:21`) and counts every run (83);
a `userId` is to be shared "across agents to share context"
(`adapters/walrus/src/index.ts:430`), but each agent loads the stored list once and
writes its own list whole, so of two agents that both loaded before either stored a
fact the later one's write moves the pointer to a list without the other's, though
nothing failed (`SharedInTurns` of section 5 says when sharing works); the budget's
limits are documented as those of "a single agent run"
(`budget.ts:8,19`) and are those of the middleware's life unless a head resets
them (`RefusedForOwnUse` states when they agree; `heads/trading-agent` never
resets, so it stops working after ten model calls); `rateLimit` says "one instance
tracks one agent run" (`resilience/src/index.ts:69`) and lives as long as the plugin;
two runs of one session that overlap keep only the later one's turn
(`agent.ts:232`), which is why `ConversationOnlyGrows` is stated for callers that do
not overlap them; `skill_create` promises a skill that is "immediately available"
(`agent-skills/src/index.ts:224`) and the injected list is the one loaded at start;
the erc20 rule set's comment names transfers and the rules abstain on them
(`tokens/src/rules.ts`); the resilience plugin caches every tool although
`toolCache` says "never use on tools with side effects" (`resilience/src/index.ts:93`).

## 5. Proofs

All by TLAPS, for every value of the constants, under the named assumptions of
the modules, which are listed below. Each `*Proofs` module begins with its inductive
invariant; then come lemmas about the operators, one lemma per action (or per
action and conjunct), and the theorems.

* `ToolBatchProofs`. The inductive invariant adds to the types and the table's
  exactness that a waiting call races only on promises of calls that still hold
  one of its locks, and that whoever is past the wait holds what it needs.
  Mutual exclusion follows from the exactness of the table, which is why that,
  and not the exclusion itself, is what is carried along. One lemma per action;
  `Refinement` then maps every step to a step of `SerialTools` or to a stutter.
  What is refined by proof is the safety part `ASafe`; TLC checks all of
  `ASpec`.
* `BudgetProofs`. `OvershootBounded` is inductive as stated, because a call is
  let through only while the token counter is within its limit; the arithmetic
  is in two lemmas on products, the rest in one lemma per action.
  `PerRunLimits` rests on a second invariant: with a reset before each turn
  the counters *are* those of the one active run.
* `RuntimeProofs`. `RunsCapped` is not inductive: it needs that every run that
  succeeded or is under way was counted (`Counted`), which needs that at most
  one is under way (`NoOverlap`), whose `awaiting` and `running` sum is tied to
  `inFlight`. `StopBlocks` (`StoppedOnlyDrains`) goes through the steps one by one:
  what can happen to a stopped runtime is the end of an input or of a run.
  `DaemonIsScheduler` maps the steps of the daemon's process to the scheduler's, so that
  all of this holds in it, and `SignalIsRespected` says what its shutdown does give.

* `AgentRunProofs`. That a stored transcript is made of whole turns says nothing
  of a run under way, so the invariant has the shape of every transcript
  (`Turnwise`: what may follow what within one run, where the next turn begins,
  and that an ask without results is the last of a run the repeat guard ended),
  where a run is in it (`RunState`: the number of its answers is the loop's step,
  and its last asks are as many equal ones as `repeats` counts), whose messages it
  has (`Own`), and the same of the store (`TurnsWhole`). `LoopGuards` is read off
  from `RunState` and the shape. The steps of a sub-agent are one lemma: they
  leave the run's own loop where it waits. `OnStored` is for callers that do not
  overlap runs of a session: the run's transcript begins with what is stored,
  which is why `memory.append`, a replacement, only adds.
  `RequestsAreWellFormed` rests on what a request is made of (`Assembled`): system
  messages, then the conversation without its first d messages. `Fits` is what holds
  after n middleware: the identity leads and is there once, and either nothing was
  cut off, or compaction has run, left one summary, and kept `keepRecent` messages.
  It is needed in place of `WellFormed` because that says nothing of what a later
  middleware may find: the summary is a system message too, and a second identity or
  a second summary could come from the transcript or from another plugin, if
  authors were shared (`WritersAssumption`) or a plugin there twice (`IsAgent`). One lemma per
  middleware carries `Fits` on; `TurnsCompose` reads from `Turnwise` that the results
  in a transcript follow their calls, so that only the cut may separate them.
  The induction over plugins, and the one over messages in `Selected`, are done
  without an operator as parameter: what is to be shown of each n is a set of
  numbers, and a set that has 0 and passes on to n + 1 has them all
  (`SetInduction`, from the least element that `WFMin` gives).
* `WalrusFactsProofs`. For any number of processes: one load at a time, only the
  oldest write of a chain has begun its upload, and the last one uploads what is
  remembered (`ChainInv`). The three properties about facts that survive are
  proved for one process with its restarts (`Alone`; two with one user do lose facts,
  section 4): the load under way brings what the pointer still is
  (`LoadIsFresh`), the mirror is exact (`MirrorExact`), and every list that is or will
  be the pointer's next has all facts that were ever stored (`NextHasFacts`), the list in the
  file included, because an exit may come at any moment. While the pointer file is torn
  nobody can read from it what it led to, so the invariant also says who has that list then:
  a process that runs, or the `cacheFile` (`TornIsHeld`). `SavedMemoriesStay` is
  for any number of processes: until the file is hurt one add is at it
  (`OneAtTheFile`), and it carries every saved memory through each of its awaits
  (`CarriesSaved`). Of several agents with one `userId`, `SharedInTurns` and
  `SharedFactsStay` state the use for which sharing does work: none has a `cacheFile`
  (it would begin with its own old list), and each starts when the one before has ended
  (`InTurns`). Then every agent that is not up is `Blank`, and the one that is loads what
  the pointer is. The hypothesis is about the caller and stands in the theorem,
  not among the constants' assumptions.
* `WalrusDemoProofs`. `BlobsFirst`: whatever may become a pointer, what an update
  has read included, is stored. `AckedKept`: until a write goes wrong, every
  transcript that may become the pointer extends the acknowledged one, or belongs
  to an update that read pointers that were already behind, whose execution is
  one of the excused writes. That needs to know that no transcript is ahead of the ticks
  (`Bounded`), so that a left-over update is seen to be behind, and that at most one
  update is awaited (`OneAwaited`). `Serialised` says that the buffer under a flush has
  grown by strays only.
* `WebChatProofs`. What has been written to a response at each stage of its request
  (`ResponseShape`), that an end on the wire is the last frame (`EndIsLast`), and that a
  stored turn is in the table or was taken out of it (`TurnsKept`). The client's
  `TextIsOwn` needs `OneReader`: until a reader strays there is one, the buffer is its
  own, and the message that streams is the one it was started for.
* `CliProofs`. Four invariants, one for each group of variables and one that ties the
  buffer to the attempts, each kept by every step. `ConfigInv`: the file and every copy of it are `Consistent` (nothing listed twice, the
  active wallet listed), without which a removal could leave a second entry and
  `saveSuiWallet` a dangling one; and the live signer is what a start
  would make of the file, or, in the shape that `sui_setup` writes, which names no active wallet
  beside its one, that wallet on the file's network (`Signing`, which `SignerIsActive` is
  read off from). `TurnInv`: what is
  logged of a turn is in the buffer or in exactly one upload (`LoggedInOnePlace`). A late
  entry too (`LateInOnePlace`), and it needs more: that the entry is new when it is logged.
  An entry is named by its call, its attempt and what the attempt still had to do, so
  an attempt that has logged has less to do since, and it stays given up, because a call never
  returns to an earlier attempt. `CallInv`: an attempt that put a
  transaction on the chain and is not the one waited for has answered and is
  remembered, or timed out or failed after sending (`Attempts`); two calls with
  one key that are both under way or paid began one beside the other
  (`BesideEachOther`), which is where the cache's entry, set only at the answer,
  comes in; no call is waited for between turns (`QuietBetweenTurns`);
  an import that reaches its key pair has one (`ImportHasKey`), which is what the file's types need.

What is assumed of the constants, and why the code justifies it: limits and bounds
are natural numbers, positive where a zero would leave nothing to run;
the values that stand for "none" are none of the others (`NoneAssumption`,
`MissingAssumption`, `TornAssumption`, `SignaturesAssumption`); delegations are
some of the batches, the sessions of `FirstChat` and of the served page are
sessions, calls are numbered, no run has the name of a middleware
(`WritersAssumption`), and the agents are what `createAgent` accepts
(`AgentsAssumption`). `AsksAssumption` is the one about behaviour:
what a model asks of an agent are requests of registered tools,
`sui_import_wallet` gets a key that is some wallet's or is no key, as
`Ed25519Keypair.fromSecretKey` sees to, and `sui_setup` one of the two networks, as its schema
does. `NoSignerIsNone` says that no signer and no active wallet are written alike. Every assumption is evaluated by a run.

Proved and not run: the types of `Budget`, which say no more than that its counters are natural numbers;
`SignalIsRespected` of the daemon, which two of the code's guards
ensure each on its own (cleared timers, the flag), and the two theorems about agents in
turns: the runs have one agent, because a second one multiplies the state space.

Every invariant and every safety action property of the passing runs is a theorem.
Model-checked only:

* liveness (`RunsEnd`, `FlushResolves`, `StreamingEnds`, `JobsKeepFiring`,
  `EveryKnownCallReturns`, and the fairness half of `ImplementsSerialTools`): fairness and
  ENABLED are out of the prover's reach;
* what the four violated runs show.

What `estimateTotalTokens` computes, a fold, is not proved and not needed: compaction
keeps at least `keepRecent` messages whatever the estimates are.

## 6. Plan

The modules planned are written and every safety property that a run checks is proved.
What is worth doing next, in this order:

1. The transcript backend of MemWal, whose recall depends on a semantic search, and
   tracing spans under concurrent runs.
2. Which of the facts of two agents side by side the last writer keeps, beyond that
   the others' may be lost.
3. The list of `agentSkillsPlugin`, loaded once, against the files its tools write.

## 7. Not modelled

Times (only orders of events are; what is due may happen at any moment), the text
of messages, logging, schema validation of arguments (a failed one is a failed
tool), rendering, environment variables (a key from `SUI_SECRET_KEY` too, and
`SUI_ALLOW_MAINNET`, without which a signer on mainnet refuses to send), code generation and release scripts, HTTP and RPC formats, amounts and
slippage arithmetic, floating-point similarity, tracing, the evaluation harness.
Plugins' `setup` and the summarizer's await are not steps of their own: nothing
else acts on what they read. `thiny init` on a machine without a configuration is
left out of the `cli` run, which starts with a file.
