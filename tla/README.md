# Ossia, verified

TLA+ modules that model the parts of Ossia (`src/src/core`, an API server around a
deep agent) whose correctness depends on the order in which things happen, TLC
configurations that check them on small instances, and TLAPS proofs for every value of
the constants. Paths below are relative to the repository.

- `tlc -config MCX.cfg MCX` checks an instance, `tlapm XProofs.tla` checks the proofs.
- `PROJECT.json` lists the runs, the source lines each definition stands for, the
  mutants (a definition changed as a plausible bug would, which a property must notice),
  the hazards and the theorems.

## 1. The system

A request enters the FastAPI app (`api.py`), seeds the caller's memory (`memory.py`)
under a Redis lock (`cache.py`), and runs the agent graph on a thread. Model and tool
calls of the graph pass a stack of middleware layers (`middleware.py`, built in
`agent.py`). A streamed turn is relayed by `v3_projector.py` to the client, and stored
for replay in `events/buffer.py`, which starts one webhook delivery per event
(`webhooks.py`). The graph writes a checkpoint after each step; threads are listed and
deleted through the checkpointer, under ids that carry the caller (`utils/session.py`),
with titles and archive flags in a dict beside it. A server that starts opens the
checkpointer, loads the knowledge base into Redis (`kb_loader.py`), finds its plugins
(`plugin.py`, `plugin_config.py`) and builds the agent; it closes all that when it stops.
Two ways lead around the layers. `POST /agui`, the endpoint of the web interface, runs the
same graph on the same checkpointer without an API key and takes the thread id as its
client sends it. And eager tools, on by default, runs a tool from inside the call of the
model, where no layer around tool calls sees it.

Everything runs in one asyncio loop per process: code between two awaits is atomic,
everything else interleaves. Redis, the store and the checkpointer are shared by
processes and survive them; the module-level dicts do not.

| Component | State it keeps | Operations | What is hard | What makes it correct |
|---|---|---|---|---|
| Tool-call middleware | per thread: a circuit per tool, a count of tools, a count of grades | hooks before and after a run; `awrap_tool_call` of four nested layers | concurrent calls and runs share the thread's entries; they are popped while calls hold them; retries pass the caps again, eager tools none | limits per run hold for what passes them; circuits are coherent; no run inherits failures |
| Model retry and fallback | the request's model and tools | `awrap_model_call` of nested layers, eager dispatch | what a retry finds after a fallback; tools that started before the stream failed | the right model with its tools bound once; nothing that must wait runs early |
| Stream projector | bounded queue, relay tasks, sentinel count | put, get, gather, control events | backpressure, relays that fail, clients that vanish | ordered gapless channels, one final `complete`, no deadlock |
| Event buffer | events per thread | store, get, clear | concurrent turns, trim at the limit, hang-ups | a replay is recent history in whole turns |
| Chat and thread endpoints | checkpoints | chat, stream, resume, delete, list; `/agui` | deletes that overlap turns | what is deleted stays deleted |
| Memory seeding, lock | store file, lock key | seed, edit, lock, unlock | advisory lock, expiry, no owner, crashes | the agent's notes survive |
| Webhooks | registrations | add, delete, deliver with retries | lost acknowledgements, one failing delivery, removals during a delivery | bounded attempts, every delivery ends, nobody else's failure |
| MCP toolkit | a worker task per server | connect, park, shut down | timeouts racing answers, cancellation, hanging teardown | no session outlives the toolkit, one server's failure is its own |
| Knowledge base | documents and a manifest in Redis, a snapshot per process | replace the corpus, search | fetch failures, two boots, crashes | the manifest names the documents, and all of them |
| Service start and stop, Redis clients | what a server has open | start, build, serve, stop | every step can fail, on the way up and down | what is open is what the place implies |
| Thread identity, metadata, listing | ids, titles, flags | scope an id, resolve a session, list, fetch, patch, delete | prefixes added in two places, metadata that survives, windows over all callers | under `/v1`: one caller, one name, one thread |
| Agent construction, plugins | the plugins and layers it was built with | read `ossia.json`, scan, load | names that collide, broken files, layers never asked | what is declared is loaded |
| Tools | the memory built, and the snapshot of the knowledge base read, once per process | search, fetch, run, recall | outages told as answers, replies that cannot be read | an answer says where it is from, and what ran is what it tells of |
| Terminal interface | reducer state, cached session | reduce, send, abort, new chat | aborts and late answers | the screen follows one stream |

The other components listed in `PROJECT.json` (read-through cache, request context, audit
and evaluation, configuration, command line, web interface) are not modelled, each with
its reason there; section 5 sums them up.

## 2. The modules

| Module | Models | Instance | Proofs |
|---|---|---|---|
| `ToolCallStack` | the four tool-call layers on one thread | `MCToolCallStack` | `ToolCallStackProofs` |
| `TurnFeed` | what a streamed turn promises its client (abstract) | through `StreamProjector` | refinement, below |
| `StreamProjector` | `project_v3_stream` read by `chat_stream` | `MCStreamProjector` | `StreamProjectorProofs` |
| `ThreadEvents` | one thread's buffer and checkpoints under turns, deletes, restarts | `MCThreadEvents` | `ThreadEventsProofs` |
| `MemorySeed` | `seed_memory` under `redis_lock`, and the agent's edits | `MCMemorySeed` | `ServiceProofs` |
| `McpToolkit` | `MCPToolkit`, its workers, and `build_agent_async` around them | `MCMcpToolkit` | `ServiceProofs` |
| `Webhooks` | the webhook store and `deliver_event` | `MCWebhooks` | `WebhooksProofs` |
| `Threads` | ids, checkpoints, metadata and the endpoints of `/v1/threads` | `MCThreads` | `ThreadsProofs` |
| `KnowledgeBase` | the corpus, its loads and its searches | through `Service` | `ServiceProofs` |
| `Service` | `lifespan` and `build_agent_async` of several servers on one Redis | `MCService` | `ServiceProofs` |
| `Tools` | what each tool answers (pure) | through `AgentTurn` | `AgentTurnProofs` |
| `Plugins` | `ossia.json` and the discovery of plugins (pure) | through `AgentTurn` | `AgentTurnProofs` |
| `AgentTurn` | model calls, eager dispatch, review and tools of a turn | `MCAgentTurn` | `AgentTurnProofs` |

`ServiceProofs` holds the proofs of what a server does around its turns: it extends
`Service`, `MemorySeed` and `McpToolkit`, whose definitions therefore carry their own names
(`SeedSpec`, `SeedTypeOK`; `ToolkitSpec`, `ToolkitTypeOK`). `FoldProofs` models nothing:
it is the induction over loops that `ThreadsProofs` and `AgentTurnProofs` rest on.

`MC` modules add only symmetry sets and the values of constants. A definition whose
comment starts with "Fault:" is not part of any specification: it is the mutated form of
the definition that follows it.

### ToolCallStack

`agent.py` nests CircuitBreaker ( RetryTool ( RevisionLoopCap ( ToolCallLimit ( tool )))).
All four key their dicts by thread, so the module models one thread with several runs and
calls. An action is the code between two awaits: `AdmitCall` is the way from the circuit
down to the tool, `BlockedCall` and `AnsweredInside` the ways that turn back (at the
circuit, or further in at a cap or with a result that is there), `ToolReturns` and
`ToolRaises` the way up, `ToolRaisesAndBacksOff` and `RetryCall` the two halves of a
retry. The hooks are nodes of the graph and hence separate steps: `StartRun`,
`ResetGrades`, `ResetCalls` before the agent, `EndRun`, `ReclaimGrades`,
`ReclaimBreakers` after it. In between a run is active, while the model answers, and
acting, in its tool step (`Act`, `AskModel`). `AbortRun` is a run that ends without
`after_agent`; `Interrupt` and `Resume` park it for human review; `Restart` loses the dicts.

The clock is abstracted to `cooling`: true from a failure until the recovery timeout has
passed (`RecoveryElapses`). An entry that was popped lives on in the calls that hold it;
`attached` says whether a call's entry is still the one in the dict. A tool returns or
raises, at will.

`EagerDispatch` runs a tool of an active run outside the four layers. When it has ended the
call is held, or asked for if it raised (`EagerEnds`); the tool step then passes the layers
with it: one that is held is only answered inside, and of the run of one that is asked for
the layers know nothing. A stream that fails drops what it has dispatched
(`DropEager`). `seen` is an observer: what each run has executed, graded, run eagerly and
failed, how often another run or a restart has set its counts back (`resets`, `regrades`),
and whether it had the thread to itself; no guard but the bounds `MaxIssued` and
`MaxResets` reads it.

### TurnFeed and StreamProjector

A relay is reading, holding an item it must put, closing (in its finally clause), or
done. An item of a channel is its number; the sentinel is number 0. The module keeps the
channel of a sentinel, which the code does not, so that properties can speak of it; no
action reads it. A relay whose projection raises goes to its finally clause like one
whose projection is exhausted. `Disconnect` closes the generator at any point; the relay
tasks live on. `TurnFeed` is the promise: channels in order and without gap, control
events after everything, `complete` last. The refinement maps `made` to the items taken,
`ended` to the relays past reading, `open` to a generator not closed.

### ThreadEvents

A turn streams, has handed over its last chunk, or runs detached (its client hung up, or
it is a plain chat or a resume). `store` and `clear` are the buffer's; `collected` is the
length of the list the endpoint collects. A delete is three steps: the checks, the
checkpointer's delete, and the code after the await that clears the events and answers.
A restart empties the buffer, and the checkpoints too if they are kept in memory.
`log`, `quiet` and `gone` are observers: the events stored since the last clear, the
deletes that found no live turn, and what deletes have answered since a turn last began.

### MemorySeed

Each step is one command of Redis or the store taking effect. The lock is advisory in
the code (the body runs whether or not it was acquired) and in the model. A command may
raise before or after it took effect; the lock may expire at any time; a process may die
at any time. `late` remembers whether the file existed when the call began.

### McpToolkit

`worker[s]` is where the task of `_ServerWorker.run` is: connecting, parked on its
shutdown event, closing (its finally clause), ended. `ready` is its future and `waiter`
the parent's `wait_for` on it; a timeout cancels the future, and the worker that answers
later finds it done and parks all the same. `Gathered` is the return of the gather: the
workers that answered are `held`, and `Reject` tears the others down one at a time, in
any order of servers. `teardown[s]` is where `_await_worker_teardown(s)` is: scheduled
in the gather of `_teardown_workers`, in its grace period, or draining a cancelled task.
A `cancel()` is a request (`cancelled`) that the worker receives at its next step; in
the finally clause it is suppressed.

`parent` is where `build_agent_async` is. It may be cancelled at each of its awaits in the
toolkit: while connecting (`CancelConnect`), in a grace period (`CancelGrace`, which first
brings the worker down), in a drain (`CancelDrain`, at once), and in the gather of
teardowns (`CancelTeardown`), as often as one likes. It opens the store after the toolkit
and outside the `try` that leaves it (`StoreDoesNotOpen`), and leaves the store first.
Servers with an unsupported transport have no worker and are not in `Server`. A server
answers, fails, or never answers.

### Webhooks

`Store` is one `create_task` of the event buffer; the task takes its snapshot of the
receivers later, when it runs (`Deliver`), so a webhook removed in between gets nothing.
`post[e][w]` is `_deliver_one`: posting its attempt, backing off, or ended in one of four
ways: delivered, dropped after the last attempt, raised, or abandoned because the client
was closed in its backoff. An attempt that fails may have reached the receiver all the
same, which is what `received` observes. `AttemptRaises` is an exception that is no
`HTTPError`: it ends the gather, which closes the client while the other deliveries go
on. The events of the projector have no `type`, so that only `"*"` matches them; `Kind`
has one other name, which a subscriber may give in vain. A restart drops registrations
and deliveries. `outdated` observes which webhooks were already removed when an event
was stored.

### Threads

An id is a string cut at its colons: a sequence of words, UUIDs and hashes, so that
"begins with the caller's prefix" is about its head. `Route` is what the thread endpoints
do with an id, `Resolve` what the chat endpoints do: an id that was sent decides first,
then the wish for a new session, and the topic (or `DefaultTopic`) only where neither is
there. `AguiRun` is a request of `/agui`: a turn on any id of `AguiId`, for no caller.
`checkpoints` is what the checkpointer holds of all threads, oldest first, which is what
the listing walks. A handler is one step, as no other request changes what it reads
between its awaits but turns, and those write one checkpoint per step. A turn appends to
the messages it began with, so two turns of a thread (through `Resume` or `Chat`)
overwrite each other's count as the graph does. `ListThreads` is the loop of the code, a
fold with a set of seen threads, a filter and an early exit. `Newest` is the order in
which the savers of Postgres and Redis list the checkpoints of all threads;
`InMemorySaver` lists them thread by thread, so that of it `ListingFaithful` says nothing.
Reading metadata makes it, in the model too. `returned` remembers the ids a client was
told, which with its own `Label`s and the ids without their prefix are the ids it may
send.

### KnowledgeBase and Service

`KnowledgeBase` has `load_kb_into_redis` (fetch every source, read the old manifest, one
transaction) and `search_knowledge_base` (a snapshot read in two commands and kept), one
action per await. `Service` composes it with the life of a server: `at[p]` is where
`lifespan` and `build_agent_async` are, `open[p]` what they hold, `failed[p]` what has
raised. Every step that can raise has an action that does, and `Exit` is a crash at any
point as well as the end of the process. `overlapped` observes whether a transaction
replaced a corpus that was not the one its load had read.

### Tools, Plugins, AgentTurn

`Tools` is a function per tool from the state of the services it calls to its answer:
the backend the answer names, the one it is from, whether it holds something a model
takes for a result, and whether the tool raised. A reply that cannot be read is a state of
a service of its own: `fetch_issue` and `create_pr` read it outside the `try` that
answers for an outage, `internet_search` and `fetch_url` after it, and `search_codebase`
and `run_tests` meet it in text that is none, so they raise. `SearchKnowledgeBase` answers
from RediSearch or from the snapshot the process has kept, goes to the web when neither has
a hit, and raises while there is no snapshot and Redis cannot be read.

`Plugins` is the reading of `ossia.json` and the discovery of plugins: `Explicit` and
`Discover` are its two loops, each a fold whose step is `Admit`. `PluginsAsDeclared` is the
reference they are compared with, stated without the order in which the code loads. A file
is one that can be read and whose paths are strings; otherwise `load_config` raises and
there is no agent at all.

`AgentTurn` composes both. `Layers` is the order `agent.py` builds, `Passed` those a call
gets to; with eager tools it ends there, because that layer streams from the model itself.
`CallModel`, `Seal`, `TransientFailure`, `FatalFailure` and `EndStream` are the call and
its stream: a call of a tool is complete when it is sealed, and dispatched at once if eager
tools covers it. The rest of the round is `Review`, then for each call `RunTool` (a result
eager tools has, or a run that ends), `RaiseTool` (an attempt that raises, `tries` of which
are counted against `Attempts(t)`, `retry_max_attempts` for the tools `RetryToolMiddleware`
names and one for all others) or `Withhold` (a cap or an open circuit answers instead).
`flags` are the settings and `entries` the document found, both chosen freely at the start;
`mem0` and `kb` are what the process has of the memory and of the knowledge base.

## 3. What the runs show

| Run | Instance | What it shows |
|---|---|---|
| `tool_call_stack` | 2 runs, 2 concurrent calls, one tool that is retried, has a circuit and is dispatched eagerly, and one that is graded; threshold 2, 2 attempts, limit 3, one grade, 2 calls per run | types; circuit and count agree; a failed probe re-opens; every run keeps its budgets but for the resets of others; an exclusive run inherits no failure |
| `hard_cap` | the same with a limit of 1 | **violated**: eager tools runs more than the limit |
| `stream_projector` | 3 channels, a queue of 2, 4 items per channel | the flow, sentinel and read-ahead invariants; refinement of `TurnFeed`; a read turn finishes; relays settle |
| `thread_events` | 2 turns at a time, 4 in all, up to 2 items, 2 deletes, a buffer of 3 | replay is recent history, in whole turns; a quiet delete is final |
| `deleted_thread` | the same | **violated**: a turn in flight brings a deleted thread back |
| `memory_seed` | 3 overlapping calls | only the first wave can replace an edit; no call waits for the lock |
| `mcp_toolkit` | 2 servers, any number of cancellations | a failed worker resolves its future; no late session beside a built agent; none survives an exit; boot and shutdown end |
| `webhooks` | 2 webhooks, 2 events, 2 attempts, restarts | attempts are bounded; a removed webhook gets no later event; a failure stays in its event; deliveries end |
| `threads` | 2 callers and a client of `/agui`, 1 turn at a time, 4 checkpoints, windows of 2 and 1, one entry of metadata | listings are what the checkpoints say; returned ids come back; callers stay apart |
| `service` | 2 servers, 2 sources with 2 documents, one search each | the manifest names stored documents; resources nest on every path |
| `agent_turn` | 6 tools, up to 2 asked for at once, 3 plugin files, 4 documents, 2 attempts of the model and 3 of a tool, 2 rounds, all settings | provider calls are right; effects are held back and plugins are those declared; answers are honest |
| `caller_in_prompt` | the same | **violated**: with eager tools no prompt has the caller |

**The three violations.** `ToolCallLimitMiddleware` documents a hard cap on the tool calls
of a run; what eager tools runs inside the call of the model passes no cap (nor a circuit,
nor a retry), so that a run that has the thread to itself exceeds it in the default
configuration. `delete_thread` documents that the thread is not listed any more; a turn in
flight writes its next checkpoint. `_compile_agent` appends the layer that names the caller
behind the eager dispatch, which never asks it. The properties that hold say how far each
promise does go: what passes the caps stays within them, and a delete that no turn
overlapped is final.

**What else differs from the documents**, and is stated in the properties as the code has
it. `ChatRequest` and the docstrings of `chat` and `chat_stream` let `session_topic` take
precedence over `thread_id`; `resolve_thread_id` looks at the thread first and at the
topic only when there is none (`HandlesComeBack` speaks of requests without a topic).
`seed_memory` documents that an agent's edits are never overwritten, and that the lock
collapses concurrent writers to one; two first requests of a caller may both find the file
absent, as the lock keeps neither out, and the later `aput` undoes what was edited between
(`OnlyFirstWaveWrites`: only such a call does). A turn of `/agui` may write a thread of
any caller (`CallersApart` is about the requests of `/v1`). Two runs of a thread share one
count and set it back under each other (`RunStaysInBudget`). ADR-0013 promises one probe
while a circuit is half open; every call that comes in the meantime is let through
(`FailedProbeReopens` says what keeps it sound). A store that fails to open or to close
keeps the MCP sessions open, and a failed boot the Redis clients (`ResourcesNest`). An
exception that is no `HTTPError` stops the retries of the other receivers of its event
(`FailureStaysInEvent`). A chat endpoint takes an id with the caller's prefix as it
stands, a thread endpoint prefixes it again (`HandlesComeBack`). `get_thread` looks at 50
checkpoints and the listing at 200, so a listed thread may read as empty
(`ListingFaithful`). `add_memory` and the tools of plugins have no `idempotent` attribute
and count as safe to dispatch early and again, where `middleware_adapters.py` says "False
for write tools" (`EffectsHeldBack`). A plugin may bring a tool that takes the name of a
reviewed one that is on no deny list, `write_file`; it is then dispatched before anybody
has reviewed it (`EffectsHeldBack`, first conjunct). Two loads that overlap leave
documents in Redis that no manifest lists (`CorpusWhole`). An error text stands in place
of a page or an issue, and a browser run cut off by its step limit counts as a success
(`AnswersHonest`). A plugin that is a package has the stem `__init__`, so a configuration
by name does not reach it, and an `ossia.json` that is not valid hides the next one; the
module of a plugin that is switched off is executed before its name is known (`Plugins`).

**Bounds.** `MaxFailures`, `MaxResets`, `MaxIssued`, `MaxItems`, `MaxTurns` and
`MaxLength` bound the instances and nothing else. Two runs and two calls are what it takes
for one to change what another holds; two calls of two attempts exceed a limit of three,
and a graded one a limit of one; one reset tells a budget that is renewed from one that is
not kept; three failures pass a threshold of two, so that a failed probe counts beyond it.
A queue smaller than the number of channels makes relays wait for each other with
sentinels in their hands; with four items a channel has more of them than the queue holds,
so that a missing bound shows. Four turns of up to three events overflow a buffer of three
more than once and cut a turn in the middle. Three calls are one holder of the lock, one
whose lock was taken over, and one beside both. Two servers are one that is held and one
that is not, and two teardowns that a cancellation finds in different places; `McpToolkit`
has no counter to bound. Two webhooks are one that raises and one that backs off; two
events tell a failure that stays in its event from one that does not, and the attempts of
one restart from those of another.

`MaxCheckpoints`, `MaxMessages`, `MaxMinted`, `MaxMeta`, `MaxParts`, `MaxTold`, `MaxAsked`
and `MaxRounds` bound instances, too. Four checkpoints with a window of two let a thread
fall out of the listing, and out of the window of one before; two callers
and a label that begins with the name of one of them are what it takes for an id to point
elsewhere. Two servers are one that loads while the other loads, searches, stops or
crashes; two sources of which one has the other's page are a document in two loads and
one in a single one. Two attempts with a fallback are four provider calls, each after
every possible one before; three attempts of a tool beside them tell what the tool step
repeats from what a stream does. The tools are two that are reviewed, one of which is among
the retried ones and one of which may raise when its work is done; one that is retried and
raises; one that writes and is not on the deny list; one of a plugin; and the delegation,
which runs any tool of a subagent. Two calls in one answer are one that ends while the
other is still to run; two rounds show that a round starts afresh and that the memory and
the snapshot do not. The plugin files are a package, a broken
file and one of the package's name, and the documents one that is absent, an invalid one
before a valid one, one that names a file by its path, and one that also disables it.
Proofs do not
depend on any of these. Symmetry is used only in runs without liveness.

**Fairness.** `StreamProjector`: a task that can put does so and the generator goes on
(asyncio runs what is ready); a projection ends, because a turn has a recursion limit
and its model and tool calls have timeouts; a client reads or hangs up. Nothing is
assumed of how often items come. `MemorySeed`: a command that has been issued is carried
out, as Redis and store clients answer or raise; nothing is assumed of the lock's
expiry, and calls are not obliged to begin. `McpToolkit`: ready tasks run, the connect
timeout and the grace period fire, and closing a session ends, because the requests of
its client have timeouts; nothing is assumed of a server's answer to a connect, nor of
the transport of a parked worker. `Webhooks`: tasks that are ready run, a backoff ends,
and a request ends within its timeout of ten seconds, one way or another; nobody
registers, removes or stores by fairness. The other specifications have no fairness
and no liveness property. Deadlock is checked everywhere but in `StreamProjector`,
`McpToolkit`, `Service` and `AgentTurn`, whose turns and builds end, and whose servers
may refuse to start.

## 4. What is proved

All theorems hold for every value of the constants under the `ASSUME` of the module,
which TLC evaluates on the instances.

| Theorem | Says |
|---|---|
| `ToolCallStackProofs!TypeCorrect` | `[]TypeOK`, with: a call in flight belongs to an active run and, backing off, has an attempt left |
| `!CircuitCorrect`, `!FailedProbe` | a circuit is closed iff its count is below the threshold; a failed probe re-opens |
| `!BudgetCorrect` | the caps let through at most the limit of any run, and as much again for each reset under it; eager runs are not counted |
| `!OwnFailures` | an exclusive run sees its own failures only |
| `StreamProjectorProofs!TypeCorrect`, `!FlowCorrect`, `!SentinelsCorrect`, `!ReadAheadBounded` | the invariants of the queue |
| `!ProjectorImplementsFeed` | `Spec => Feed!Spec` |
| `ThreadEventsProofs!TypeCorrect`, `!QuietDeleteCorrect` | types; a quiet delete is final |
| `!ReplayCorrect`, `!WholeTurnsCorrect` | a replay is the newest part of the history, in whole turns but for the oldest's start |
| `ThreadsProofs!TypeCorrect`, `!HandlesCorrect` | types; an id that was returned leads a request without a topic to its thread |
| `!IsolationCorrect` | no request of `/v1` writes, describes, deletes or tells of a thread of another caller, beside any turns of `/agui` |
| `!ListingCorrect` | a listing is the newest threads of the caller, in order, each once, with what describes it |
| `WebhooksProofs!TypeCorrect`, `!AttemptsCorrect` | types; attempts are bounded, what counts as delivered was received |
| `!DeletedCorrect`, `!FailureLocal` | a removed webhook gets no later event; a failure stays in its event |
| `ServiceProofs!TypeCorrect`, `!CorpusCorrect` | types; the manifest lists only what is stored, and only overlapping loads leave more |
| `!NestingCorrect` | what a server holds, wherever it is and whatever failed |
| `!SeedTypeCorrect`, `!OnlyFirstWave` | (`SeedSpec`) types; only a call older than the file replaces an edit |
| `!ToolkitTypeCorrect`, `!ReadyCorrect` | (`ToolkitSpec`) types; a worker that fails is never waited for |
| `!NoStray`, `!SessionsEnd` | (`ToolkitSpec`) a built agent has no stray session; an exit leaves none, or has told all to stop |
| `AgentTurnProofs!TypeCorrect`, `!CallsCorrect` | types; the models in turn, within the limit, the tools bound once |
| `!EffectsCorrect` | what tools do waits for its turn and for approval, and is done as often as stated, with all retries of the model and of the tools |
| `!PluginsCorrect` | the plugins loaded are those the document and the files declare |
| `!AnswersCorrect` | every answer is of a tool that ran, or raised in its last attempt, and names its source, in every state of the services |

All invariants and all action properties that the passing runs check are theorems, and so
is the refinement of `TurnFeed`, which is a safety property. What is assumed of the
constants is what the code gives: bounds are numbers, callers and the ids they may make up
are made of words without colons (`NamesAssumption`), a file has one path, and the lists
read from disk are finite (`FilesAssumption`).

**The arguments.** *Circuit*: "closed iff below the threshold" is inductive by itself once
types are known: a probe keeps the count, a success clears both, a failure compares the
new count. The action property follows, because a half-open circuit is at the threshold
already. *Budget*: what a run has executed is not bounded by the limit in every state
unless the shared count is tied to it, and other runs set that count back. So `Covers`
says: it is at most the limit as often as the run began or was set back; while the run is
working, it is at most the shared count and the limit for each time it was set back;
before it has reset the count itself, it is nothing. A reset by another takes the count
away and adds one to the factor, after which the first of these bounds is enough for the
second. The grades are the same with a count of their own. An eager run touches neither
side. *Own failures*: while an exclusive run is live, the failures of each circuit are at
most those it has recorded, since its start popped the entries and calls of earlier runs
are no longer attached. *Flow*: per channel, the queue holds exactly the numbers between
the last yielded and the last put, increasing, the sentinel behind them. *Sentinels*
counts the channels that are done and not announced in the queue. *Read-ahead* needs Flow:
the queued numbers of a channel are pairwise different positions of a queue that is never
longer than its bound. *Feed*: each action is a step of the feed or a stutter; that
`complete` finds every channel drained follows from Sentinels (all are counted, so none
has anything unread) and Flow (nothing unread means all was yielded). *Quiet delete*:
while a delete that found no live turn is open, and after it was answered, no turn is
live, so nothing can write. *Replay*: the invariant is that the buffer is the history cut
once. It is kept because cutting twice is cutting once (`TrimmedTwice`: the newest part of
what was cut and extended is that of what was only extended, for any limit from one on).
*Whole turns*: the history is whole, since batches are and one is appended at a time; a
cut from the front removes no successor, so that wholeness passes to the buffer and only
the oldest turn can miss its start. *First wave*: a call that began late never reaches its
`aput`, because the file is never removed. *Toolkit*: the invariant says what each place
of the parent implies for the workers: none is started before connecting, none is held or
being torn down then, every teardown that is done either found its worker ended or was cut
short by a cancellation that had set its shutdown event, and after an exit the workers not
held had ended at the entry, before which nothing starts them again. *Webhooks*: a
receiver has been posted at most as often as the attempt under way, one less while that
attempt is open, and an attempt that backs off is not the last; a webhook that was removed
is never registered again, so it is in no later snapshot; a client that is closed under a
delivery has a delivery that raised beside it. *Corpus*: the property is inductive by
itself, since a step of a server is one step of the knowledge base or none, and only the
transaction changes what is stored. *Nesting*: `ResourcesNest` says nothing of the places
between start and end, so the invariant says for each place what must be open and what may
be: nothing before the checkpointer, the checkpointer from then to the end, the store
while the agent is compiled and serves, and for the toolkit and the clients the places
from which their close is still ahead, or the failure that skipped it. *Provider calls*:
the number of calls a round has made is a function of the attempt and of the model in the
request (twice the finished attempts, and one more once the primary has failed), so the
next call is the fallback's exactly when its number is even, and the limit on attempts is
one on calls. The request the retrying layers keep is never bound; that the binding layer
is passed, whichever optional layers stand around it, is `PassesForce`, an argument about
the place of one element in a concatenation.

*Loops*: `FoldLeft` is a recursion over sets of positions that exists only by `CHOOSE`,
and the library's induction theorems take an operator as parameter. `FoldProofs` does
without: induction is stated for a set of numbers (`NatSet`, from the well-foundedness of
`<`), a solution of the recursion is shown to exist on every prefix (`IterExists`), and
whatever solves it runs through a trace, the values of the accumulator in order
(`FoldTrace`). A loop then has one lemma that gives its trace (`OfTrace`, `ScanTrace`,
`ExplicitLoads`, `DiscoverLoads`), and its loop invariant is proved over the trace with
`NatSet`.

*Callers apart*: every id a request ends up with is its caller's own, because `Route` and
`Resolve` put the prefix there or find it (`RouteOwned`, `ResolveOwned`), whatever id was
sent. `OwnInv` adds that callers were told ids of their own only (the ids they send next
are made of those) and that a running turn writes to a thread somebody was told of. Then a
step of one caller leaves the checkpoints and the metadata of the others' threads as they
are. *Handles*: stripping the prefix and adding it is the identity on a caller's own ids
(`StripRoute`). *Listing*: `ScanInv` says of the loop after i checkpoints that it has seen
and listed only threads of the caller at most i old, in the order of age and with what the
newest checkpoint says, that with room left it has seen them all, and that each of those
due is listed, hidden, or older than a full listing.

*Plugins*: both loops keep `Sound`: of each name at most one candidate, which loads and is
not disabled. `AdmitDoes` says which name one step adds; after the first loop every usable
name an entry points to is there with a configuration of such an entry, which the second
loop cannot displace; after the second, every other scanned name is. *Effects*: `Ran`
bounds how often a tool has run by the phase of the round: `Early`, once for each call of
a provider that has streamed it, if it is dispatched eagerly at all (one less while the
open stream has not asked for it), and beside that the attempts of the tool step, of which
`tries` have raised; a call that is still in the response has one attempt left. A tool
that is not dispatched eagerly has therefore run after the stream only. *Answers*:
`ToolFine` and `KbFine` go through every tool and all states of its services, `AnswerNow`
and `Outcome` through what the process has of the memory and of the knowledge base, and
`NewAnswer` puts this together with `Ran` for the run that gives the answer. `MemoryInv`
keeps it, as a memory that was built and a snapshot that was read stay, and a call whose
answer is under way is in no later step.

## 5. What is only model-checked, and the limits of the models

- The liveness properties `TurnFinishes`, `RelaysSettle`, `SeedingEnds`,
  `ToolkitSettles` and `DeliveriesEnd`: the prover does neither fairness nor `ENABLED`.
- That the operators of the models do what the source does is compared by reading; what
  TLC adds is that each property notices a faulty form of them.
- The three violated properties, which are refuted on their instances.
- The caps are stated for the calls that pass them. With eager tools a run has no limit on
  the others, as `hard_cap` shows; nor is one known to the code.
- Who may send what to `/agui` is not a subject of the models: `AguiRun` takes any id of
  `AguiId`, and `CallersApart` says nothing of the threads its turns write. Its other
  traffic, the events of the protocol, is the library's.
- `ListingFaithful` is about checkpointers that list all threads from the newest checkpoint
  on, as a comment of `list_threads` has it; `InMemorySaver` does not.
- `Resume` continues a parked run. `thread_resume` does not check that a thread is
  parked; what the graph does otherwise is the library's.
- The layers are taken as nested in the order of `agent.py`; layers that are switched
  off by configuration are not.
- A tool call on a session that is being torn down is the library's; `McpToolkit` has
  the sessions, not the calls through them.
- The backoff of a webhook is a state without a length; 1 and 2 seconds are not told
  apart.
- `Threads` has one server; a second one has metadata of its own and the same
  checkpoints, as after a restart. A turn is a sequence of checkpoints; what it says is
  left out, and so is the ranking of a search and the text of a document.
- `Tools` has each tool's answer as a function of the state of its services; that a
  service changes between two requests of one tool is left out. `grade_response` asks
  for 0.67 of three checks, so that two of three do not pass; no document says which is
  meant. `propose_fix` is bound to no agent.
- A delegation is a call of one tool of a subagent, outside the layers around tool calls;
  the subagent's own turns are those of `AgentTurn` without the layers, and how often they
  run a tool is not counted.
- What a plugin's module does when it is imported is not modelled, nor what its tools
  answer; an `ossia.json` that cannot be read ends the build.
- **Not modelled**: `cached_fetch` has no caller; request context, metrics and logs
  are written and not read back; `audit.py` and `eval.py` are pure functions of text;
  `config.py` is defaults and validators; the orchestrators' scripts are text for the
  model; the command line and the web interface are input and output; the terminal
  interface is planned.
- One process: the second process of a deployment would have circuits, counts and
  events of its own. `MemorySeed` is the exception, its calls may be of any process.

## 6. Plan

In the order of the work, most important first. Each module is written without
`RECURSIVE` and gets a proof module when its argument is worth one.

`Threads`, `KnowledgeBase` with `Service`, and `AgentTurn` with `Tools` and `Plugins` are
done, and every safety property of a passing run is proved. What is left:

1. An abstract specification of the replay (a history, of which a client is shown the
   newest part) that `ThreadEvents` implements, with the refinement proved from `Stored`.
2. One of a caller's threads alone, which `Threads` implements for each caller: what
   `CallersApart` says of single steps, as a refinement.
3. `TuiSession`: the reducer and the session read late.
4. `Deliveries`: `Webhooks` composed with `ThreadEvents!store`, an event per stored item
   and a task per event; abstract specification: per receiver and event, at most the
   attempts, and nothing of a turn that was not stored.
