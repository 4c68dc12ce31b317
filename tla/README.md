# OpenStarry: a verification development

OpenStarry is a headless agent platform in TypeScript.  An *agent* is a core
(`packages/core`) that pulls input events from a queue, calls a language model,
runs the tools the model asks for and records the conversation of each session.
Each agent usually lives in a *daemon* of its own (`apps/runner/src/daemon`): a
process with an IPC server, which saves sessions, spawns and supervises child
daemons and carries messages between agents.

This directory holds TLA+ specifications of the parts where the order of events
decides whether the program is right, TLC instances that check them, and TLAPS
proofs.  Everything is translated from the code; the paths below are relative to
the repository, and `PROJECT.json` maps each definition to the lines it stands
for.

    tlc -workers 2 -config MCComm.cfg MCCommDaemons    # one run
    tlapm CommDaemonsProofs.tla                        # one proof module

## 1. The system

JavaScript runs one function at a time, up to its next `await`.  Inside one
process the hard behaviours are therefore those that span an await: what was read
before it may be stale after it, and continuations, timers and events come in any
order.  Between daemons there are messages that are lost, refused, answered late
or presented twice, processes that crash, and clocks that are set back.

| Component | State | Operations | Where it is hard | What makes it correct | Status |
|---|---|---|---|---|---|
| Event queue, `core/execution/queue.ts` | array of events, one waiting resolver | push, pull, clear | a push meets a pending pull; the resolved promise continues in a later microtask | FIFO, nothing lost, no lost wake-up | modelled, proved |
| Safety monitor, `core/security/safety-monitor.ts` | ticks, tokens, failures in a row, last fingerprints, error window | onLoopStart, onLoopTick, beforeLLMCall, trackTokenUsage, afterToolExecution, reset | three sliding summaries trimmed by different branches; the order of the tests | the summaries are those of the whole log; verdicts follow from it | modelled, proved |
| Execution loop, `core/execution/loop.ts` | `running`, state, safety monitor; per turn: round, calls, results, error flag | start, stop, processEvent, waitForConfirmation | fifteen awaits in a turn, at each of which input, reset, answers, session destruction and stop may come | lockout stops work; only confirmed tools run; turns end and are reported | modelled, proved |
| Sessions, `core/session`, `core/state` | table of sessions, one history each | create, destroy, getStateManager, addMessage, clear, snapshot, restore | a turn keeps a reference to a session that may be destroyed | a turn's messages go to one history, the one it was sent to | partly, proved |
| Agent core, `core/agents/agent-core.ts`, `command-registry.ts` | wiring, commands, listeners, plugins | pushInput, reset, start, stop, loadPlugins | reset in the middle of a turn; commands beside a turn | a reset leaves no counter of the previous run; an input ends once | partly, proved |
| Registries and plugin loading, `core/infrastructure` | registries, loaded plugins | sort, load, skip, dispose | partial failure, services with several providers, dispose against stop | least order; nothing loaded without what it names; disposed at rest | partly, proved |
| Mano, vijnana, vedana | forced gear, thresholds, emergency, watchdog | route, tick, force | counters that some routes skip, clamps in a row | a stalled gear is left; the emergency is exact | partly, proved |
| Plugin sandbox, `core/sandbox` | workers, pool, pending RPC, restart counts, subscriptions | load, invoke, restart, shutdown, acquire, release, subscribe, request | restart backoff against shutdown; timed-out RPC; pool at its limit; events for a worker lent again | a worker has one owner and one plugin's code; events and answers find theirs; restarts are bounded | partly, proved |
| Sandbox audit log, `audit-logger.ts`; audit trail, `audit-trail-writer.ts` | buffer, stream, sizes; last hash | log, flush, rotate, dispose; write, rotate, verify | flushes that overlap a rotation; failed renames and restarts | no entry lost but by rotation; each file verifies | modelled, proved |
| Inter-agent messaging, `message-router.ts`, comm functions of `daemon-entry.ts`, `comm-transport.ts` | replay cache, inbox, pending requests | send, reply, broadcast, request, pipeline, deliver | duplicates, the clock, replies against timeouts and failures, crash | accepted once; a request ends, with the reply of its target or an error | partly, proved |
| Session persistence, `session-persistence.ts` | per session: timer and count; files on disk | save (debounced), saveNow, load, delete, cleanupExpired, flushAll | timers against completions, three files per save, shared temporary files, exit | the newest snapshot survives; the index names what is on disk | partly, proved |
| Process tree, spawning and supervision in `daemon-entry.ts`, `spawn-validator.ts`, `supervisor.ts`, `generation-counter.ts` | registry, watched children, numbers | spawn, tick, restart, cascade, next | check, await, then act; the cascade against spawns and restarts | the registry is a tree; nothing is left behind; a crashed child comes back or is given up; numbers are not given twice | partly, proved |
| Daemon process, `launcher.ts`, `pid-manager.ts`, `daemon-start`, `daemon-stop` | pid file, socket, processes | start, attach, stop, boot, exit | files that change between a look and its use | one daemon is found | partly, proved |
| Daemon IPC, `ipc-server.ts`, `ipc-client.ts`, `event-forwarder.ts`, `attach.ts` | clients, subscriptions, slow-client timers | attach, detach, forward, disconnect | replay against live messages; backpressure | no gap in what a client is shown; the gone are forgotten | partly, proved |
| Cluster events and services, `event-bridge.ts`, `global-service-registry.ts` | subscriptions, registrations | subscribe, publish, register, find, deregister | calls that overtake each other or are lost | an event arrives once; who left is forgotten | modelled, proved |
| Channel application, `apps/channel`; `composite-channel.ts`, `channel-ipc.ts` | registry under a lock, status of children, a forked process | register, send, events of the daemon; connect, send; start, terminate | waiters of the lock, overlapping registrations, partial failure | the lock serves all, events apply in order, a status is true | partly, proved |
| Rate limits of the daemon and of the channel | stamps, buckets | check, refill | the boundary of a window | exact over any window | modelled, proved |
| Foreground runner, `start.ts`, `snapshot-store.ts`, journals | checkpoint, key, buffers | boot, resume, log, observe, shutdown | a failure or kill at every step of the shutdown | what an orderly exit had is there for the next run | partly, proved |
| Plugin installation, `plugin-installer.ts`, `plugin-lock.ts`, `plugin-resolver.ts` | directories, lock file, resolver's cache | install, uninstall, sync, resolve | commands that are cut off | the lock tells the truth of what was not cut off | partly, proved |
| Configuration, `config-merger.ts`, `permission-validator.ts` and others | configuration of one start | detect, check, merge, validate, default | absent, empty and nested lists | a project only restricts | partly, proved |
| File lock and secure store, `shared/security` | mutex, lock file, file | lock, judge, unlink, store | stale locks, dead holders, tasks of one process | updates are sequential unless a holder was robbed | partly, proved |
| Event bus, transport, import analysis, signatures, SDK, other commands | | | | | section 7 |

*Proved* means that the safety properties stated of what is modelled have proofs
(section 5), *partly* that not every operation that changes state is an action
(`PROJECT.json` says which).

How they interact.  Listeners and the daemon call `pushInput`, which pushes an
event; the loop is the queue's only consumer.  The loop calls the monitor before a
turn, a round and an LLM call and after each tool, and writes to the state manager
it obtained from the session table at the beginning of the turn.  Slash commands do not
go through the loop: their handlers run beside it.  `AgentCore.reset`
publishes `STATE_RESET`, which the loop and the monitor's owner hear.  A daemon's
messaging calls the transport, which calls `comm.deliver` of the receiving daemon;
a delivered message wakes that agent's loop through `pushInput` unless it is the
reply to a request that still waits.  A daemon spawns its children through the launcher,
keeps an entry and, if asked, a supervision record for each, and ends them with itself.
Clients of a daemon attach to a session over its socket and get what the event
forwarder writes for it.

## 2. The modules

| Module | Models | How state and actions correspond to the code |
|---|---|---|
| `EventQueue` | `queue.ts` | `buffer` and `resolver` are the closure's variables; `handed` is a resolved promise whose continuation has not run.  `Enqueue`, `Dequeue`, `Discard` are push, pull, clear. |
| `EventQueueClient` | the queue with producers and its consumer | adds the consumer's two steps and the history of what was accepted and received |
| `SafetyMonitor` | `safety-monitor.ts` | the five counters as a record; operators for the hooks, and `Verdict` for the three tests of afterToolExecution in their order |
| `SafetyMonitorHistory` | the monitor alone | drives it with any outcomes and keeps the whole log beside it |
| `ExecutionLoop` | `loop.ts` with the queue, the monitor, `session/manager.ts`, and reset, start, stop and pushInput of `agent-core.ts` | `pc` names the await the loop is suspended at; an action is the code up to the next await.  The environment pushes, resets, stops, creates and destroys sessions and answers prompts between any two of them. |
| `LoopLifecycle` | the state machine drawn at the head of `loop.ts` | abstract specification; `ExecutionLoop` implements it under `Phase` and `round` |
| `MessageRouter` | `message-router.ts` | pure operators: outbound and inbound checks, the replay cache |
| `CommDaemons` | the comm functions of `daemon-entry.ts` over `comm-transport.ts` | one router, inbox and set of pending requests per daemon; `call[i]` is the RPC that carries message i.  `commDeliver` has no await and is one action. |
| `SessionPersistence` | `session-persistence.ts` with its callers in `daemon-entry.ts`: input, hourly cleanup, shutdown | a save or a deletion under way is a job, one step per file operation it awaits; `count` and `timer` are the two maps, `armed` the timers of Node, `tmp` and `final` the files |
| `Sandbox` | `sandbox-manager.ts`, `worker-pool.ts`, `plugin-worker-runner.ts`, with `loadAll` and `disposeAll` of `plugin-loader.ts` | `st` holds the states loads have made, `reg` is the map `workers`, `idle` and `busy` are the pool's; `rpcs` are pending requests, `closings` suspended calls of shutdownPlugin; `inbox` and `doing` are the messages a worker has not begun and has not ended |
| `SandboxBus` | `plugin-context-proxy.ts`, `rpc-handler.ts`, the dispatch of `sandbox-manager.ts` | `subscriptions` on the main side, `busHandlers` on the worker's; `toMain` and `toWorker` are the two ports, in order |
| `SlashCommands` | `pushInput` of `agent-core.ts`, `command-registry.ts` | `inputs` is the history of what was typed and how it ended; a handler's answer, refusal and absence are actions of their own |
| `PluginLoading` | `plugin-loader.ts`, the wiring, `start` and `stop` of `agent-core.ts` | `KahnStart` and `KahnStep` are the head and the body of the sort's loop and `KahnAfter` its passes, a recursive function; `at` is the hook that runs |
| `AuditLog`, `AuditTrail` | `audit-logger.ts`; `audit-trail-writer.ts`, `audit-chain-verifier.ts` | `flushes` are the suspended flushes with their entries and stream; the trail's files are sequences of (entry, hash of the one before) |
| `GearRouting` | `mano-aggregator.ts`, `vedana-emergency.ts`, `vitakka-watchdog.ts` and the gear handler of `agent-core.ts` | a route asks arbiter after arbiter; `Adjusted`, `Eased` and `Within` are the clamps in their order |
| `ChildDaemons` | `handleSpawnChild`, the supervisor and the cascade of `daemon-entry.ts`, with `spawn-validator.ts`, `supervisor.ts` | `registry` and `watched` are the two maps in their insertion order, `calls` the spawns suspended in the launcher, `phase` the shutdown |
| `GenerationCounter` | `generation-counter.ts` | `cache` per parent, `files` per stem of its file's name |
| `DaemonProcesses` | `launcher.ts`, `pid-manager.ts`, `daemon-start.ts`, `daemon-stop.ts`, boot and exit of `daemon-entry.ts` | `commands` are the commands under way with the pid they read; a daemon's stage says which of its files it has written or removed |
| `AttachedClients` | `ipc-server.ts`, `ipc-client.ts`, `event-forwarder.ts`, attach and detach of `daemon-entry.ts`, `attach.ts` | `out` is what is written to a socket and not read; a client reads any number of messages at once, and its awaited answer continues after them |
| `ClusterEvents` | `event-bridge.ts`, `global-service-registry.ts` and the calls that carry them | one bridge and one registry per daemon, the registry as the set of its registrations; `wire` is a set, so calls overtake one another |
| `ChannelHub` | `registry.ts` with its read-write lock, `registry-bridge.ts`, the tools register, send, broadcast | `ops` are the operations under way and the section each waits for, `waitQueue` those the lock will serve |
| `CompositeChannel`, `ChannelIpc` | `composite-channel.ts`, `pipeline-channel.ts`; `channel-ipc.ts` | one call of connect or disconnect waits for its children; a forked process says READY once |
| `RateLimits` | both `rate-limiter.ts` | `stamps` and `buckets` beside the history of every accepted message and its time |
| `ForegroundRunner` | `start.ts`, `snapshot-store.ts`, `snapshot-hmac.ts`, the journals and their shutdown | `stage` is the step of the boot or shutdown; a kill may come at any of them |
| `PluginInstall` | installer, lock, resolver, and the three commands | `dirs` are the plugin directories with what of them is there, `cmd` the command under way |
| `ProjectConfig` | detector, permission validator, merger, config validator, in the order of `start.ts` | `step` is the stage of one start over any system and project configuration |
| `FileLocks` | `file-lock.ts`, `secure-store.ts` | `locks` is the mutex in each process, `lockFile` the lock on disk, `updates` the operations |
| `CoreParts`, `RunnerParts`, `ChannelParts` | sums of components that share no state | `part` (`link`) is the component that moves; every variable of the others keeps its initial value, so the states are those of the components one beside the other and not multiplied.  A property is that of each part it names.  Each states what its components' theorems ask of the constants. |
| `MCRunnerParts` | `RunnerParts` and `ChannelParts` together, for one run | `side` is the one that moves |
| other `MC*` | instances for TLC | |
| `ExecutionLoopProofs`, `CommDaemonsProofs`, `SessionPersistenceProofs`, `ChildDaemonsProofs`, `SandboxProofs` | theorems of one module each | |
| `CoreProofs`, `RunnerProofs`, `ChannelProofs` | theorems of the components of a sum, one after another, and of the sum | the components' variables have the sum's names there, so a proof is about the instance the run explores |

Both the loop and the queue's client use `EventQueue`'s operators, and the loop and
the stand-alone monitor `SafetyMonitor`'s, so what is shown of the parts is about
the same definitions.

What the loop's model abstracts.  Message contents, tool names and arguments are
left out: a tool call is its round and position, a message is its turn, role and
the ids it carries.  The provider's stream, the gate, the volition and the router
are nondeterministic outcomes.  Consecutive awaits with no state change between
them are one suspension point, which loses no interleaving: what may happen at the
second may happen at the first.  The error path of the provider keeps nothing of a
response, as in the code.

What the messaging's model abstracts.  A message is numbered in the order of its
creation, for its random id.  A sender is the agent its daemon vouches for: the
signature check is assumed to accept what was signed and nothing else.  Any
message may name any earlier message as its `correlationId`, and any message may be
presented to its receiver again after its call ended.

What the persistence's model abstracts.  A snapshot is the number of the `save()`
that took it; a later one is longer, as histories grow.  A file holds nothing, a
whole text or pieces of two, which is what a reader that parses it can tell apart.
`writeFile` truncates when it opens and writes later, and an open descriptor follows
a file that is renamed; those steps are Node's and the kernel's, and are what makes
two saves of one session dangerous.  The history variables `overlapped` and `crowded`
say where the code promises nothing.

What the sandbox's model abstracts.  A worker is a thread: it may stall, crash or
exit at any time, and takes its messages in order but ends them in any, as its handlers
are asynchronous.  A heartbeat that stops is a crash at any later time.  One call
stands for all that a plugin's tools are asked.  A plugin's checks before its load
may refuse it.  The histories `streak` and `diedUnloaded` say how often a plugin has
crashed in a row and whether it did so while it was loaded, `unreset` which workers were
released without an acknowledgement, and `stragglers` what the disposal cannot know of.

What the other models abstract.  A message, a session's history, an audit entry or a
configuration's tool is a number or a name; framing, JSON and schemas are reduced to
whether they are accepted.  A child process is alive or not and serves or not; a pid is
never given to a second process.  A socket delivers in order what was written before it
closed, except where a call may fail.  A file system operation of the runner either
happens or fails, and a kill may come between any two.  A request of a plugin stands for
all of them, as the main side answers each by its own id.  The handlers of commands and
of plugin hooks are nondeterministic in what they answer and in whether they throw.
A gear's confidence and its thresholds keep the code's numbers, in hundredths.

Some modules hold *faulty forms* of a definition next to it, named for the mistake
(`DequeueNewest`, `AnyNonceHeard`, `AckedForgets`).  No specification uses them.
A mutation run puts one in the place of the definition it is a form of, and TLC then
finds a property broken: the evidence that the property depends on what the code does
there.  `PROJECT.json` names one for each property of a run; the others break further
parts of the same properties.

## 3. The runs

| Run | Instance | What it shows |
|---|---|---|
| `core_parts` | `CoreParts` | the queue: FIFO, no lost wake-up, a consumer is stranded only by `clear()`, and of inputs and commands each ends once (`InputsArrive`); the monitor against its whole log (`EvidenceHalts`); workers, restarts and calls of two pooled plugins (`PluginsKeepWorkers`); events and requests of two plugins that own a worker one after the other (`PluginsHearTheirs`); order, refusals, skips and disposal of plugins (`LoadingIsSound`); both audit files (`EntriesAreKept`); watchdog and emergency (`GearsAnswer`) |
| `runner_parts` | `MCRunnerParts` | clients and cluster subscribers get what is theirs and the gone are forgotten (`SubscribersGetTheirs`); the lock, the entries and the events of the channel, the status of composites, READY (`ChannelsAreOrderly`); both limiters over any window (`LimitsHold`); one daemon per agent and one writer per file (`OneHolds`); checkpoint, journals and numbers through exits and restarts (`RestartsGoOn`); the plugin lock through crashes (`InstallTellsTruth`); the configuration of a project (`ProjectsOnlyRestrict`) |
| `children` | `MCChildDaemons` | in three parts, calls that overlap, forks, and a supervised tree: types, a tree without cycles, nothing left behind that the cascade could know of, and each crashed child comes back or is given up |
| `loop_tools` | `ExecutionLoop` | prompts with late answers, the budget across resets, results paired with the calls they answer, a session destroyed under its turn |
| `loop_live` | `ExecutionLoop` | lockouts and a reset at every await: no work in lockout, turns end and are reported, inputs settle, the life cycle is implemented |
| `comm` | `MCCommDaemons` | duplicates, timeouts, failures, one crash, a clock that runs and is set back: accepted once, handled once, answered by the agent asked, every request ends |
| `persist` | `MCSessionPersistence` | two jobs of one session at once, a failing operation, expiry, shutdown, and beside it two sessions with one job at a time: whole files after a crash at any step, a bounded loss, nothing forgotten at rest, an index that agrees with the disk (`IndexAgrees`), every call reaches the disk |
| `sandbox_live` | `MCSandbox` | a pooled plugin and one with its own worker: what `PluginsKeepWorkers` says of two that share the pool, and that the disposal leaves no worker it could know of (`WorkersAreAccountedFor`); loads, calls and the disposal end (`SandboxSettles`) |
| `children_ids`, `persist_exit`, `persist_idle`, `sandbox_restarts` | | the disagreements of section 6 |

The two sum runs are a choice of economy: their components are independent, so one
exploration serves them all, and a property of the sum says of each component what its
module's own definitions of the same name say.  The sandbox's bus is explored in two
halves, where the plugins subscribe and emit and where they ask (`Subscribing`,
`Asking`); the proof is of both at once.

Why the bounds are enough.

* The queue: two distinct events and five pushes let three events be buffered
  while one is handed over and one received, twice the longest pattern that
  distinguishes the states (`resolver`, `handed`, `buffer` empty or not).
* The monitor: thresholds 2, 3, window 4 and rate 3/4 keep the order of the
  defaults 3 < 5 < 10 and 0.8; seven executions slide a full window past a full
  streak and back.
* The loop's tools: two calls in a response are the fewest that have a next call; two
  rounds are run (`MaxToolRounds` 1 runs two, see section 6); two nonces are a
  current and a stale prompt; a window of 4 with rate 3/4 meets all three verdicts.
* The loop's turns: two inputs are a turn and one queued behind it, which a lockout of
  the first refuses; two ticks allow a second round and refuse a third; a budget of
  one is spent by one call.
* Messaging: two messages are a request and its reply, or a message and its
  duplicate; with `MaxAge` 0 and a clock up to 1 a message goes stale and is
  pruned; an inbox of 1 overflows at once.  Three daemons are the one that asks, the
  one that is asked and one that answers in its place.
* Persistence: with `SaveEvery` 2 three calls are one that waits, one that is due and
  one after it; two jobs are a save and the one that overtakes it, or a save and a
  deletion; one failure leaves the job half way, and the next save finds it so.  Two
  sessions are the fewest that share the index; their jobs are run one at a time, and
  those of one session overlap (`Part`), which keeps the two halves small.

* The sandbox: four loads are those of two plugins and two restarts, which is the
  shortest way for one plugin to get the worker another has left; a pool of 1 is
  exhausted by the second plugin; a budget of 1 is spent by the second crash.  For its
  bus, two plugins are one and the next in its worker, two subscriptions of one type and two events tell an event heard twice from two
  events; three requests leave two that wait when one is answered.
* Commands: three inputs are a command between two others, or two commands and what is
  typed behind them.  Loading: three plugins are a chain of dependencies, or two
  providers and their user, with all ways to name each other.
* The audit files: a size of two entries rotates in the middle of a batch of two; two
  flushes overlap; ten trail entries rotate past the last of three files.
* Gears: two ticks of dukkha and two of cooldown are the shortest that have a middle; a
  limit of two or three cycles is met, passed and reset within five routes.
* Children: depth 2 is a root, a parent and its child; three processes are those two and
  one restarted or launched beside them; a budget of one is used and then refused.
* Clients: a session in memory, one that is new and one on disk; two messages fill a
  socket; a third finds it full.  Cluster: three calls are a subscription, another that
  narrows it and a publication or a deregistration.
* The channel's registry: four operations are two readers, a writer that waits and a
  reader behind it.  Composite: three children are the shortest order with a middle.
* Rate limits: with a window of 2 and a clock to 6, stamps expire exactly at, before and
  after the boundary in three windows.
* Daemons: two processes are the fewest that dispute a file.  Locks: three operations by
  two processes with two tasks each are a holder, its neighbour in the process and a
  waiter outside, one of which may find an aged lock.
* The foreground runner: two runs are an exit and the resume after it; a buffer of one
  entry makes every second write flush.  Installation: two commands, one of them cut
  off, then an agent that boots.  Configuration: paths two deep tell inside from beside.

`CHECK_DEADLOCK FALSE` is given everywhere: every bounded history of calls, inputs or
messages comes to its end, and the loop, the daemons and the processes may stop for good.

## 4. Fairness

* `EventQueueClient`: weak fairness of the consumer's two steps: ready microtasks
  run, and the loop always pulls again.  Producers owe nothing.  No run needs it now: that
  a consumer is never stranded but by `clear()` is checked as a step property.
* `ChildDaemons`: weak fairness of the supervisor's tick: its interval fires while the
  daemon runs, and a launch it awaits ends, as the launcher gives up after its timeout.
* `ExecutionLoop`: weak fairness of the loop's steps together.  The loop is one
  asynchronous function, so when it can move it does; each await ends because the
  LLM call is aborted at `llmTimeout`, a tool is raced with `toolTimeout` and a
  prompt times out.  The provider is assumed to heed its abort signal, and the guide,
  the router, the volition and the gate to settle; the code does not bound them.
* `CommDaemons`: weak fairness, per request, of the end of its RPC or of its timer.
  The transport's client times each call out and a timer fires.  Nobody has to answer
  and the clock need not advance.
* `SessionPersistence`: weak fairness of the file operations together and of the
  timers together: an operation ends, with or without an error, and a timer fires.
* `Sandbox`: weak fairness of the main thread: its timers fire and its continuations
  run, those of acknowledged resets before anything else.  A worker owes nothing, so a
  call may wait for its timer and a disposal for the timers of all its releases.
* `LoopLifecycle`: weak fairness of a turn's steps, which the loop's fairness implements.

## 5. Proofs

TLAPS checks these for every value of the constants that satisfies the named
assumptions (`MaxPushesAssumption`, `MonitorAssumption`, `LoopAssumption`,
`RouterAssumption`, `CommAssumption`, `PersistenceAssumption`, `ChildAssumption`,
`SandboxAssumption`, `CoreAssumption`, `RunnerAssumption`, `ChannelAssumption`; they are
what the configuration schema and the constants of the code guarantee, that `None` is
none of the values it stands beside, and that bounds are numbers, and TLC evaluates
them on every run).  A component that is only instantiated says what it needs of its
constants in its theorems (`LockBounds`, `BusBounds`, ...), and the sum's assumption
gives it for the last theorems of each module.  Safety needs no fairness: where a
specification has it, the proofs use `Init` and `[][Next]_vars` (`Steps`).

Every invariant and every step property that a passing run checks is proved.

| Theorem | Statement | Argument |
|---|---|---|
| `QueueTypeCorrect`, `QueueFifo`, `QueueNoLostWakeup` | types; `accepted = received \o handed \o buffer`; no waiting resolver beside an available event | the three together are inductive: `Fifo` needs that a push finds a resolver only when nothing is buffered or handed over, which is `NoLostWakeup` |
| `QueueStrandsOnlyOnClear` | `OnlyClearStrands`: a step strands the consumer only if it is `clear()` | no invariant is needed: push takes a resolver away only to hand its event over |
| `LoopTypeCorrect` | `Spec => []TypeOK`, with at most `MaxToolRounds + 1` rounds | `TypeOK` alone is not inductive: `Deliberate` counts a round, so the invariant adds that a turn in "persona", "streaming" or "planning" has rounds left, and that what is queued was pushed |
| `LoopNoWorkInLockout` | no turn under way in lockout | the invariant ties `lstate` to `pc`: each suspension point has the states it may be in |
| `LoopOnlyConfirmed` | a tool that was asked about runs only on approval of its prompt | the stale prompts never include the current one |
| `LoopBudget` | the budget is overrun by less than one call | a stream is awaited only with `tokens < MaxTokenUsage` or after a reset |
| `LoopUnlockClears` | a lockout is left only with fresh counters | action property from the same invariant |
| `LoopImplementsLifecycle` | every step of the loop is a step of `LoopLifecycle` or a stutter | one case per action, on the invariant |
| `LoopTurnIsReported` | a failed turn is not reported finished, an ended one was reported | the invariant ties what was emitted and `errored` to `pc` from the start of a turn to its end |
| `LoopTurnStaysInOneSession` | the messages of a turn are in one history | a history holds only turns up to the current one, the current one only in the session it was begun for or, if that was destroyed, in the default one; a session that is made again starts without messages |
| `LoopResultsAnswer` | every tool message answers the latest request of its history, in order and each call once | while a round is under way the history of its session, unless it was cleared, ends in the request and results for a prefix of its calls (what is being run, asked and left is the rest); a lemma says that appending a message that is no request leaves what earlier results answer |
| `CommTypeCorrect`, `CommAcceptedOnce` | types, with the inbox within its limit; accepted at most once unless the clock was set back | inductive with `Remembers`: an accepted id is in the replay cache with the timestamp of its message, or that message is stale; and a stale message stays stale while the clock only advances |
| `CommRepliesMatch` | a request is answered by its addressee's message that names it | a reply is set only where an accepted message's `corr` is pending, and what is accepted, on the wire or kept for a retry is a message as it was made |
| `CommHandledOnce` | a reply is not also handled by the agent's loop | from `CommAcceptedOnce`: a second acceptance would be needed, since the first either resolves the request or wakes the loop |
| `CommNoOrphans` | a waiting request has its timer or its reply; no entry outlives it | inductive with the outcome of a request and the pending sets changed in the same steps |
| `PersistIndexAgrees` | at rest the index lists the sessions on disk with their message counts, unless an operation failed or two jobs, of whatever sessions, were under way at once | beside the invariant of the next row: while jobs run one at a time, what one has read of the index and what it has written of its files are a function of its position in its program (`Indexed`) |
| `PersistTyped`, `PersistFilesAreWhole`, `PersistLossIsBounded`, `PersistAtRestIsSaved` | types; files whole; a crash loses what `count` says; at rest the last call is saved | one invariant for all: for a session whose jobs never overlapped, one job runs at a time, its temporary files hold what its position in its program says, an armed timer carries the last call, and a job past its messages has landed it (`Safe(s)`).  A job of another session touches nothing of `s` but the index |
| `LocksTyped`, `LocksSerializeInside`, `LocksUnrobbedIsSequential` | types; one task of a process inside at a time; updates sequential unless a live holder was robbed | the mutex's queue names its tasks once and only its head is past it; the lock file, unless robbed, names the one holder in its section; the file then is as the last section left it (`LocksInv`) |
| `ChildTreeIsSound` | one entry per id, no entry below itself, nothing left behind by the cascade but `late` | what is hung below an entry has just been registered, so it has no children and closes no cycle; it is not its own parent because the parent was registered when its process was launched, and the number of a new process is used by no entry and no call; before the cascade nothing is terminated |
| `SandboxTyped`, `SandboxStopLeavesNothing`, `SandboxOneRestart` | types; a stop leaves no worker but stragglers; one crash handler restarts a plugin, and a load under way is the one registered | only the last state made for a plugin can be loading, lose its worker, be registered, be waited for or be restarted (`Lineage`); a load of a restart and the handler that awaits it go together; each worker that runs is idle, busy or a plugin's own; so after `shutdownAll` what dies has been told to |
| `SandboxOneOwner` | a worker of the pool is idle once or has one plugin, and a registered plugin's worker is no other's | inductive with two facts (`Owned`): a registered plugin's busy worker is that of its state, and a release under way gives back the worker its plugin has.  It needs `Lineage`: a release is of the last state, so no load of that plugin has taken another worker meanwhile |
| `SandboxRestartsAreBounded` | at most `MaxRestarts` restarts in a row, unless a load that had not succeeded crashed | the crashes in a row are at most those counted by the last state or, while it loads, by the one before (`Budget`) |
| `SandboxOneCopy` | a plugin's code is in one running worker | a worker has code, or a load, of no plugin but one whose last state has it (`Copies`); when a plugin is loaded again its last state's worker is dead, so nothing of it is left anywhere |
| `SandboxLoadedStays`, `SandboxCallsStayHome` | a loaded plugin stays in its worker; a call runs the code it was sent for, both unless a release did not wait for its reset | `Home`, inductive with `Copies` and `Owned`: at most one load or reset is in a worker, and for its last tenant; a loaded worker, an acknowledged one and an idle one have none; a call of an earlier tenant waits before the load of the next one, in a worker without hooks, so it fails there before that load begins |
| `SandboxWorkersAreAccountedFor` | the property of `sandbox_live` | the theorems above together; but for `StopLeavesNothing` they are the conjuncts of `PluginsKeepWorkers` |
| `NumbersStayFresh`, `NumbersOnlyRise` | no number of a parent is given twice through any restarts, if its file is its own, written and undamaged; within a run they rise | inductive with `FollowsFile`: the cache of such a parent holds what its file does or nothing, and nothing above it was given.  Assumes that "no number" is not a number, in the theorem itself |

Of the components of the sums, each with an inductive invariant of its own:

| Theorem | Statement | Argument |
|---|---|---|
| `MonitorFollowsLog` | the monitor's summaries are those of the whole log; no streak is silent; a halt has its evidence | `MonitorInv`: the failures in a row, the window and the prints are the ends of the log.  `ErrorCount` is the cardinality of the failed positions of the window, so sliding it adds the new one and takes the oldest away: a bijection of positions, and no induction over the log |
| `CommandsEndOnce` | an input is queued, answered or refused once; plain ones keep their order | `CommandsInv`: the queue and the answers name each input whose place is "queued", "answered" or "failed" once and no other, and a command that is asked has a handler to ask |
| `GearsAnswerAlways` | no gear outstays its cycles; the emergency is exact | `GearInv`: the watchdog's counters are those of the decisions, and a gear at its limit is forced out (`CyclesAreUses`); while the emergency cools down the history says when it began, and when it does not the ticks of dukkha are the end of the history |
| `PluginsHearAndGetAnswers` | a handler hears each event of its topic once, in order, and misses none; a request is settled once, by its own response or its timer | `BusInv`: of the messages on both wires, whatever a live handler has yet to hear is on its way in order (`Reaches`); an id on the way to the main side is of a subscription or a request there is, and one that unsubscribes has no handler |
| `TrailIsWhole` | a trail file verifies up to its first break and no further; the files hold the latest entries in order | `TrailInv`: every line but those in `broken` follows the one before, `lastHash` is that of the last line, and without trouble the rotated files are full, the empty places last |
| `LogKeepsEntries` | an entry of the sandbox log is in one place | `LogInv`: the entries of the streams, the flushes, the buffer and the lost ones are apart and together 1..`logged` (`Shared`), and each flush holds its own without repetition |
| `LoadingSound` | order, refusal, skips and disposal | `KahnSound`, the invariant of the sort's loop: what is sorted is the least beginning, the remaining graph and in-degrees are the first ones less what is sorted, the queue is what is free.  It holds of every pass of `KahnAfter` by a least counterexample, so no induction scheme is needed; a sort that ends short leaves a set in which each plugin waits for another, or a provider that was counted twice (`RefusedForReason`) |
| `DaemonsOneIsFound` | one daemon, the one its files name, unless starts overlapped | `DaemonInv`: without a race one process stands for the daemon or one command is about to launch it, and the files name that process (`Alone`) |
| `ForegroundRestartsGoOn` | an orderly exit keeps what the next run needs; the journals keep their order; the shutdown cascade runs through | `ForegroundInv`: at each stage of the boot and the shutdown, what is on disk against what the run has (`Keeping`); a buffer holds the latest entries until its flush (`Unflushed`, `Flushed`); the window holds the latest denials (`Deduplicated`) |
| `InstallLockIsTrue` | the lock names what is whole; broken plugins were disturbed | `InstallInv`: how far the command under way is says which directory may be half there (`Progress`, `PartialOnes`), and what it read of the lock is whole but for the plugin it works on (`LockIsSound`) |
| `ConfigOnlyRestricts` | a project takes away and adds nothing; shared paths stay | `ConfigInv`: until the merge the configuration is the system's, what the project allows lies inside of it once it is validated, and from the merge on the configuration is the two merged |
| `ForkedReadyComesFirst` | nothing before READY | `ForkedInv`, unless `ready` outlived its process |
| `CompositeTellsTruth` | connected means all are; the verdict of a send is its children's | `CompositeInv`: a call under way waits for a child until it is over, and a connect has connected those it no longer waits for, unless a disconnect overlapped it (`CallsTakeTurns`); each strategy asks, takes and refuses along its order (`SendsGoOn`) |
| `LimitersHold` | the sliding limiter is exact; buckets let at most twice the limit through in a window | `SlidingInv`: for every time in reach of the window, as many stamps are newer as accepted inputs are (a bijection between stamps and inputs); `BucketsInv`: what passed since the last refill and the tokens left are at most the limit, and so is what passed in the window before that refill |
| `ClusterKeepsApart` | an event once to who asked; the deregistered are forgotten; providers are distinct | `ClusterInv`: an event on its way to a daemon is not in its inbox, and an inbox holds each once |
| `AttachedMissNothing` | no gap in what a client is shown; the gone are forgotten | `AttachedInv`: what was shown and what is in the socket are together the messages of the session up to the last (`TellsFrom`, `ShownUpTo`), in every phase of an attach call |
| `HubIsOrderly` | the lock loses no grant and no section runs beside a writer; entries change by their own operations; events apply in order | `HubInv`: the lock's counters are the sections that run, nobody waits for a lock that is free, and events wait and run in the order of their arrival, above those applied |

The last section of each module carries them to the sum: a part's initial states and
steps are the component's, and of the others each step is a stutter, so a behaviour of
the sum is one of every component (`PartsAreTheirs`, `LinksAreTheirs`).  These are the
theorems whose statements the runs check: `CoreQueueDelivers`, `CoreInputsArrive`, `CoreEvidenceHalts`,
`CoreLoadingIsSound`, `CoreEntriesAreKept`, `CoreGearsAnswer`, `CorePluginsHearTheirs`;
`RunnerOneHolds`, `RunnerRestartsGoOn`, `RunnerInstallTellsTruth`,
`RunnerProjectsOnlyRestrict`; `ChannelSubscribersGetTheirs`, `ChannelLimitsHold`,
`ChannelsStayOrderly`.  `CorePluginsKeepWorkers` cites the theorems of `SandboxProofs`
through an instance of that module with the variables of the sum (`PoolTheory`); the
operators of the two instances are shown equal first.

What proving changed in the models.  The registrations of a cluster's service are a set,
as no property tells their order.  A tick of the channel ends the agents it finds
dead in any order, of which the registry's is one.  The sort of plugins is a recursive
function over its passes.
`LoadingIsSound` gained `RefusedForReason`, which was not stated before: without it a
sort that refused every batch would have passed.  A trail of one file acts as one of two,
since the file that was just rotated is never deleted, so `TrailFiles` is at least 2.

Only model-checked: liveness (`InputsSettle`, `RequestsEnd`, `CallsLand`, `CrashedComeBack`,
`SandboxSettles`, and the fairness of the refinement in `ImplementsLifecycle`, whose steps
are proved), which is beyond TLAPS here.  What the verifier of a trail computes for a file
is stated without recursion in the model (`Verified`), so it is proved too; what a
recursive definition computes for every input would be out of reach.

## 6. Where the code and its own words disagree

Each is a run TLC finds violated; the lines are quoted in `PROJECT.json`.

* `persist_exit`: the shutdown saves through the debounce and exits before the timers
  fire, having logged that all sessions are saved.
* `persist_idle`: expiry goes by `updatedAt`, which is the time of creation for ever, so
  a session in daily use is deleted when it is older than the TTL.
* `sandbox_restarts`: a restart's new state counts crashes from zero and gets the old
  count only once it is loaded, so a plugin that crashes its worker while it is loaded
  is restarted without end.  `RestartsAreBounded` holds for all other plugins.
* `children_ids`: two spawns of one id pass the check of the registry before either has
  registered, and the second overwrites the entry of the first child, which runs on
  without one.

These too are stated next to the models, as definitions no run checks, and the code does
not satisfy them; the comment beside each quotes the line.

| Module, definition | What the code does |
|---|---|
| `AttachedClients`, `ReplayIsShown` | the daemon writes the replay before the answer to the attach call, and the command registers its handlers after it: what arrives in one chunk is dropped |
| `AttachedClients`, `RestoredWhole` | a persisted history is restored into the default session's state, and a new empty session is created for the client |
| `SlashCommands`, `TypedOrder` | an unknown command is queued when the registry has answered, behind inputs typed after it |
| `PluginLoading`, `OnlyCyclesAreRefused` | a provider that is named by two services counts twice in the in-degree and is taken off once: a batch without a cycle is refused (`RefusedForReason`, proved, says that nothing else refuses one) |
| `SandboxBus`, `ResetForgets` | the context proxy's handlers survive RESET, and the worker's next plugin hears with them |
| `GearRouting`, `CapsHold` | the audit's delta is added after a gear's cap |
| `FileLocks`, `OneAtATime` | a lock that is created and not yet written is taken for stale and unlinked |
| `PluginInstall`, `LockIsAtomic` | the lock file is written in place, though its comment says by renaming |
| `GenerationCounter`, `AllNumbersAreFresh` | two parents whose ids give one file name share its number, and after a restart one is given numbers again |
| `ChannelIpc`, `ReadyAlwaysFirst` | `ready` stays set after the process has gone, and events are written to the next before its READY |

The models state what the code does, so these have neither:

* A turn whose model keeps asking for tools runs `maxToolRounds + 1` rounds (`loop.ts`
  tests `toolRound <= maxToolRounds` before counting the round): `TypeOK` has that
  bound, and `LoopTypeCorrect` proves it.
* An input queued for a session that is destroyed before its turn is written to the
  default session: `TurnStaysInOneSession` excepts that session and no other.
* An exception outside the handlers of a turn (a resolver, the guide, routing) ends the
  loop for good while `running` stays true and inputs are accepted: `InputsSettle`
  excepts `pc = "crashed"`.
* The error cascade is tested after the two warnings return (`safety-monitor.ts:149`), so a
  window over its threshold only warns while failures repeat or follow each other:
  `HaltsOnEvidence` says what a halt implies and not the converse.
* A request's timer that fires before its delivery is acknowledged rejects a promise
  nobody handles yet, which ends a Node process: the outcome `"unhandled"`.
* When two saves of one session overlap, an older snapshot may replace a newer one:
  the persistence's invariants except the sessions in `overlapped`.
* A worker released after the reset's timer, not its acknowledgement, may lose the
  next plugin's hooks when the reset ends: `LoadedStays` and `CallsStayHome` except
  the workers in `unreset`.
* A restart under way when `shutdownAll` runs, or a worker whose restart timed out, is
  left running: `StopLeavesNothing` excepts `stragglers`.
* The lattice is not consulted for a `parentId` that is not registered; a spawn that is in
  the launcher when the shutdown begins starts a process the cascade has passed, and
  supervising it restarts the monitor: `NoneLeftBehind` excepts `late`.
* Two starts that overlap launch two daemons, of which the later takes socket and pid
  file: `OneDaemonIsFound` excepts `raced`.
* An agent that narrows its subscription and then deregisters stays subscribed to what it
  gave up: `DeregisteredAreForgotten` excepts `narrowed`.
* Two registrations of an agent at once both pass the check under the read lock, and the
  later overwrites the earlier; an agent found dead by its health stays in the registry.
* A flush of the sandbox log that rotates in the middle of its batch goes on writing to
  the stream it ended: the rest is lost and, the stream never draining, `dispose` hangs.
* The trail's last hash starts afresh with the process while its file goes on:
  `FilesVerify` says that a file verifies exactly up to the first such break.
* The journals are written only at the shutdown and when their buffers are full; if
  `core.stop` throws, neither is flushed nor is the key cleared.
* An uninstallation cut off between the directory and the lock leaves an entry that makes
  the next installation skip the plugin; the lock excepts what was `interrupted`.
* A project's path above one of the system's is dropped and not narrowed; an empty list of
  tools, of which the merger only warns, ends the start in the validator.
* A composite whose connect failed leaves the other children connected, and a connect and
  a disconnect under way together may leave "connected" over disconnected children.

## 7. Not modelled

* Snapshots of a state manager, the truncation of a history to its maximum, and the
  transport bridge of the agent core: copies and wiring without a protocol.
* Import analysis, signature verification, envelope signatures, configuration
  integrity and path checks: parsing and cryptography over text.
* Metrics, the printing of the terminal and the formats of the journals.
* A pid that is given to another process, and `pid-identity.ts`, which could tell.
* `PermissionLattice.validateSpawn`, `gracefulStopAgent`, `recordHeartbeat` and
  `withChannelGuard` have no callers; of the channel classes, which are a library,
  `onMessage`, the handler loop of a pipeline and the depth of a composition.
* The coarising bundles and the scores of `klesha.ts` beyond a threshold: arithmetic
  without state.  Capabilities are merged, as modelled, and enforced nowhere in the core.
* The runner's other commands, bootstrap and migrations: command line and file formats.
* The SDK: types, constants and error classes.

## 8. Plan

In order of importance, as it was carried out; each step is a module, its instance and its
proofs.

1. `EventQueue`, `SafetyMonitor`, `ExecutionLoop`, `LoopLifecycle` (done; the loop's
   safety properties are all proved).
2. `MessageRouter`, `CommDaemons` (done; the safety properties of messaging are proved).
3. `SessionPersistence` (done; its safety properties are proved).
4. `Sandbox` (done; its safety properties are all proved; what it returns to in the
   end is liveness and stays with TLC).
5. The process tree, the file lock and the numbers of children, the clients, the cluster,
   the channel, the limits, plugin loading, the audit files, gear routing, the foreground
   runner, installation and configuration (done, proved).
6. What is left: a model of the attach command's session that is restored before it is
   created again, once the code decides which of the two it means (section 6); the
   coarising bundles and scores of `klesha.ts`; the runner's other commands.
