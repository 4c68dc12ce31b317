------------------------------- MODULE Sandbox -------------------------------
(***************************************************************************)
(* The workers of sandboxed plugins: loading, calls, crashes, restarts and *)
(* disposal (packages/core/src/sandbox/sandbox-manager.ts), the pool they  *)
(* are taken from (worker-pool.ts), the worker's side of the messages      *)
(* (plugin-worker-runner.ts) and the order in which the plugin loader      *)
(* loads and disposes of plugins (infrastructure/plugin-loader.ts).        *)
(*                                                                         *)
(* A load makes a state; crash handlers, RPCs and restarts belong to that  *)
(* state and outlive its entry in the `workers` map.  The worker gets its  *)
(* messages in order, begins each and may suspend in it, so that it ends   *)
(* them in any order.  What a worker sends is received in the step that    *)
(* sends it, and a crash (its error and its exit being one) in the step    *)
(* that is the crash; a worker that hangs is one that takes no step until  *)
(* the heartbeat check terminates it, which is a crash too.  Signature and *)
(* import checks come before the first effect of a load and are its        *)
(* failure to start.                                                       *)
(***************************************************************************)
EXTENDS Naturals, Sequences, FiniteSets

CONSTANTS
    LoadOrder,       \* the sandboxed plugins, as configured
    Dedicated,       \* plugins with a memory limit of their own: not pooled
    PoolSize,
    MaxRestarts,     \* restartPolicy.maxRestarts
    MaxLoads,        \* bound: states made
    MaxCalls,        \* bound: tool calls
    None             \* no plugin

Plugins == {LoadOrder[k] : k \in DOMAIN LoadOrder}

ASSUME SandboxAssumption ==
    /\ LoadOrder \in Seq(Plugins)
    /\ \A j, k \in DOMAIN LoadOrder : j # k => LoadOrder[j] # LoadOrder[k]
    /\ Dedicated \subseteq Plugins /\ None \notin Plugins
    /\ {PoolSize, MaxRestarts, MaxLoads, MaxCalls} \subseteq Nat

VARIABLES
    alive,           \* workers that run
    spawned,         \* number of workers made
    hooks,           \* hooks[w]: the plugin whose hooks worker w has
    inbox,           \* inbox[w]: messages w has not begun
    doing,           \* messages begun and suspended
    pool,            \* the worker pool in use by number, 0 if there is none
    pools,           \* number of pools made
    idle, busy,      \* the pool's lists
    st,              \* the states made, in order
    reg,             \* reg[p]: the `workers` map, 0 if p has no entry
    rpcs,            \* RPCs that wait; call 0 is INIT_PLUGIN
    closings,        \* calls of shutdownPlugin that wait
    stage,           \* what the plugin loader is doing
    turn,            \* how many of the plugins it has done it to
    calls,           \* tool calls made
    streak,          \* history: p's crashes, each within the reset window of the last
    diedUnloaded,    \* history: plugins with a crash before their load had succeeded
    unreset,         \* history: workers released without an acknowledged reset
    stragglers       \* history: shutdownAll found restarts under way, or unowned workers

workerVars == <<alive, spawned, hooks, inbox, doing>>
poolVars == <<pool, pools, idle, busy>>
managerVars == <<st, reg, rpcs, closings>>
loaderVars == <<stage, turn, calls>>
historyVars == <<streak, diedUnloaded, unreset, stragglers>>
vars == <<workerVars, poolVars, managerVars, loaderVars, historyVars>>

Workers == 1..(MaxLoads + 2 * PoolSize)
States == DOMAIN st

\* Pooled workers have the default memory limit.
Pooled(p) == p \notin Dedicated

Init ==
    /\ alive = {} /\ spawned = 0
    /\ hooks = [w \in Workers |-> None]
    /\ inbox = [w \in Workers |-> <<>>]
    /\ doing = {}
    /\ pool = 0 /\ pools = 0 /\ idle = <<>> /\ busy = [p \in Plugins |-> 0]
    /\ st = <<>> /\ reg = [p \in Plugins |-> 0]
    /\ rpcs = {} /\ closings = {}
    /\ stage = "loading" /\ turn = 0 /\ calls = 0
    /\ streak = [p \in Plugins |-> 0] /\ diedUnloaded = {} /\ unreset = {} /\ stragglers = FALSE

-----------------------------------------------------------------------------
(* Messages to a worker. *)

Message(kind, i, n) == [kind |-> kind, s |-> i, call |-> n]

\* postMessage to the workers ws; a dead one gets nothing.
Post(ws, m) ==
    inbox' = [w \in Workers |->
                 IF w \in ws \cap alive' THEN Append(inbox[w], m) ELSE inbox[w]]

\* Faulty: the worker is given up and not terminated.
GoneNot(ws) == UNCHANGED <<alive, hooks, inbox, doing>>

\* Workers ws end, and what they were doing with them.
Gone(ws) ==
    /\ alive' = alive \ ws
    /\ hooks' = [w \in Workers |-> IF w \in ws THEN None ELSE hooks[w]]
    /\ inbox' = [w \in Workers |-> IF w \in ws THEN <<>> ELSE inbox[w]]
    /\ doing' = {d \in doing : d.w \notin ws}

-----------------------------------------------------------------------------
(* Loads that fail. *)

\* Faulty: the crash handler that made the load does not hear of its failure.
FailLoadsUnheard(states, entries, I, next) ==
    /\ st' = [k \in DOMAIN states |->
                 [states[k] EXCEPT
                     !.load = IF k \in I THEN "failed" ELSE @]]
    /\ reg' = [p \in Plugins |-> IF \E i \in I : states[i].plugin = p THEN 0 ELSE entries[p]]
    /\ stage' = IF \E i \in I : states[i].parent = 0 THEN "exited" ELSE next

\* The loads of the states I throw: a restart's is caught and leaves its plugin
\* without an entry, one of the startup ends the process.
FailLoads(states, entries, I, next) ==
    /\ st' = [k \in DOMAIN states |->
                 [states[k] EXCEPT
                     !.load = IF k \in I THEN "failed" ELSE @,
                     !.restart = IF \E i \in I : states[i].parent = k THEN "no" ELSE @]]
    /\ reg' = [p \in Plugins |-> IF \E i \in I : states[i].plugin = p THEN 0 ELSE entries[p]]
    /\ stage' = IF \E i \in I : states[i].parent = 0 THEN "exited" ELSE next

AwaitsInit(i) == [s |-> i, call |-> 0] \in rpcs

Without(entries, I) ==
    [p \in Plugins |-> IF \E i \in I : st[i].plugin = p THEN 0 ELSE entries[p]]

-----------------------------------------------------------------------------
(* Loading. *)

NewState(p, w, parent) ==
    [plugin |-> p, worker |-> w, crashes |-> 0, crashedBefore |-> FALSE,
     restarting |-> FALSE, load |-> "init", parent |-> parent, restart |-> "no"]

\* Faulty: a pool is made for every load.
AcquireAfresh(p) ==
    LET ready == [k \in 1..PoolSize |-> spawned + k]
        last  == spawned + PoolSize
        more  == IF ready = <<>> THEN 1 ELSE 0
    IN  /\ pools' = pools + 1
        /\ pool' = pools'
        /\ idle' = IF more = 1 THEN <<>> ELSE SubSeq(ready, 1, Len(ready) - 1)
        /\ spawned' = last + more
        /\ busy' = [busy EXCEPT ![p] = IF more = 1 THEN spawned' ELSE ready[Len(ready)]]

\* Faulty: the worker stays on the idle list.
AcquirePeeks(p) ==
    LET ready == IF pool = 0 THEN [k \in 1..PoolSize |-> spawned + k] ELSE idle
        last  == IF pool = 0 THEN spawned + PoolSize ELSE spawned
        more  == IF ready = <<>> THEN 1 ELSE 0
    IN  /\ pools' = IF pool = 0 THEN pools + 1 ELSE pools
        /\ pool' = IF pool = 0 THEN pools' ELSE pool
        /\ idle' = IF more = 1 THEN <<>> ELSE ready
        /\ spawned' = last + more
        /\ busy' = [busy EXCEPT ![p] = IF more = 1 THEN spawned' ELSE ready[Len(ready)]]

\* ensurePoolInitialized and acquire: the idle worker released last, or a new one.
Acquire(p) ==
    LET ready == IF pool = 0 THEN [k \in 1..PoolSize |-> spawned + k] ELSE idle
        last  == IF pool = 0 THEN spawned + PoolSize ELSE spawned
        more  == IF ready = <<>> THEN 1 ELSE 0
    IN  /\ pools' = IF pool = 0 THEN pools + 1 ELSE pools
        /\ pool' = IF pool = 0 THEN pools' ELSE pool
        /\ idle' = IF more = 1 THEN <<>> ELSE SubSeq(ready, 1, Len(ready) - 1)
        /\ spawned' = last + more
        /\ busy' = [busy EXCEPT ![p] = IF more = 1 THEN spawned' ELSE ready[Len(ready)]]

\* From the acquired worker to the await of INIT_COMPLETE.
LoadInSandbox(p, parent) ==
    /\ Len(st) < MaxLoads
    /\ \/ Pooled(p) /\ Acquire(p)
       \/ ~Pooled(p) /\ spawned' = spawned + 1 /\ UNCHANGED poolVars
    /\ alive' = alive \cup ((spawned + 1)..spawned')
    /\ LET i == Len(st) + 1
           w == IF Pooled(p) THEN busy'[p] ELSE spawned'
       IN  /\ st' = [k \in 1..i |->
                        IF k = i THEN NewState(p, w, parent)
                        ELSE IF k = parent THEN [st[k] EXCEPT !.restart = "loading"]
                        ELSE st[k]]
           /\ reg' = [reg EXCEPT ![p] = i]
           /\ rpcs' = rpcs \cup {[s |-> i, call |-> 0]}
           /\ Post({w}, Message("init", i, 0))
    /\ UNCHANGED <<hooks, doing, closings, calls, historyVars>>

StartupLoads == {i \in States : st[i].parent = 0 /\ st[i].load \in {"init", "closing"}}

\* The startup loads one plugin after the other; a failure ends the process.
LoadNext ==
    /\ stage = "loading" /\ turn < Len(LoadOrder) /\ StartupLoads = {}
    /\ turn' = turn + 1
    /\ \/ LoadInSandbox(LoadOrder[turn'], 0) /\ UNCHANGED stage
       \/ stage' = "exited" /\ UNCHANGED <<workerVars, poolVars, managerVars, calls, historyVars>>

Started ==
    /\ stage = "loading" /\ turn = Len(LoadOrder) /\ StartupLoads = {}
    /\ stage' = "up"
    /\ UNCHANGED <<workerVars, poolVars, managerVars, turn, calls, historyVars>>

\* The backoff is over: the crash handler of state j loads the plugin again.
Restart(j) ==
    /\ st[j].restart = "backoff"
    /\ LoadInSandbox(st[j].plugin, j)
    /\ UNCHANGED <<stage, turn>>

\* The checks before the load reject the plugin's file.
RestartRejected(j) ==
    /\ st[j].restart = "backoff"
    /\ st' = [st EXCEPT ![j].restart = "no"]
    /\ reg' = [reg EXCEPT ![st[j].plugin] = 0]
    /\ UNCHANGED <<workerVars, poolVars, rpcs, closings, loaderVars, historyVars>>

-----------------------------------------------------------------------------
(* Shutdown of a plugin. *)

\* shutdownPlugin for the registered states S, up to its await.  The pool's
\* release is called with the plugin's name and resets the worker it has for it.
Release(i) == Pooled(st[i].plugin) /\ pool # 0

\* Faulty: the release does not wait for the reset.
ClosingAtOnce(i, by) ==
    LET w == IF Release(i) THEN busy[st[i].plugin] ELSE st[i].worker
    IN  [s |-> i, w |-> w, pool |-> IF Release(i) THEN pool ELSE 0,
         acked |-> Release(i), by |-> by]

Closing(i, by) ==
    LET w == IF Release(i) THEN busy[st[i].plugin] ELSE st[i].worker
    IN  [s |-> i, w |-> w, pool |-> IF Release(i) THEN pool ELSE 0,
         acked |-> w = 0, by |-> by]

ShutdownPlugins(S, by) ==
    /\ st' = [k \in States |->
                 IF k \notin S THEN st[k]
                 ELSE [st[k] EXCEPT !.restarting = TRUE,
                                    !.load = IF by = "load" THEN "closing" ELSE @]]
    /\ closings' = closings \cup {Closing(i, by) : i \in S}
    /\ inbox' = [w \in Workers |->
                    LET mine == {i \in S : Release(i) /\ busy[st[i].plugin] = w}
                    IN  IF w \in alive /\ mine # {}
                        THEN Append(inbox[w], Message("reset", CHOOSE i \in mine : TRUE,
                                                      IF by = "load" THEN 1 ELSE 0))
                        ELSE inbox[w]]

\* The rest of shutdownPlugin: RESET is acknowledged, or its timer fired; a
\* dedicated worker has exited, or is terminated.
CloseEnds(c) ==
    LET p == st[c.s].plugin
        thrown == {i \in {c.s} : c.by = "load" \/ AwaitsInit(i)}
    IN  /\ closings' = closings \ {c}
        /\ \/ /\ c.pool # 0
              /\ \/ c.pool = pool /\ c.w # 0
                    /\ busy' = [busy EXCEPT ![p] = 0] /\ idle' = Append(idle, c.w)
                 \/ ~(c.pool = pool /\ c.w # 0) /\ UNCHANGED <<busy, idle>>
              /\ UNCHANGED <<alive, hooks, inbox, doing>>
           \/ c.pool = 0 /\ Gone({c.w}) /\ UNCHANGED <<busy, idle>>
        /\ rpcs' = {r \in rpcs : r.s # c.s}
        /\ FailLoads(st, Without(reg, {c.s}), thrown, stage)
        /\ unreset' = IF c.acked THEN unreset ELSE unreset \cup {c.w}
    /\ UNCHANGED <<spawned, pool, pools, turn, calls, streak, diedUnloaded, stragglers>>

\* Faulty: the pool's release has no timer.
CloseTimeoutDedicated(c) == ~c.acked /\ c.pool = 0 /\ CloseEnds(c)

\* The timer of the release, or of the shutdown of a dedicated worker.
CloseTimeout(c) == ~c.acked /\ CloseEnds(c)

-----------------------------------------------------------------------------
(* The worker. *)

Acknowledge(w) ==
    closings' = {IF c.w = w /\ c.pool # 0 THEN [c EXCEPT !.acked = TRUE] ELSE c : c \in closings}

\* The worker begins its next message; without hooks a call fails and a reset
\* ends at once.
Begin(w) ==
    /\ w \in alive /\ inbox[w] # <<>>
    /\ inbox' = [inbox EXCEPT ![w] = Tail(@)]
    /\ LET m == Head(inbox[w])
       IN  \/ /\ m.kind = "init" \/ hooks[w] # None
              /\ doing' = doing \cup {[w |-> w, m |-> m, code |-> hooks[w]]}
              /\ UNCHANGED <<rpcs, closings>>
           \/ /\ m.kind = "tool" /\ hooks[w] = None
              /\ rpcs' = rpcs \ {[s |-> m.s, call |-> m.call]}
              /\ UNCHANGED <<doing, closings>>
           \/ /\ m.kind = "reset" /\ hooks[w] = None
              /\ Acknowledge(w)
              /\ UNCHANGED <<doing, rpcs>>
    /\ UNCHANGED <<alive, spawned, hooks, poolVars, st, reg, loaderVars, historyVars>>

Ends(d) ==
    /\ d \in doing
    /\ doing' = doing \ {d}
    /\ UNCHANGED <<alive, spawned, poolVars, turn, calls, historyVars>>

ToolEnds(d) ==
    /\ Ends(d) /\ d.m.kind = "tool"
    /\ rpcs' = rpcs \ {[s |-> d.m.s, call |-> d.m.call]}
    /\ UNCHANGED <<hooks, inbox, st, reg, closings, stage>>

\* Faulty: the reset disposes of the hooks and keeps them.
ResetEndsKeeping(d) ==
    /\ Ends(d) /\ d.m.kind = "reset"
    /\ Acknowledge(d.w)
    /\ UNCHANGED <<hooks, inbox, st, reg, rpcs, stage>>

ResetEnds(d) ==
    /\ Ends(d) /\ d.m.kind = "reset"
    /\ hooks' = [hooks EXCEPT ![d.w] = None]
    /\ Acknowledge(d.w)
    /\ UNCHANGED <<inbox, st, reg, rpcs, stage>>

\* Faulty: the crash count starts anew with every worker.
InheritsNone(k, j) == FALSE

\* After a restart by the crash handler of state j, the plugin's state inherits
\* j's crash count.
Inherits(k, j) == j # 0 /\ k = reg[st[j].plugin]

\* INIT_COMPLETE with success.
InitSucceeds(d) ==
    /\ Ends(d) /\ d.m.kind = "init"
    /\ LET i == d.m.s
           j == st[i].parent
       IN  /\ hooks' = [hooks EXCEPT ![d.w] = st[i].plugin]
           /\ \/ /\ AwaitsInit(i)
                 /\ rpcs' = rpcs \ {[s |-> i, call |-> 0]}
                 /\ st' = [k \in States |->
                              [st[k] EXCEPT
                                  !.load = IF k = i THEN "loaded" ELSE @,
                                  !.restart = IF k = j THEN "no" ELSE @,
                                  !.crashes = IF Inherits(k, j) THEN st[j].crashes ELSE @,
                                  !.crashedBefore = @ \/ Inherits(k, j)]]
              \/ ~AwaitsInit(i) /\ UNCHANGED <<rpcs, st>>
    /\ UNCHANGED <<inbox, reg, closings, stage>>

\* INIT_COMPLETE with an error: the plugin is shut down before the load throws.
\* The worker has kept the hooks if only their serialization failed.
InitFails(d, kept) ==
    /\ Ends(d) /\ d.m.kind = "init"
    /\ LET i == d.m.s
       IN  /\ rpcs' = rpcs \ {[s |-> i, call |-> 0]}
           /\ \/ AwaitsInit(i) /\ ShutdownPlugins({i}, "load")
              \/ ~AwaitsInit(i) /\ UNCHANGED <<st, inbox, closings>>
           /\ UNCHANGED <<reg, stage>>
    /\ hooks' = IF kept THEN [hooks EXCEPT ![d.w] = st[d.m.s].plugin] ELSE hooks

-----------------------------------------------------------------------------
(* Crashes. *)

\* handleWorkerCrash, up to its await.
Crashed(i, quiet) ==
    LET n == IF quiet /\ st[i].crashedBefore THEN 1 ELSE st[i].crashes + 1
    IN  [st[i] EXCEPT !.crashes = n, !.crashedBefore = TRUE,
                      !.restarting = n <= MaxRestarts,
                      !.restart = IF n <= MaxRestarts THEN "backoff" ELSE "no"]

\* Faulty: the end of a worker that was shut down counts as a crash.
VictimsAll(ws) == {i \in States : st[i].worker \in ws}

\* The states that hear of the death of workers ws.
Victims(ws) == {i \in States : st[i].worker \in ws /\ ~st[i].restarting}

\* Workers ws die; quiet: the reset window has passed since the last crash.
Die(ws, quiet, next) ==
    LET V == Victims(ws \cap alive)
        names == {st[i].plugin : i \in V}
    IN  /\ Gone(ws)
        /\ rpcs' = {r \in rpcs : r.s \notin V}
        /\ FailLoads([k \in States |-> IF k \in V THEN Crashed(k, quiet) ELSE st[k]],
                     Without(reg, V), {i \in V : AwaitsInit(i)}, next)
        /\ streak' = [p \in Plugins |->
                         IF p \notin names THEN streak[p]
                         ELSE IF quiet THEN 1 ELSE streak[p] + 1]
        /\ diedUnloaded' = diedUnloaded \cup {st[i].plugin : i \in {k \in V : st[k].load # "loaded"}}
        /\ UNCHANGED spawned

\* Bound: the loads that restarts under way will make.
Room == Len(st) + Cardinality({j \in States : st[j].restart = "backoff"}) < MaxLoads

\* A worker that has run a plugin crashes, or stalls and is terminated.
Crash(w, quiet) ==
    /\ w \in alive /\ \E i \in States : st[i].worker = w
    /\ Room
    /\ Die({w}, quiet, stage)
    /\ UNCHANGED <<poolVars, closings, turn, calls, unreset, stragglers>>

\* The plugin's code calls process.exit(0), which counts as no crash.
Quit(w) ==
    /\ w \in alive /\ \E d \in doing : d.w = w
    /\ Gone({w})
    /\ UNCHANGED <<spawned, poolVars, managerVars, loaderVars, historyVars>>

-----------------------------------------------------------------------------
(* Calls, and the end. *)

InvokeTool(p) ==
    /\ stage \in {"up", "disposing"}
    /\ reg[p] # 0 /\ calls < MaxCalls
    /\ calls' = calls + 1
    /\ rpcs' = rpcs \cup {[s |-> reg[p], call |-> calls']}
    /\ UNCHANGED alive
    /\ Post({st[reg[p]].worker}, Message("tool", reg[p], calls'))
    /\ UNCHANGED <<spawned, hooks, doing, poolVars, st, reg, closings, stage, turn, historyVars>>

\* Faulty: only loads have a timer.
RpcTimeoutLoads(r) ==
    /\ r \in rpcs /\ r.call = 0
    /\ rpcs' = rpcs \ {r}
    /\ FailLoads(st, reg, {i \in {r.s} : r.call = 0}, stage)
    /\ UNCHANGED <<workerVars, poolVars, closings, turn, calls, historyVars>>

RpcTimeout(r) ==
    /\ r \in rpcs
    /\ rpcs' = rpcs \ {r}
    /\ FailLoads(st, reg, {i \in {r.s} : r.call = 0}, stage)
    /\ UNCHANGED <<workerVars, poolVars, closings, turn, calls, historyVars>>

\* disposeAll: the plugins one after the other, then whatever is registered.
Stop ==
    /\ stage = "up"
    /\ stage' = "disposing" /\ turn' = 0
    /\ UNCHANGED <<workerVars, poolVars, managerVars, calls, historyVars>>

DisposeNext ==
    /\ stage = "disposing" /\ turn < Len(LoadOrder)
    /\ \A c \in closings : c.by # "dispose"
    /\ turn' = turn + 1
    /\ ShutdownPlugins({reg[LoadOrder[turn']]} \ {0}, "dispose")
    /\ UNCHANGED <<alive, spawned, hooks, doing, poolVars, reg, rpcs, stage, calls, historyVars>>

\* A state whose worker runs but which is no longer in the `workers` map: its
\* restart timed out.
Unowned(i) == ~st[i].restarting /\ st[i].worker \in alive /\ reg[st[i].plugin] # i

ShutdownAll ==
    /\ stage = "disposing" /\ turn = Len(LoadOrder)
    /\ \A c \in closings : c.by # "dispose"
    /\ stage' = "closing"
    /\ ShutdownPlugins({reg[p] : p \in Plugins} \ {0}, "all")
    /\ stragglers' = \E i \in States : st[i].restart # "no" \/ Unowned(i)
    /\ UNCHANGED <<alive, spawned, hooks, doing, poolVars, reg, rpcs, turn, calls,
                   streak, diedUnloaded, unreset>>

PoolStops == stage = "closing" /\ \A c \in closings : c.by # "all"

\* The pool terminates its workers.
StopPool(quiet) ==
    /\ PoolStops
    /\ Die({idle[k] : k \in DOMAIN idle} \cup ({busy[p] : p \in Plugins} \ {0}), quiet, "stopped")
    /\ pool' = 0 /\ idle' = <<>> /\ busy' = [p \in Plugins |-> 0]
    /\ UNCHANGED <<pools, closings, turn, calls, unreset, stragglers>>

-----------------------------------------------------------------------------

WorkerStep ==
    \/ \E w \in alive : Begin(w) \/ Quit(w) \/ \E quiet \in BOOLEAN : Crash(w, quiet)
    \/ \E d \in doing : ToolEnds(d) \/ ResetEnds(d) \/ InitSucceeds(d)
                      \/ \E kept \in BOOLEAN : InitFails(d, kept)

MainStep ==
    \/ \E j \in States : Restart(j) \/ RestartRejected(j)
    \/ \E c \in closings : CloseTimeout(c)
    \/ \E r \in rpcs : RpcTimeout(r)
    \/ LoadNext \/ Started \/ DisposeNext \/ ShutdownAll

UserStep == Stop \/ \E p \in Plugins : InvokeTool(p)

\* What an acknowledged reset or an ended wait resumes comes before anything else.
Resume ==
    \/ \E c \in closings : c.acked /\ CloseEnds(c)
    \/ \E quiet \in BOOLEAN : StopPool(quiet)

Resumes == PoolStops \/ \E c \in closings : c.acked

\* Once the process has exited nothing happens.
Next ==
    \/ stage # "exited" /\ Resume
    \/ stage # "exited" /\ ~Resumes /\ (WorkerStep \/ MainStep \/ UserStep)

\* Timers fire and the main thread goes on; a worker owes nothing.
Fairness == WF_vars(stage # "exited" /\ (Resume \/ (~Resumes /\ MainStep)))

Spec == Init /\ [][Next]_vars /\ Fairness

-----------------------------------------------------------------------------
(* Properties. *)

States_ == [plugin : Plugins, worker : Workers, crashes : 0..(MaxLoads + 1),
            crashedBefore : BOOLEAN, restarting : BOOLEAN,
            load : {"init", "closing", "loaded", "failed"},
            parent : 0..MaxLoads, restart : {"no", "backoff", "loading"}]

Messages == [kind : {"init", "tool", "reset"}, s : 1..MaxLoads, call : 0..MaxCalls \cup {1}]

TypeOK ==
    /\ alive \subseteq Workers /\ spawned \in 0..(MaxLoads + 2 * PoolSize)
    /\ hooks \in [Workers -> Plugins \cup {None}]
    /\ inbox \in [Workers -> Seq(Messages)]
    /\ doing \subseteq [w : alive, m : Messages, code : Plugins \cup {None}]
    /\ pool \in 0..pools /\ pools \in 0..2
    /\ idle \in Seq(Workers) /\ busy \in [Plugins -> Workers \cup {0}]
    /\ st \in Seq(States_) /\ Len(st) <= MaxLoads
    /\ reg \in [Plugins -> {0} \cup States]
    /\ rpcs \subseteq [s : States, call : 0..MaxCalls]
    /\ closings \subseteq [s : States, w : Workers \cup {0}, pool : 0..pools,
                           acked : BOOLEAN, by : {"load", "dispose", "all"}]
    /\ stage \in {"loading", "up", "disposing", "closing", "stopped", "exited"}
    /\ turn \in 0..Len(LoadOrder) /\ calls \in 0..MaxCalls
    /\ streak \in [Plugins -> Nat] /\ diedUnloaded \subseteq Plugins /\ unreset \subseteq Workers /\ stragglers \in BOOLEAN

\* No worker is handed out twice: it is idle once, or one plugin's, and the
\* plugins' current workers are distinct, until the plugins are disposed of.
OneOwner ==
    stage \in {"loading", "up"} =>
        /\ \A k, n \in DOMAIN idle : k # n => idle[k] # idle[n]
        /\ \A p, q \in Plugins : p # q /\ busy[p] # 0 => busy[p] # busy[q]
        /\ \A k \in DOMAIN idle, p \in Plugins : idle[k] # busy[p]
        /\ \A p \in Plugins :
              reg[p] # 0 => \A q \in Plugins \ {p} : busy[q] # st[reg[p]].worker

\* A plugin that is loaded is there: no late reset or other plugin's load has
\* replaced it in its worker, until the plugins are disposed of, unless the
\* worker came back without an acknowledged reset.
LoadedStays ==
    stage \in {"loading", "up"} =>
        \A p \in Plugins :
            reg[p] # 0 =>
                LET s == st[reg[p]]
                IN  s.load = "loaded" /\ ~s.restarting /\ s.worker \in alive \ unreset
                        => hooks[s.worker] = p

\* Code of one plugin never runs another's call, with the same exceptions.
CallsStayHome ==
    stage \in {"loading", "up"} =>
        \A d \in doing :
            d.m.kind = "tool" /\ d.w \notin unreset => d.code = st[d.m.s].plugin

\* A plugin runs in one worker at a time.
OneCopy ==
    \A v, w \in alive : v # w /\ hooks[v] # None => hooks[v] # hooks[w]

\* One crash handler at a time restarts a plugin, and a load under way is the one
\* its plugin is registered with: shutdownPlugin, which finds the state by the
\* plugin's name, ends the right one.
OneRestart ==
    /\ \A j, k \in States :
          j # k /\ st[j].restart # "no" /\ st[k].restart # "no" => st[j].plugin # st[k].plugin
    /\ \A i \in States : AwaitsInit(i) => reg[st[i].plugin] = i

\* A plugin is restarted at most maxRestarts times in a row, unless it crashed in
\* a worker whose load had not succeeded.
RestartsAreBounded ==
    \A j \in States :
        st[j].restart = "backoff" /\ st[j].plugin \notin diedUnloaded =>
            streak[st[j].plugin] <= MaxRestarts

\* When the plugins have been disposed of no worker is left, unless shutdownAll
\* found a restart under way or a worker whose restart timed out.
StopLeavesNothing == stage = "stopped" /\ ~stragglers => alive = {}

\* What the manager promises of the workers that are there: each has one plugin, that
\* plugin's code and only its calls, a plugin one worker, and restarts come one at a time
\* and are bounded.
PluginsKeepWorkers ==
    /\ TypeOK
    /\ OneOwner /\ LoadedStays /\ CallsStayHome
    /\ OneCopy /\ OneRestart /\ RestartsAreBounded

\* What it promises from the first load to the disposal: no worker is left behind either.
WorkersAreAccountedFor == PluginsKeepWorkers /\ StopLeavesNothing

\* Every load and every call gets an answer or an error.
CallsEnd ==
    \A n \in 0..MaxCalls :
        (\E r \in rpcs : r.call = n) ~> ((\A r \in rpcs : r.call # n) \/ stage = "exited")

\* disposeAll ends, whatever the workers do.
StopEnds == (stage = "disposing") ~> (stage = "stopped")

-----------------------------------------------------------------------------
(* What the repository says and the code does not do. *)

\* "Maximum number of restarts before giving up."
RestartBudget ==
    \A j \in States : st[j].restart = "backoff" => streak[st[j].plugin] <= MaxRestarts
=============================================================================
