--------------------------- MODULE PluginLoading ---------------------------
(***************************************************************************)
(* An agent's plugins from their manifests to their end: the order they     *)
(* are loaded in, what their hooks register, and the start and the stop of  *)
(* what they registered (packages/core/src/infrastructure/plugin-loader.ts, *)
(* the registries beside it, and loadPlugin, loadPlugins, start and stop of *)
(* packages/core/src/agents/agent-core.ts).                                 *)
(*                                                                         *)
(* A batch (loadPlugins) is sorted by its dependencies; the runner's own    *)
(* start loads one by one, in the order of the configuration, and looks at  *)
(* no dependency.  A manifest matters to the first and the hooks to both;   *)
(* a user interface is started and stopped like a listener.                 *)
(***************************************************************************)
EXTENDS Integers, Sequences, FiniteSetsExt

CONSTANTS
    Count,           \* how many plugins the configuration lists
    Services,
    HookSets,        \* what a factory may return, sets of Kinds
    None

Plugins == 1..Count  \* a plugin is its place in the configuration
Ghost == 0           \* a name no plugin of the batch has
Kinds == {"tool", "guide", "listener", "manager"}
Plain == {"tool", "manager"}

Manifest ==
    [services: SUBSET Services, serviceDependencies: SUBSET Services,
     dependencies: {{}} \cup {{n} : n \in Plugins \cup {Ghost}}]
NoManifest == [services |-> {}, serviceDependencies |-> {}, dependencies |-> {}]

VARIABLES
    batch,           \* loadPlugins was called, and not loadPlugin for each
    manifest, hooks, \* of each plugin
    phase,
    toLoad,          \* the plugins still to load, in order
    order,           \* what the sort returned
    loaded,          \* loadedHooks
    skipped,         \* skippedPlugins
    tool, guide, contextManager,  \* who registered the tool and the guide that all
                                  \* plugins name alike, and the context manager
    listeners,       \* the listener registry
    at,              \* the next listener to start or stop
    running,         \* the listeners that run
    disposed         \* the plugins whose dispose was called, in order

manifests == <<batch, manifest, hooks>>
registered == <<tool, guide, contextManager, listeners>>
loading == <<toLoad, order, loaded, skipped, registered>>
life == <<at, running, disposed>>
vars == <<manifests, phase, loading, life>>

Init ==
    /\ \/ /\ batch = TRUE
          /\ manifest \in [Plugins -> Manifest]
          /\ hooks = [p \in Plugins |-> Plain]
          /\ phase = "sorting" /\ toLoad = <<>>
       \/ /\ batch = FALSE
          /\ manifest = [p \in Plugins |-> NoManifest]
          /\ hooks \in [Plugins -> HookSets]
          /\ phase = "loading" /\ toLoad = [p \in Plugins |-> p]
    /\ order = <<>> /\ loaded = <<>> /\ skipped = {}
    /\ tool = None /\ guide = None /\ contextManager = None /\ listeners = <<>>
    /\ at = 1 /\ running = {} /\ disposed = <<>>

-----------------------------------------------------------------------------
(* topologicalSort. *)

\* serviceToProvider: of the plugins that provide s, the last.
Provider(s) ==
    LET them == {p \in Plugins : s \in manifest[p].services}
    IN  IF them = {} THEN None ELSE Max(them)

Provided(p) == {s \in manifest[p].serviceDependencies : Provider(s) # None}
NamedDeps(p) == manifest[p].dependencies \cap Plugins

\* What p is sorted after ...
DependencyGraph == [p \in Plugins |-> {Provider(s) : s \in Provided(p)} \cup NamedDeps(p)]

\* ... and how many dependencies were counted for it, which is more when two of them
\* are the same plugin.
InDegree == [p \in Plugins |-> Cardinality(Provided(p)) + Cardinality(NamedDeps(p))]

\* A form of First with the comparison the other way round.
LastOf(queue) == Max(queue)

\* The queue is sorted by the place in the configuration before each shift.
First(queue) == Min(queue)

\* Kahn's algorithm begins with the plugins that no dependency was counted for.
KahnStart ==
    [queue |-> {p \in Plugins : InDegree[p] = 0}, sorted |-> <<>>,
     graph |-> DependencyGraph, degree |-> InDegree]

\* One pass of its loop: the first of the queue is sorted, and those that wait for
\* nothing else are queued.
KahnStep(s) ==
    LET current == First(s.queue)
        theirs == {p \in Plugins : current \in s.graph[p]}
        degree == [p \in Plugins |->
                     IF p \in theirs THEN s.degree[p] - 1 ELSE s.degree[p]]
    IN  IF s.queue = {} THEN s
        ELSE [queue |-> (s.queue \ {current}) \cup {p \in theirs : degree[p] = 0},
              sorted |-> Append(s.sorted, current),
              graph |-> [p \in Plugins |-> s.graph[p] \ {current}],
              degree |-> degree]

KahnAfter[k \in 0..Count] == IF k = 0 THEN KahnStart ELSE KahnStep(KahnAfter[k - 1])
Kahn == KahnAfter[Count].sorted

\* loadAll begins: what could not be sorted is a circular dependency, and nothing loads.
Sort ==
    /\ phase = "sorting"
    /\ IF Len(Kahn) < Count
       THEN phase' = "refused" /\ UNCHANGED <<toLoad, order>>
       ELSE phase' = "loading" /\ toLoad' = Kahn /\ order' = Kahn
    /\ UNCHANGED <<manifests, loaded, skipped, registered, life>>

-----------------------------------------------------------------------------
(* Loading. *)

Loaded == Range(loaded)

\* A form of Missing that takes every plugin of the batch for loaded.
MissingFromBatch(p) == manifest[p].dependencies \ Plugins

Missing(p) == manifest[p].dependencies \ Loaded

\* loadAll skips a plugin that names one which is not loaded.
Skip ==
    /\ phase = "loading" /\ toLoad # <<>> /\ Missing(Head(toLoad)) # {}
    /\ skipped' = skipped \cup {Head(toLoad)}
    /\ toLoad' = Tail(toLoad)
    /\ UNCHANGED <<manifests, phase, order, loaded, registered, life>>

\* load once the factory has returned: a tool replaces the one of its name, a guide
\* whose name is taken throws, and what was registered before it stays.
Load ==
    /\ phase = "loading" /\ toLoad # <<>> /\ Missing(Head(toLoad)) = {}
    /\ LET p == Head(toLoad)
           has(kind) == kind \in hooks[p]
           throws == has("guide") /\ guide # None
       IN  /\ tool' = IF has("tool") THEN p ELSE tool
           /\ listeners' = IF has("listener") THEN Append(listeners, p) ELSE listeners
           /\ IF throws
              THEN phase' = "failed" /\ UNCHANGED <<guide, contextManager, loaded, toLoad>>
              ELSE /\ guide' = IF has("guide") THEN p ELSE guide
                   /\ contextManager' = IF has("manager") THEN p ELSE contextManager
                   /\ loaded' = Append(loaded, p)
                   /\ toLoad' = Tail(toLoad)
                   /\ UNCHANGED phase
    /\ UNCHANGED <<manifests, order, skipped, life>>

\* The signature does not verify, or the factory (or the sandbox) throws: the call to
\* load, and with it the whole batch, fails.
LoadFails ==
    /\ phase = "loading" /\ toLoad # <<>> /\ Missing(Head(toLoad)) = {}
    /\ phase' = "failed"
    /\ UNCHANGED <<manifests, loading, life>>

-----------------------------------------------------------------------------
(* start and stop. *)

\* start needs a context manager, and starts the loop before any listener.
Start ==
    /\ phase = "loading" /\ toLoad = <<>>
    /\ phase' = IF contextManager = None THEN "failed" ELSE "starting"
    /\ UNCHANGED <<manifests, loading, life>>

\* await listener.start(): the first that throws ends the start.
StartListener ==
    /\ phase = "starting" /\ at <= Len(listeners)
    /\ \/ at' = at + 1 /\ running' = running \cup {listeners[at]} /\ UNCHANGED phase
       \/ phase' = "failed" /\ UNCHANGED <<at, running>>
    /\ UNCHANGED <<manifests, loading, disposed>>

Started ==
    /\ phase = "starting" /\ at > Len(listeners)
    /\ phase' = "running" /\ at' = 1
    /\ UNCHANGED <<manifests, loading, running, disposed>>

Stop ==
    /\ phase = "running"
    /\ phase' = "stopping"
    /\ UNCHANGED <<manifests, loading, life>>

\* A form of Stopped that goes on to the next listener when one throws.
StoppedRegardless(thrown) == phase' = phase /\ at' = at + 1

\* What becomes of stop once a listener's has returned, or thrown.
Stopped(thrown) ==
    IF thrown THEN phase' = "halted" /\ UNCHANGED at
    ELSE UNCHANGED phase /\ at' = at + 1

\* await listener.stop(): the first that throws ends the stop.
StopListener ==
    /\ phase = "stopping" /\ at <= Len(listeners)
    /\ \E thrown \in BOOLEAN :
         /\ running' = IF thrown THEN running ELSE running \ {listeners[at]}
         /\ Stopped(thrown)
    /\ UNCHANGED <<manifests, loading, disposed>>

\* disposeAll, in the order of loading; what a dispose throws is caught.
Dispose ==
    /\ phase = "stopping" /\ at > Len(listeners) /\ Len(disposed) < Len(loaded)
    /\ disposed' = Append(disposed, loaded[Len(disposed) + 1])
    /\ UNCHANGED <<manifests, phase, loading, at, running>>

Disposed ==
    /\ phase = "stopping" /\ at > Len(listeners) /\ Len(disposed) = Len(loaded)
    /\ phase' = "stopped" /\ loaded' = <<>>
    /\ UNCHANGED <<manifests, toLoad, order, skipped, registered, life>>

Next ==
    \/ Sort \/ Skip \/ Load \/ LoadFails
    \/ Start \/ StartListener \/ Started
    \/ Stop \/ StopListener \/ Dispose \/ Disposed

-----------------------------------------------------------------------------
(* Properties. *)

\* Every variable of the loader and of the agent's start and stop has its type.
TypeOK ==
    /\ phase \in {"sorting", "refused", "loading", "failed", "starting", "running",
                  "stopping", "halted", "stopped"}
    /\ {tool, guide, contextManager} \subseteq Plugins \cup {None}
    /\ \A s \in {toLoad, order, loaded, listeners, disposed} : s \in Seq(Plugins)
    /\ skipped \subseteq Plugins /\ running \subseteq Plugins
    /\ at \in 1..(Len(listeners) + 1)

\* The orders of all plugins in which each follows those it depends on.
Extensions ==
    {s \in [Plugins -> Plugins] :
       \A i, j \in Plugins : /\ i # j => s[i] # s[j]
                             /\ s[j] \in DependencyGraph[s[i]] => j < i}
Before(s, t) ==
    \E k \in Plugins : s[k] < t[k] /\ \A j \in 1..(k - 1) : s[j] = t[j]

\* The sort returns, of all the orders in which every plugin follows those it depends
\* on, the one that keeps closest to the configuration (topologicalSort: "For plugins
\* without serviceDependencies, preserve config order").
OrderIsLeast ==
    order # <<>> => /\ order \in Extensions
                    /\ \A s \in Extensions : s = order \/ Before(order, s)

\* No plugin is loaded by a batch while one that it names, directly or through others,
\* is absent or was itself skipped (loadAll: "hard error -> skip").
NamedOnesAreLoaded ==
    batch /\ phase # "stopped" =>
      /\ \A k \in 1..Len(loaded) :
           manifest[loaded[k]].dependencies \subseteq {loaded[j] : j \in 1..(k - 1)}
      /\ skipped \cap Loaded = {}

\* A plugin is disposed once, in the order of loading, and never while one of the
\* listeners that plugins registered still runs: a listener that would not stop keeps
\* all plugins (stop of agent-core.ts awaits every listener first).
DisposedAtRest ==
    /\ disposed # <<>> => running = {}
    /\ \A i, j \in 1..Len(disposed) : i # j => disposed[i] # disposed[j]
    /\ phase = "stopping" => disposed = SubSeq(loaded, 1, Len(disposed))

\* A set of plugins each of which depends on one of the set is what makes a dependency
\* circular.
Cyclic ==
    \E s \in SUBSET Plugins :
      s # {} /\ \A p \in s : DependencyGraph[p] \cap s # {}

\* A batch is refused for a circular dependency only when it has one (topologicalSort:
\* "@throws PluginLoadError if circular dependency detected").
OnlyCyclesAreRefused == phase = "refused" => Cyclic

\* A batch is refused only when it has a circular dependency, or a plugin two of whose
\* dependencies are the same one, counted twice and taken off once: the sort gets to
\* the end of all others.
RefusedForReason ==
    phase = "refused" =>
        \/ Cyclic
        \/ \E p \in Plugins : InDegree[p] # Cardinality(DependencyGraph[p])
=============================================================================
