---------------------------- MODULE ChannelParts ----------------------------
(***************************************************************************)
(* What connects clients, daemons and channels, in one specification of    *)
(* components that share no state, as in CoreParts.                         *)
(***************************************************************************)
EXTENDS Integers, Sequences, FiniteSets

CONSTANT NoOne    \* no session, no agent, no process

VARIABLE link     \* the component that moves

\* The clients of a daemon.
CONSTANTS Clients, Ids, Default, OnDisk, ReplayCount, HighWater, MaxSaid
VARIABLES live, history, said, origin, socket, subs, slow, ask, loading, out, at,
          shown, owed
clientsVars == <<live, history, said, origin, socket, subs, slow, ask, loading, out,
                 at, shown, owed>>
Attachment == INSTANCE AttachedClients WITH None <- NoOne

\* The daemons of a cluster, their coordination events and services.
CONSTANTS Members, EventTypes, Services, InboxMax, MaxCoordination, MaxWire
VARIABLES subscriptions, whitelists, services, wire, coordinationInbox, made, asked,
          narrowed
clusterVars == <<subscriptions, whitelists, services, wire, coordinationInbox, made,
                 asked, narrowed>>
Cluster == INSTANCE ClusterEvents WITH Daemons <- Members, MaxCalls <- MaxCoordination

\* The channel application's registry of agents.
CONSTANTS Agents, MissThreshold, MaxRegistryOps, MaxAtOnce
VARIABLES agents, readers, writer, waitQueue, ops, channel, opsMade, sections,
          applied
hubVars == <<agents, readers, writer, waitQueue, ops, channel, opsMade, sections,
             applied>>
Hub == INSTANCE ChannelHub WITH NoAgent <- NoOne, MaxOps <- MaxRegistryOps

\* A composite of channels, and the process behind a forked one.
CONSTANTS Kids, MaxConnects, MaxSends, MaxRefusals
VARIABLES strategy, status, kids, call, overlap, sends, took, calls, refusals
compositeVars == <<strategy, status, kids, call, overlap, sends, took, calls,
                   refusals>>
Composite == INSTANCE CompositeChannel WITH
    MaxCalls <- MaxConnects, MaxTrouble <- MaxRefusals, trouble <- refusals

CONSTANTS ForkIds, MaxEvents, MaxTerminations
VARIABLES forks, child, ready, waiting, heard, outlived, pipe, got, events,
          terminations
forkedVars == <<forks, child, ready, waiting, heard, outlived, pipe, got, events,
                terminations>>
Forked == INSTANCE ChannelIpc WITH
    None <- NoOne, Procs <- ForkIds, MaxCalls <- MaxTerminations, procs <- forks, wire <- pipe,
    calls <- terminations

\* Both rate limiters.
CONSTANTS Targets, AgentLimit, TargetLimit, LimitWindow, MaxNow, MaxChecks
VARIABLES now, stamps, buckets, inputs, messages
limitsVars == <<now, stamps, buckets, inputs, messages>>
Limiters == INSTANCE RateLimits WITH Window <- LimitWindow

\* What the theorems ask of the constants: the default session and the persisted ones have
\* ids, NoOne is none of the ids, bounds and limits are numbers, a window lasts, a channel
\* has finitely many agents, and a composite has children (its constructor refuses none).
ASSUME ChannelAssumption ==
    /\ Default \in Ids /\ OnDisk \subseteq Ids /\ ReplayCount \in Nat
    /\ NoOne \notin Ids /\ NoOne \notin ForkIds
    /\ InboxMax \in Nat /\ IsFiniteSet(Agents)
    /\ Kids \in Nat \ {0} /\ MaxSends \in Nat
    /\ AgentLimit \in Nat /\ TargetLimit \in Nat /\ LimitWindow \in Nat \ {0}
    /\ MaxNow \in Nat /\ "agent" \notin Targets

-----------------------------------------------------------------------------
LinksInit ==
    /\ link \in {"clients", "cluster", "hub", "composite", "forked", "limits"}
    /\ Attachment!Init /\ Cluster!Init /\ Hub!Init
    /\ Composite!Init /\ Forked!Init /\ Limiters!Init
    /\ link # "composite" => strategy = "fallback"

LinksNext ==
    \/ link = "clients" /\ Attachment!Next
       /\ UNCHANGED <<link, clusterVars, hubVars, compositeVars,
                      forkedVars, limitsVars>>
    \/ link = "cluster" /\ Cluster!Next
       /\ UNCHANGED <<link, clientsVars, hubVars, compositeVars,
                      forkedVars, limitsVars>>
    \/ link = "hub" /\ Hub!Next
       /\ UNCHANGED <<link, clientsVars, clusterVars, compositeVars,
                      forkedVars, limitsVars>>
    \/ link = "composite" /\ Composite!Next
       /\ UNCHANGED <<link, clientsVars, clusterVars, hubVars,
                      forkedVars, limitsVars>>
    \/ link = "forked" /\ Forked!Next
       /\ UNCHANGED <<link, clientsVars, clusterVars, hubVars,
                      compositeVars, limitsVars>>
    \/ link = "limits" /\ Limiters!Next
       /\ UNCHANGED <<link, clientsVars, clusterVars, hubVars,
                      compositeVars, forkedVars>>

linkVars == <<link, clientsVars, clusterVars, hubVars,
             compositeVars, forkedVars, limitsVars>>
LinksSpec == LinksInit /\ [][LinksNext]_linkVars

-----------------------------------------------------------------------------
\* An attached client is told every message of its session, in order and once, and is
\* forgotten when it is gone; a coordination event comes once to whoever asked for it,
\* and a daemon that left the cluster is nobody's subscriber or provider.
SubscribersGetTheirs ==
    /\ link = "clients" => Attachment!Gapless /\ Attachment!GoneAreForgotten
    /\ link = "cluster" =>
         /\ Cluster!EventsArriveOnce /\ Cluster!DeregisteredAreForgotten
         /\ Cluster!ProvidersAreDistinct

\* The registry's lock serves everyone who waits, an agent's entry is changed by its own
\* operations alone and by the daemon's events in their order; a composite says of its
\* children what is so; a forked channel gets nothing before it said READY.
ChannelsAreOrderly ==
    /\ [](link = "hub" => Hub!LockServesAll)
    /\ Hub!EntriesStayOwn
    /\ Hub!EventsApplyInOrder
    /\ [](link = "composite" => Composite!TypeOK /\ Composite!CompositeIsTrue)
    /\ [](link = "forked" => Forked!TypeOK /\ Forked!ReadyComesFirst)

\* Over any window the sliding limiter lets through what its limits allow and refuses
\* only what they do not; the token buckets let through a burst and the refill.
LimitsHold ==
    link = "limits" => Limiters!SlidingIsExact /\ Limiters!BucketsAreBounded
=============================================================================
