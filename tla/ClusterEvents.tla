---------------------------- MODULE ClusterEvents ----------------------------
(***************************************************************************)
(* Coordination events and service discovery between daemons: each one's    *)
(* event bridge and its registry of services, and the signed calls that     *)
(* reach them (apps/runner/src/daemon/event-bridge.ts,                      *)
(* global-service-registry.ts, comm-transport.ts and their callers in       *)
(* daemon-entry.ts).                                                        *)
(*                                                                         *)
(* A call has a connection of its own: calls overtake each other, and one   *)
(* that cannot connect or is answered too late is given up, before or after *)
(* it was handled.  Signatures verify; what a call carries is well-formed.  *)
(* The order in which a registry lists its registrations is left out.       *)
(***************************************************************************)
EXTENDS FiniteSets, Sequences, Functions

CONSTANTS
    Daemons,         \* a daemon is known by the agent it runs
    EventTypes,
    Services,
    InboxMax,        \* COMM_INBOX_MAX
    MaxCalls,        \* bound: events published and calls made
    MaxWire          \* bound: calls under way

VARIABLES
    subscriptions,   \* subscriptions[d][type]: the subscribers that d's bridge has
    whitelists,      \* whitelists[d][a]: the types a last subscribed to on d
    services,        \* services[d][name]: the registrations in d's registry
    wire,            \* calls under way
    coordinationInbox,
    made,            \* number of events published and of calls made
    asked,           \* history: <<d, a, type>> that reached d since it started
    narrowed         \* history: <<d, a>> that subscribed again, to fewer types

bridgeVars == <<subscriptions, whitelists, asked, narrowed>>
vars == <<bridgeVars, services, wire, coordinationInbox, made>>

Init ==
    /\ subscriptions = [d \in Daemons |-> [type \in EventTypes |-> {}]]
    /\ whitelists = [d \in Daemons |-> [a \in Daemons |-> {}]]
    /\ services = [d \in Daemons |-> [name \in Services |-> {}]]
    /\ wire = {}
    /\ coordinationInbox = [d \in Daemons |-> <<>>]
    /\ made = 0
    /\ asked = {} /\ narrowed = {}

Start(calls) ==
    /\ made < MaxCalls /\ Cardinality(wire \cup calls) <= MaxWire
    /\ made' = made + 1
    /\ wire' = wire \cup calls

-----------------------------------------------------------------------------
(* EventBridge *)

\* registerAgent: the whitelist is replaced, the subscriptions are added to.
RegisterAgent(d, a, types) ==
    /\ whitelists' = [whitelists EXCEPT ![d][a] = types]
    /\ subscriptions' = [subscriptions EXCEPT ![d] =
            [type \in EventTypes |-> IF type \in types THEN @[type] \cup {a} ELSE @[type]]]

\* A form of Unsubscribed that leaves the subscribers alone.
UnsubscribedNone(d, a) == subscriptions[d]

\* deregisterAgent: it leaves the types of its whitelist, and those only.
Unsubscribed(d, a) ==
    [type \in EventTypes |->
        subscriptions[d][type] \ (IF type \in whitelists[d][a] THEN {a} ELSE {})]

\* A form of Recipients that forgets who publishes.
RecipientsAll(d, type) == subscriptions[d][type]

\* publish: the subscribers without the publisher.
Recipients(d, type) == subscriptions[d][type] \ {d}

\* commPublish and the deliveries it starts; none is waited for.
Publish(d, type) ==
    LET event == [type |-> type, agent |-> d, n |-> made]
    IN  /\ Start([kind : {"event"}, to : Recipients(d, type), event : {event}])
        /\ UNCHANGED <<bridgeVars, services, coordinationInbox>>

\* The inbox keeps its newest InboxMax events.
Kept(inbox) ==
    IF Len(inbox) > InboxMax THEN SubSeq(inbox, Len(inbox) - InboxMax + 1, Len(inbox))
    ELSE inbox

-----------------------------------------------------------------------------
(* GlobalServiceRegistry *)

\* A form of Registered that leaves an earlier registration of the agent in place.
RegisteredBeside(entries, a, n) == entries \cup {[agent |-> a, n |-> n]}

Without(entries, a) == {e \in entries : e.agent # a}

\* register: it replaces what the agent has registered under the name.
Registered(entries, a, n) ==
    Without(entries, a) \cup {[agent |-> a, n |-> n]}

-----------------------------------------------------------------------------
(* Calls. *)

\* commSubscribeOutbound
SubscribeTo(a, d, types) ==
    /\ Start({[kind |-> "subscribe", to |-> d, from |-> a, types |-> types, n |-> made]})
    /\ UNCHANGED <<bridgeVars, services, coordinationInbox>>

\* commRegisterOutbound: a daemon registers itself, with its socket, on a hub.
RegisterOn(a, d, name) ==
    /\ Start({[kind |-> "register", to |-> d, from |-> a, name |-> name, n |-> made]})
    /\ UNCHANGED <<bridgeVars, services, coordinationInbox>>

\* commDeliverEvent
Deliver(call) ==
    /\ call.kind = "event"
    /\ coordinationInbox' =
            [coordinationInbox EXCEPT ![call.to] = Kept(Append(@, call.event))]
    /\ UNCHANGED <<bridgeVars, services>>

\* commSubscribeInbound, eventbridge.subscribe
Subscribe(call) ==
    /\ call.kind = "subscribe"
    /\ RegisterAgent(call.to, call.from, call.types)
    /\ asked' = asked \cup [d : {call.to}, a : {call.from}, type : call.types]
    /\ narrowed' = IF whitelists[call.to][call.from] \subseteq call.types THEN narrowed
                   ELSE narrowed \cup {<<call.to, call.from>>}
    /\ UNCHANGED <<services, coordinationInbox>>

\* commRegisterInbound, service.register
RegisterService(call) ==
    /\ call.kind = "register"
    /\ services' = [services EXCEPT ![call.to][call.name] = Registered(@, call.from, call.n)]
    /\ UNCHANGED <<bridgeVars, coordinationInbox>>

\* callPeer: the daemon that is called handles the call.
Handle(call) ==
    /\ wire' = wire \ {call}
    /\ UNCHANGED made
    /\ Deliver(call) \/ Subscribe(call) \/ RegisterService(call)

\* The call does not get through.
Fail(call) ==
    /\ wire' = wire \ {call}
    /\ UNCHANGED <<bridgeVars, services, coordinationInbox, made>>

\* The part of a child's stop or reaping that is about the bridge and the registry.
Deregister(d, a) ==
    /\ subscriptions' = [subscriptions EXCEPT ![d] = Unsubscribed(d, a)]
    /\ whitelists' = [whitelists EXCEPT ![d][a] = {}]
    /\ services' = [services EXCEPT ![d] =
            [name \in Services |-> Without(@[name], a)]]
    /\ UNCHANGED <<wire, coordinationInbox, made, asked, narrowed>>

\* A daemon ends and is started again: it remembers nothing, and its subscribers are
\* not told.
Restart(d) ==
    /\ subscriptions' = [subscriptions EXCEPT ![d] = [type \in EventTypes |-> {}]]
    /\ whitelists' = [whitelists EXCEPT ![d] = [a \in Daemons |-> {}]]
    /\ services' = [services EXCEPT ![d] = [name \in Services |-> {}]]
    /\ coordinationInbox' = [coordinationInbox EXCEPT ![d] = <<>>]
    /\ asked' = {x \in asked : x.d # d} /\ narrowed' = {x \in narrowed : x[1] # d}
    /\ UNCHANGED <<wire, made>>

Next ==
    \/ \E d \in Daemons :
        \/ \E type \in EventTypes : Publish(d, type)
        \/ \E a \in Daemons :
            \/ \E types \in SUBSET EventTypes \ {{}} : SubscribeTo(a, d, types)
            \/ \E name \in Services : RegisterOn(a, d, name)
            \/ a # d /\ Deregister(d, a)
        \/ Restart(d)
    \/ \E call \in wire : Handle(call) \/ Fail(call)

Spec == Init /\ [][Next]_vars

-----------------------------------------------------------------------------
(* Properties. *)

\* An event reaches an inbox at most once and only one of another daemon, however
\* often its reader subscribed and whatever was lost in between.
EventsArriveOnce ==
    \A d \in Daemons :
        /\ IsInjective(coordinationInbox[d]) /\ Len(coordinationInbox[d]) <= InboxMax
        /\ \A k \in DOMAIN coordinationInbox[d] : coordinationInbox[d][k].agent # d

\* A daemon that was deregistered gets no more events, except of types that it gave
\* up by subscribing again to fewer: nothing remembers those any longer.
DeregisteredAreForgotten ==
    \A d, a \in Daemons, type \in EventTypes :
        a \in subscriptions[d][type] =>
            /\ [d |-> d, a |-> a, type |-> type] \in asked
            /\ type \in whitelists[d][a] \/ <<d, a>> \in narrowed

\* A lookup names each provider once.
ProvidersAreDistinct ==
    \A d \in Daemons, name \in Services :
        \A e, f \in services[d][name] : e.agent = f.agent => e = f
=============================================================================
