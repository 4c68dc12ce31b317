----------------------------- MODULE SandboxBus -----------------------------
(***************************************************************************)
(* What passes between a pooled sandbox worker and the main thread: the     *)
(* event bus a plugin sees, which is a proxy at both ends, and the requests *)
(* its context turns into messages (packages/core/src/sandbox/rpc-handler.ts*)
(* and plugin-context-proxy.ts, the forwarding and shutdownPlugin of        *)
(* sandbox-manager.ts, release of worker-pool.ts, handleReset of            *)
(* plugin-worker-runner.ts).  The worker hosts one plugin after another.    *)
(*                                                                         *)
(* Messages keep their order in each direction.  What a request asks for    *)
(* (tools, guides, providers, sessions) is not told apart; guides are       *)
(* awaited one by one, so that responses need not keep the order of their   *)
(* requests.  Crashes of the worker are the module Sandbox's.               *)
(***************************************************************************)
EXTENDS Integers, FiniteSets, Sequences, Functions

CONSTANTS
    Types,           \* event types a plugin may name
    Blocked,         \* the type with a blocked prefix
    Tenants,         \* how many plugins the worker hosts, one after another
    RateLimit,       \* events a plugin may emit in a second
    MaxSubs, MaxEvents, MaxRequests, \* bounds
    MaxWire          \* bound: the plugin's messages on their way

Wildcard == "*"
Topics == Types \cup {Wildcard}
TimedOut == 0        \* in place of a response

VARIABLES
    tenant,          \* the plugin that owns the worker, in the order of owning it
    stage,           \* of the owner: "owned", "resetting", "released"
    subscriptions,   \* main: of the owner, by topic
    handlers,        \* worker: localHandlers of every proxy ever made there
    subs,            \* history: every subscription made, its topic, plugin and kind
    since,           \* history: how many events there were when main registered it
    toMain, toWorker,\* the messages on their way
    events,          \* history: the bus events, their types
    heard,           \* history: of each subscription, the events its handler got
    emitted,         \* events the owner emitted in the current second
    asked, pending,  \* requests made, and waited for
    awaiting,        \* main: requests whose answer is awaited
    answered         \* history: what each was settled with

mainVars == <<tenant, stage, subscriptions, since, emitted>>
workerVars == <<handlers, subs, heard>>
wire == <<toMain, toWorker>>
requestVars == <<asked, pending, awaiting, answered>>
vars == <<mainVars, workerVars, wire, events, requestVars>>

Init ==
    /\ tenant = 1 /\ stage = "owned"
    /\ subscriptions = [t \in Topics |-> {}]
    /\ handlers = {} /\ subs = <<>> /\ since = <<>>
    /\ toMain = <<>> /\ toWorker = <<>>
    /\ events = <<>> /\ heard = <<>> /\ emitted = 0
    /\ asked = 0 /\ pending = {} /\ awaiting = {} /\ answered = <<>>

Ids == DOMAIN subs

-----------------------------------------------------------------------------
(* The plugin's side. *)

\* on, onAny and once.
On(topic, once) ==
    /\ stage = "owned" /\ Len(subs) < MaxSubs /\ Len(toMain) < MaxWire
    /\ subs' = Append(subs, [topic |-> topic, plugin |-> tenant, once |-> once])
    /\ heard' = Append(heard, <<>>)
    /\ since' = Append(since, -1)
    /\ handlers' = handlers \cup {Len(subs) + 1}
    /\ toMain' = Append(toMain, [kind |-> "subscribe", id |-> Len(subs) + 1])
    /\ UNCHANGED <<tenant, stage, subscriptions, emitted, toWorker, events, requestVars>>

\* The cleanup function on returned; it may be called again.
Off(id) ==
    /\ stage = "owned" /\ Len(toMain) < MaxWire
    /\ subs[id].plugin = tenant /\ id \in handlers
    /\ handlers' = handlers \ {id}
    /\ toMain' = Append(toMain, [kind |-> "unsubscribe", id |-> id])
    /\ UNCHANGED <<mainVars, subs, heard, toWorker, events, requestVars>>

Emit(type) ==
    /\ stage = "owned" /\ Len(toMain) < MaxWire /\ Len(events) < MaxEvents
    /\ toMain' = Append(toMain, [kind |-> "emit", type |-> type])
    /\ UNCHANGED <<mainVars, workerVars, toWorker, events, requestVars>>

\* rpcRequest: a listener for the response, a timer and the message.
Request ==
    /\ stage = "owned" /\ asked < MaxRequests /\ Len(toMain) < MaxWire
    /\ asked' = asked + 1
    /\ pending' = pending \cup {asked + 1}
    /\ answered' = Append(answered, {})
    /\ toMain' = Append(toMain, [kind |-> "request", id |-> asked + 1])
    /\ UNCHANGED <<mainVars, workerVars, toWorker, events, awaiting>>

\* Its timer; a response that comes later finds no listener.
RequestTimeout(r) ==
    /\ r \in pending
    /\ pending' = pending \ {r}
    /\ answered' = [answered EXCEPT ![r] = @ \cup {TimedOut}]
    /\ UNCHANGED <<mainVars, workerVars, wire, events, asked, awaiting>>

Matches(id, type) == subs[id].topic \in {type, Wildcard}

\* The proxies listen in the order they were made, and each calls the handlers of the
\* type before those of all types, both in the order of their subscriptions.
CalledBefore(i, j) ==
    LET any(id) == subs[id].topic = Wildcard
    IN  \/ subs[i].plugin < subs[j].plugin
        \/ /\ subs[i].plugin = subs[j].plugin
           /\ (any(j) /\ ~any(i)) \/ (any(i) = any(j) /\ i < j)

\* The worker's message listeners: those of all proxies call their handlers, once
\* handlers unsubscribe first; a response goes to the request it answers.
WorkerReceive ==
    /\ toWorker # <<>>
    /\ toWorker' = Tail(toWorker)
    /\ LET m == Head(toWorker)
           hit == {id \in handlers : m.kind = "event" /\ Matches(id, m.type)}
           spent == {id \in hit : subs[id].once}
       IN  /\ heard' = [id \in Ids |-> IF id \in hit THEN Append(heard[id], m.event)
                                     ELSE heard[id]]
           /\ handlers' = handlers \ spent
           /\ \E order \in [1..Cardinality(spent) -> spent] :
                /\ \A j, k \in DOMAIN order : j < k => CalledBefore(order[j], order[k])
                /\ toMain' = toMain \o (IF m.kind = "reset"
                                        THEN <<[kind |-> "resetComplete"]>>
                                        ELSE [k \in DOMAIN order |->
                                                [kind |-> "unsubscribe", id |-> order[k]]])
           /\ IF m.kind = "response" /\ m.id \in pending
              THEN /\ pending' = pending \ {m.id}
                   /\ answered' = [answered EXCEPT ![m.id] = @ \cup {m.of}]
              ELSE UNCHANGED <<pending, answered>>
    /\ UNCHANGED <<mainVars, subs, events, asked, awaiting>>

-----------------------------------------------------------------------------
(* The main thread. *)

\* The bus listener of the manager: one message if the owner subscribed to the type or
\* to any.
Forwarded(subscribed, type) ==
    IF stage # "released" /\ (subscribed[type] # {} \/ subscribed[Wildcard] # {})
    THEN <<[kind |-> "event", type |-> type, event |-> Len(events) + 1]>> ELSE <<>>

\* The core or another plugin emits an event.
BusEvent(type) ==
    /\ Len(events) < MaxEvents
    /\ events' = Append(events, type)
    /\ toWorker' = toWorker \o Forwarded(subscriptions, type)
    /\ UNCHANGED <<mainVars, workerVars, toMain, requestVars>>

\* A form of Unsubscribed that forgets the topic with the first that leaves it.
UnsubscribedAll(id) == [subscriptions EXCEPT ![subs[id].topic] = {}]

Unsubscribed(id) == [subscriptions EXCEPT ![subs[id].topic] = @ \ {id}]

\* The RPC handler of the owner, which goes on while the worker resets; a worker that
\* is released has none.  A blocked type is dropped, and so is an event past the limit.
MainReceive ==
    /\ toMain # <<>> /\ Head(toMain).kind # "resetComplete"
    /\ toMain' = Tail(toMain)
    /\ LET m == Head(toMain)
           handled(kind) == stage # "released" /\ m.kind = kind
           goes == handled("emit") /\ m.type # Blocked /\ emitted < RateLimit
       IN  /\ goes => Len(events) < MaxEvents
           /\ subscriptions' =
                CASE handled("subscribe") ->
                       [subscriptions EXCEPT ![subs[m.id].topic] = @ \cup {m.id}]
                  [] handled("unsubscribe") -> Unsubscribed(m.id)
                  [] OTHER -> subscriptions
           /\ since' = IF handled("subscribe") /\ stage = "owned"
                       THEN [since EXCEPT ![m.id] = Len(events)] ELSE since
           /\ emitted' = IF goes THEN emitted + 1 ELSE emitted
           /\ events' = IF goes THEN Append(events, m.type) ELSE events
           /\ toWorker' = IF goes THEN toWorker \o Forwarded(subscriptions, m.type)
                          ELSE toWorker
           /\ awaiting' = IF handled("request") THEN awaiting \cup {m.id} ELSE awaiting
    /\ UNCHANGED <<tenant, stage, workerVars, asked, pending, answered>>

\* A form of Response that answers what was asked last.
ResponseToLast(r) == [kind |-> "response", id |-> asked, of |-> r]

Response(r) == [kind |-> "response", id |-> r, of |-> r]

\* What r asked for was awaited (a guide's prompt may be); it is sent whoever owns the
\* worker by then.
Respond(r) ==
    /\ awaiting' = awaiting \ {r}
    /\ toWorker' = Append(toWorker, Response(r))
    /\ UNCHANGED <<mainVars, workerVars, toMain, events, asked, pending, answered>>

\* The limiter's second is over.
NextSecond ==
    /\ emitted > 0
    /\ emitted' = 0
    /\ UNCHANGED <<tenant, stage, subscriptions, since, workerVars, wire, events, requestVars>>

\* shutdownPlugin up to the RESET, and after its acknowledgement or its timeout.
Release ==
    /\ stage = "owned"
    /\ stage' = "resetting"
    /\ subscriptions' = [t \in Topics |-> {}]
    /\ toWorker' = Append(toWorker, [kind |-> "reset"])
    /\ UNCHANGED <<tenant, since, emitted, workerVars, toMain, events, requestVars>>

Released ==
    /\ stage = "resetting"
    /\ stage' = "released"
    /\ subscriptions' = [t \in Topics |-> {}]
    /\ UNCHANGED <<tenant, since, emitted, workerVars, wire, events, requestVars>>

\* The listener of release, or nobody once it has timed out.
ResetComplete ==
    /\ toMain # <<>> /\ Head(toMain).kind = "resetComplete"
    /\ toMain' = Tail(toMain)
    /\ IF stage = "resetting"
       THEN stage' = "released" /\ subscriptions' = [t \in Topics |-> {}]
       ELSE UNCHANGED <<stage, subscriptions>>
    /\ UNCHANGED <<tenant, since, emitted, workerVars, toWorker, events, requestVars>>

\* Another plugin acquires the worker: a fresh state, and a proxy of its own beside those
\* the worker made before.  Its rate is counted anew.
Acquire ==
    /\ stage = "released" /\ tenant < Tenants
    /\ stage' = "owned" /\ tenant' = tenant + 1 /\ emitted' = 0
    /\ UNCHANGED <<subscriptions, since, workerVars, wire, events, requestVars>>

Next ==
    \/ \E t \in Topics, once \in BOOLEAN : On(t, once)
    \/ \E id \in Ids : Off(id)
    \/ \E t \in Types \cup {Blocked} : Emit(t)
    \/ Request \/ \E r \in pending : RequestTimeout(r)
    \/ WorkerReceive
    \/ \E t \in Types : BusEvent(t)
    \/ MainReceive \/ \E r \in awaiting : Respond(r)
    \/ NextSecond \/ Release \/ Released \/ ResetComplete \/ Acquire

-----------------------------------------------------------------------------
(* Properties. *)

\* Every variable of the two ends of the bus has its type.
TypeOK ==
    /\ tenant \in 1..Tenants /\ stage \in {"owned", "resetting", "released"}
    /\ \A t \in Topics : subscriptions[t] \subseteq Ids
    /\ handlers \subseteq Ids /\ DOMAIN heard = Ids /\ DOMAIN since = Ids
    /\ events \in Seq(Types) /\ emitted \in Nat
    /\ asked \in 0..MaxRequests /\ pending \cup awaiting \subseteq 1..asked
    /\ DOMAIN answered = 1..asked

OnTheWay(id) == {toWorker[k].event : k \in {j \in 1..Len(toWorker) :
                   toWorker[j].kind = "event" /\ Matches(id, toWorker[j].type)}}

\* A handler hears events of its topic, in their order, each once (a once handler one),
\* and misses none after the main thread registered it: what it has not heard is on its
\* way (forwarding of sandbox-manager.ts, the dispatch of plugin-context-proxy.ts).
HandlersHearAll ==
    \A id \in Ids :
      /\ \A j, k \in 1..Len(heard[id]) : j < k => heard[id][j] < heard[id][k]
      /\ \A k \in 1..Len(heard[id]) : Matches(id, events[heard[id][k]])
      /\ subs[id].once => Len(heard[id]) <= 1
      /\ id \in handlers /\ since[id] >= 0 /\ stage = "owned" /\ subs[id].plugin = tenant =>
           \A n \in (since[id] + 1)..Len(events) :
             Matches(id, events[n]) => n \in Range(heard[id]) \cup OnTheWay(id)

\* A request is settled once, by its timer or by the response to it, though responses
\* come out of order and after their timers (rpcRequest, the handlers of rpc-handler.ts).
AnsweredByTheirs ==
    \A r \in 1..asked :
      /\ Cardinality(answered[r]) = (IF r \in pending THEN 0 ELSE 1)
      /\ answered[r] \subseteq {r, TimedOut}

\* Once a worker was reset, the handlers of the plugin it hosted hear nothing more
\* (handleReset: "clear plugin state and return to idle").
ResetForgets ==
    [][\A id \in Ids : stage = "owned" /\ subs[id].plugin < tenant
                       => heard'[id] = heard[id]]_vars
=============================================================================
