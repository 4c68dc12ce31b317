-------------------------- MODULE EventQueueClient --------------------------
(***************************************************************************)
(* Any producers and one consumer on an event queue.  As in the program,   *)
(* where the execution loop is the only one to pull, the consumer pulls    *)
(* again only after it has received the previous event.                    *)
(***************************************************************************)
EXTENDS EventQueue

CONSTANTS
    Events,      \* what producers push
    MaxPushes    \* bound: how many pushes a behaviour may hold

ASSUME MaxPushesAssumption == MaxPushes \in Nat

VARIABLES
    consumer,    \* "ready": about to pull, "pulled": its pull() is pending
    accepted,    \* history: every event pushed and not cleared, in order
    received,    \* history: the events the consumer got, in order
    pushes       \* number of pushes so far

vars == <<buffer, resolver, handed, consumer, accepted, received, pushes>>

Init ==
    /\ QueueInit
    /\ consumer = "ready"
    /\ accepted = <<>>
    /\ received = <<>>
    /\ pushes = 0

Push(e) ==
    /\ pushes < MaxPushes
    /\ pushes' = pushes + 1
    /\ Enqueue(e)
    /\ accepted' = Append(accepted, e)
    /\ UNCHANGED <<consumer, received>>

Pull ==
    /\ consumer = "ready"
    /\ consumer' = "pulled"
    /\ Dequeue
    /\ UNCHANGED <<accepted, received, pushes>>

\* The continuation of the consumer's `await queue.pull()`.
Receive ==
    /\ consumer = "pulled"
    /\ handed # <<>>
    /\ received' = Append(received, Head(handed))
    /\ handed' = <<>>
    /\ consumer' = "ready"
    /\ UNCHANGED <<buffer, resolver, accepted, pushes>>

\* A caller clears the queue: what it dropped is no longer owed to the consumer.
Clear ==
    /\ Discard
    /\ accepted' = received \o handed
    /\ UNCHANGED <<consumer, received, pushes>>

Next ==
    \/ \E e \in Events : Push(e)
    \/ Pull
    \/ Receive
    \/ Clear

\* The runtime runs ready microtasks and the loop always pulls again.
Fairness == WF_vars(Pull) /\ WF_vars(Receive)

Spec == Init /\ [][Next]_vars /\ Fairness

-----------------------------------------------------------------------------
TypeOK ==
    /\ buffer \in Seq(Events)
    /\ resolver \in BOOLEAN
    /\ handed \in Seq(Events) /\ Len(handed) <= 1
    /\ consumer \in {"ready", "pulled"}
    /\ accepted \in Seq(Events)
    /\ received \in Seq(Events)
    /\ pushes \in 0..MaxPushes

\* Nothing is lost, duplicated or reordered between push and pull: what the
\* consumer got, then what is on its way, then what is buffered, is exactly
\* what was pushed and not cleared.
Fifo == accepted = received \o handed \o buffer

\* No lost wake-up: a waiting resolver and an available event never coexist
\* (push and pull would both have had to miss the other), and an event is
\* handed over only to a consumer that asked for one.
NoLostWakeup ==
    /\ resolver => consumer = "pulled" /\ buffer = <<>> /\ handed = <<>>
    /\ handed # <<>> => consumer = "pulled"
    /\ consumer = "ready" => ~resolver

\* A consumer nobody can wake: its promise is pending and its resolver gone.
Stranded == consumer = "pulled" /\ ~resolver /\ handed = <<>>

\* Only clear() leaves a consumer stranded: neither push nor pull takes the
\* resolver away from a waiting consumer for good.
OnlyClearStrands == [][Stranded' => Stranded \/ Clear]_vars
=============================================================================
