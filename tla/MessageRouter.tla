--------------------------- MODULE MessageRouter ---------------------------
(***************************************************************************)
(* Which messages between agents a daemon lets through                     *)
(* (apps/runner/src/daemon/message-router.ts), as operators on the set of  *)
(* accepted messages a router remembers.                                   *)
(*                                                                         *)
(* There is one daemon per agent: the sender's router checks canSendTo,    *)
(* the receiver's router checks freshness, replay, the envelope and        *)
(* canReceiveFrom.  A message's timestamp is its sender's wall clock.      *)
(*                                                                         *)
(* PruneEarly and MarkNothing are faulty forms of the definitions that     *)
(* follow them, for the mutation runs of the README.                       *)
(***************************************************************************)
EXTENDS Integers, Sequences

CONSTANTS
    Agents,
    CanSend,         \* CanSend[a]: the agents in a's canSendTo
    CanReceive,      \* CanReceive[a]: the agents in a's canReceiveFrom
    MaxAge,          \* MAX_MESSAGE_AGE_MS
    MaxSkew,         \* MAX_CLOCK_SKEW_MS
    MaxTraceDepth    \* MAX_TRACE_DEPTH

ASSUME RouterAssumption ==
    /\ CanSend \in [Agents -> SUBSET Agents]
    /\ CanReceive \in [Agents -> SUBSET Agents]
    /\ MaxAge \in Nat
    /\ MaxSkew \in Nat
    /\ MaxTraceDepth \in Nat

\* validateOutbound: the local source may send to the target.
Outbound(source, target) == target \in CanSend[source]

Stale(ts, now) == now - ts > MaxAge

PruneEarly(seen, now) == {e \in seen : now - e.ts < MaxAge}

\* pruneSeen: ids that a repeat could no longer bring back as fresh are dropped.
Prune(seen, now) == {e \in seen : ~Stale(e.ts, now)}

\* checkReplay, on the pruned ids: fresh, not from the future, not seen.
Timely(m, now) == ~Stale(m.ts, now) /\ m.ts - now <= MaxSkew

Replayed(seen, id) == \E e \in seen : e.id = id

\* checkEnvelopeLimits; the metadata limits concern sizes only.
EnvelopeFits(m) == m.depth <= MaxTraceDepth

\* validateInbound: what the receiver's daemon lets in.
Inbound(seen, id, m, now) ==
    /\ Timely(m, now)
    /\ ~Replayed(Prune(seen, now), id)
    /\ EnvelopeFits(m)
    /\ m.from \in CanReceive[m.to]

MarkNothing(seen, id, m, now) == Prune(seen, now)

\* markSeen, on acceptance only; the pruning happens either way.
MarkSeen(seen, id, m, now) == Prune(seen, now) \cup {[id |-> id, ts |-> m.ts]}
=============================================================================
