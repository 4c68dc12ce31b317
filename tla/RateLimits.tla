----------------------------- MODULE RateLimits -----------------------------
(***************************************************************************)
(* The two rate limiters: the sliding windows before a daemon's inputs      *)
(* (apps/runner/src/daemon/rate-limiter.ts, handleInput of daemon-entry.ts) *)
(* and the token buckets of a channel (apps/channel/src/rate-limiter.ts).   *)
(* Each limits an agent and, apart from that, each of its targets.          *)
(*                                                                         *)
(* One agent's calls: another's are counted apart.  The limiters live in    *)
(* different processes, a behaviour uses one of them, and the clock         *)
(* (Date.now) is not set back.                                              *)
(***************************************************************************)
EXTENDS Integers, FiniteSets, Sequences

CONSTANTS
    Targets,         \* the sessions of the inputs, the targets of the messages
    AgentLimit, TargetLimit,
    Window,          \* windowMs
    MaxNow,          \* bound: the clock
    MaxChecks        \* bound: inputs, and messages

Whole == "agent"     \* the agent's own window and bucket
Keys == Targets \cup {Whole}
Limit(key) == IF key = Whole THEN AgentLimit ELSE TargetLimit

VARIABLES
    now,
    stamps,          \* perAgent, perTarget: the times of what was accepted
    buckets,         \* _agentBuckets, _targetBuckets: tokens, and the last refill
    inputs,          \* history: every valid input, its time and whether it was pushed
    messages         \* history: every message, its time and whether it went

slidingVars == <<stamps, inputs>>
bucketVars == <<buckets, messages>>
vars == <<now, slidingVars, bucketVars>>

Unmade == [tokens |-> -1, refilled |-> 0]

Init ==
    /\ now = 0
    /\ stamps = [key \in Keys |-> <<>>] /\ inputs = <<>>
    /\ buckets = [key \in Keys |-> Unmade] /\ messages = <<>>

Clock ==
    /\ now' \in (now + 1)..MaxNow
    /\ UNCHANGED <<slidingVars, bucketVars>>

-----------------------------------------------------------------------------
(* The sliding windows. *)

\* A form of Expired that keeps a stamp one moment too long.
ExpiredLate(t) == t < now - Window

Expired(t) == t <= now - Window

\* The stamps without those at the head that have expired.
Trimmed(s) ==
    LET kept == {k \in 1..(Len(s) + 1) : k = Len(s) + 1 \/ ~Expired(s[k])}
    IN  SubSeq(s, CHOOSE k \in kept : \A j \in kept : k <= j, Len(s))

\* DualRateLimiter.check and the rest of handleInput: the agent is looked at first,
\* and stamped only when the target has accepted too.
Input(target) ==
    LET whole == Trimmed(stamps[Whole])
        own == Trimmed(stamps[target])
        ofAgent == Len(whole) < AgentLimit
        accepted == ofAgent /\ Len(own) < TargetLimit
    IN  /\ messages = <<>> /\ Len(inputs) < MaxChecks
        /\ stamps' =
            [stamps EXCEPT ![Whole] = IF accepted THEN Append(whole, now) ELSE whole,
                           ![target] = IF accepted THEN Append(own, now)
                                       ELSE IF ofAgent THEN own ELSE @]
        /\ inputs' = Append(inputs, [at |-> now, target |-> target, ok |-> accepted])
        /\ UNCHANGED <<now, bucketVars>>

\* DualRateLimiter.removeAgent
RemoveAgent ==
    /\ inputs # <<>>
    /\ stamps' = [key \in Keys |-> <<>>]
    /\ inputs' = <<>>
    /\ UNCHANGED <<now, bucketVars>>

-----------------------------------------------------------------------------
(* The token buckets. *)

\* A form of Filled that lets unused windows add up.
FilledUp(key, b) ==
    IF now - b.refilled < Window THEN b
    ELSE [tokens |-> b.tokens + ((now - b.refilled) \div Window) * Limit(key),
          refilled |-> now]

\* _refill: whole windows since the last refill fill the bucket, no more.
Filled(key, b) ==
    IF now - b.refilled < Window THEN b ELSE [tokens |-> Limit(key), refilled |-> now]

\* The bucket of a key, made full when it is first used, as _refill leaves it.
Bucket(key) ==
    IF buckets[key] = Unmade THEN [tokens |-> Limit(key), refilled |-> now]
    ELSE Filled(key, buckets[key])

Consumed(b) == IF b.tokens >= 1 THEN [b EXCEPT !.tokens = @ - 1] ELSE b

\* checkAndConsume: the agent's token is gone also when the target refuses.
Message(target) ==
    LET ofAgent == Bucket(Whole).tokens >= 1
        accepted == ofAgent /\ Bucket(target).tokens >= 1
    IN  /\ inputs = <<>> /\ Len(messages) < MaxChecks
        /\ buckets' =
            [buckets EXCEPT ![Whole] = Consumed(Bucket(Whole)),
                            ![target] = IF ofAgent THEN Consumed(Bucket(target)) ELSE @]
        /\ messages' =
            Append(messages, [at |-> now, target |-> target, ok |-> accepted])
        /\ UNCHANGED <<now, slidingVars>>

\* clearAgent
ClearAgent ==
    /\ messages # <<>>
    /\ buckets' = [key \in Keys |-> Unmade]
    /\ messages' = <<>>
    /\ UNCHANGED <<now, slidingVars>>

Next ==
    \/ Clock
    \/ \E target \in Targets : Input(target) \/ Message(target)
    \/ RemoveAgent \/ ClearAgent

Spec == Init /\ [][Next]_vars

-----------------------------------------------------------------------------
(* Properties. *)

\* The accepted ones among the first n of a log that count against a key at a time.
Counted(log, n, key, since) ==
    {k \in 1..n : /\ log[k].ok /\ log[k].at > since
                  /\ key \in {Whole, log[k].target}}

\* An input is pushed exactly when fewer than the
\* limits were pushed in the window before it: a refused one counts against nobody.
SlidingIsExact ==
    \A n \in DOMAIN inputs :
        LET used(key) == Cardinality(Counted(inputs, n - 1, key, inputs[n].at - Window))
        IN  inputs[n].ok <=>
                used(Whole) < AgentLimit /\ used(inputs[n].target) < TargetLimit

\* A channel's agent gets at most twice its limit through in a window, which may lie
\* across a refill, and so does each of its targets.
BucketsAreBounded ==
    \A n \in DOMAIN messages, key \in Keys :
        LET passed == Counted(messages, n, key, messages[n].at - Window)
        IN  Cardinality(passed) <= 2 * Limit(key)
=============================================================================
