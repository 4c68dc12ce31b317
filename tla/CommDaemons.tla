---------------------------- MODULE CommDaemons ----------------------------
(***************************************************************************)
(* Daemons that send each other messages, requests with correlated replies *)
(* and source-routed pipeline messages (the comm* functions of             *)
(* apps/runner/src/daemon/daemon-entry.ts over comm-transport.ts).         *)
(*                                                                         *)
(* commDeliver runs without an await, so the receiver's whole handling of  *)
(* a message is one action; the sender meanwhile awaits the RPC, which may *)
(* also fail, and a request's timer may fire at any time after it is set.  *)
(* Messages are numbered in the order of their creation: the number stands *)
(* for the random id.  A message may be presented again after its call.    *)
(***************************************************************************)
EXTENDS MessageRouter, FiniteSets, SequencesExt

CONSTANTS
    InboxMax,        \* COMM_INBOX_MAX
    Routes,          \* pipeline routes an initiator may choose, none of them empty
    MaxMessages,     \* bound: messages created in a behaviour
    MaxTime,         \* bound: the wall clock
    MaxRestarts      \* bound: crashes of daemons

ASSUME CommAssumption ==
    /\ InboxMax \in Nat \ {0}
    /\ Routes \subseteq Seq(Agents) \ {<<>>}
    /\ MaxMessages \in Nat
    /\ MaxTime \in Nat
    /\ MaxRestarts \in Nat

VARIABLES
    now,             \* the host's wall clock
    setBack,         \* history: the clock was once set back
    msgs,            \* every message created, by id
    call,            \* call[i]: the RPC that carries message i
    outcome,         \* outcome[i]: what became of request i, "none" for others
    reply,           \* reply[i]: the reply request i's promise was resolved with
    pending,         \* pending[a]: requests in pendingRequests of a's daemon
    seen,            \* seen[a]: seenMessageIds of a's router
    inbox,           \* inbox[a]: commInbox
    accepted,        \* history: ids a's daemon accepted since it started
    woken,           \* history: of those, the ids it pushed to its agent's loop
    restarts         \* crashes so far

daemonVars == <<seen, inbox, accepted, woken>>
clockVars == <<now, setBack>>
vars == <<clockVars, msgs, call, outcome, reply, pending, daemonVars, restarts>>

Ids == 1..MaxMessages

Init ==
    /\ now = 0 /\ setBack = FALSE
    /\ msgs = <<>>
    /\ call = [i \in Ids |-> "none"]
    /\ outcome = [i \in Ids |-> "none"]
    /\ reply = [i \in Ids |-> 0]
    /\ pending = [a \in Agents |-> {}]
    /\ seen = [a \in Agents |-> {}]
    /\ inbox = [a \in Agents |-> <<>>]
    /\ accepted = [a \in Agents |-> <<>>]
    /\ woken = [a \in Agents |-> {}]
    /\ restarts = 0

Message(from, to, corr, route, depth) ==
    [from |-> from, to |-> to, ts |-> now, corr |-> corr, route |-> route, depth |-> depth]

\* The message is created and its RPC begins.
Create(m) ==
    /\ Len(msgs) < MaxMessages
    /\ msgs' = Append(msgs, m)
    /\ call' = [call EXCEPT ![Len(msgs) + 1] = "flying"]

-----------------------------------------------------------------------------
(* The sender. *)

\* commSend, alone or for one target of commBroadcast, and commReply, which
\* names the request it answers (0: none).
Send(a, b, corr) ==
    /\ Outbound(a, b)
    /\ Create(Message(a, b, corr, <<>>, 0))
    /\ UNCHANGED <<clockVars, outcome, reply, pending, daemonVars, restarts>>

\* commPipelineInitiate: to the first hop, with the rest of the route.
Initiate(a, route) ==
    /\ Outbound(a, Head(route))
    /\ Create(Message(a, Head(route), 0, Tail(route), 1))
    /\ UNCHANGED <<clockVars, outcome, reply, pending, daemonVars, restarts>>

\* commRequest up to its await: the timer is set before the message leaves.
Request(a, b) ==
    /\ Outbound(a, b)
    /\ Create(Message(a, b, 0, <<>>, 0))
    /\ LET i == Len(msgs) + 1
       IN  /\ pending' = [pending EXCEPT ![a] = @ \cup {i}]
           /\ outcome' = [outcome EXCEPT ![i] = "waiting"]
    /\ UNCHANGED <<clockVars, reply, daemonVars, restarts>>

(* Faulty forms of Acked and Failed, for the mutation runs of the README. *)

AckedForgets(i) ==
    /\ call[i] = "accepted"
    /\ call' = [call EXCEPT ![i] = "done"]
    /\ pending' = [pending EXCEPT ![msgs[i].from] = @ \ {i}]
    /\ outcome' = [outcome EXCEPT ![i] = IF reply[i] # 0 THEN "replied" ELSE @]
    /\ UNCHANGED <<clockVars, msgs, reply, daemonVars, restarts>>

FailedKeeps(i) ==
    /\ call[i] \in {"flying", "accepted", "denied"}
    /\ call' = [call EXCEPT ![i] = "done"]
    /\ outcome' = [outcome EXCEPT ![i] = IF @ = "waiting" THEN "failed" ELSE @]
    /\ UNCHANGED <<clockVars, msgs, reply, pending, daemonVars, restarts>>

\* The acknowledgement resolves deliver(): a request goes on to await the reply,
\* which may already be there.
Acked(i) ==
    /\ call[i] = "accepted"
    /\ call' = [call EXCEPT ![i] = "done"]
    /\ outcome' = [outcome EXCEPT ![i] = IF reply[i] # 0 THEN "replied" ELSE @]
    /\ UNCHANGED <<clockVars, msgs, reply, pending, daemonVars, restarts>>

\* The receiver denied the message, the connection failed or the RPC timed out,
\* whether the receiver got the message or not: deliver() rejects, the request's
\* timer and entry are removed and its caller gets the error.
Failed(i) ==
    /\ call[i] \in {"flying", "accepted", "denied"}
    /\ call' = [call EXCEPT ![i] = "done"]
    /\ pending' = [pending EXCEPT ![msgs[i].from] = @ \ {i}]
    /\ outcome' = [outcome EXCEPT ![i] = IF @ = "waiting" THEN "failed" ELSE @]
    /\ UNCHANGED <<clockVars, msgs, reply, daemonVars, restarts>>

\* What a process loses when it ends: its timers, promises, router and inbox.
Forget(a) ==
    LET mine == {i \in DOMAIN msgs : msgs[i].from = a}
    IN  /\ seen' = [seen EXCEPT ![a] = {}]
        /\ inbox' = [inbox EXCEPT ![a] = <<>>]
        /\ accepted' = [accepted EXCEPT ![a] = <<>>]
        /\ woken' = [woken EXCEPT ![a] = {}]
        /\ pending' = [pending EXCEPT ![a] = {}]
        /\ call' = [i \in Ids |-> IF i \in mine THEN "done" ELSE call[i]]
        /\ reply' = [i \in Ids |-> IF i \in mine THEN 0 ELSE reply[i]]

\* A request's timer fires.  Once deliver() is done the rejection reaches the
\* caller; before that nothing handles it, and an unhandled rejection ends the
\* process (the daemon installs no handler).
Timeout(i) ==
    /\ i \in UNION {pending[a] : a \in Agents}
    /\ LET a == msgs[i].from
       IN  \/ /\ call[i] = "done"
              /\ pending' = [pending EXCEPT ![a] = @ \ {i}]
              /\ outcome' = [outcome EXCEPT ![i] = "timedOut"]
              /\ UNCHANGED <<call, reply, daemonVars, restarts>>
           \/ /\ call[i] # "done"
              /\ restarts < MaxRestarts
              /\ restarts' = restarts + 1
              /\ Forget(a)
              /\ outcome' = [k \in Ids |-> IF k = i THEN "unhandled"
                                ELSE IF outcome[k] = "waiting" /\ msgs[k].from = a THEN "lost"
                                ELSE outcome[k]]
    /\ UNCHANGED <<clockVars, msgs>>

-----------------------------------------------------------------------------
(* The receiver. *)

\* A faulty form of Collects.
CollectAnyone(a, m) == m.corr \in pending[a]

\* A reply is for the request it names only if the request's target sent it.
Collects(a, m) == m.corr \in pending[a] /\ m.from = msgs[m.corr].to

Tell(i, result) == call' = [call EXCEPT ![i] = IF @ = "flying" THEN result ELSE @]

\* commDeliver of message i, when its RPC arrives or when it is presented again.
Deny(i) ==
    /\ LET m == msgs[i]
       IN  /\ ~Inbound(seen[m.to], i, m, now)
           /\ seen' = [seen EXCEPT ![m.to] = Prune(@, now)]
    /\ Tell(i, "denied")
    /\ UNCHANGED <<clockVars, msgs, outcome, reply, pending, inbox, accepted, woken, restarts>>

\* A faulty form of Bounded.
BoundedLate(s) == SubSeq(s, IF Len(s) > InboxMax + 1 THEN 2 ELSE 1, Len(s))

\* The last InboxMax messages.
Bounded(s) == SubSeq(s, IF Len(s) > InboxMax THEN Len(s) - InboxMax + 1 ELSE 1, Len(s))

Accept(i) ==
    LET m == msgs[i]
        a == m.to
    IN  /\ Inbound(seen[a], i, m, now)
        /\ seen' = [seen EXCEPT ![a] = MarkSeen(@, i, m, now)]
        /\ inbox' = [inbox EXCEPT ![a] = Bounded(Append(@, i))]
        /\ accepted' = [accepted EXCEPT ![a] = Append(@, i)]

\* A faulty form of Collect: the reply goes on to wake the loop.
CollectAndWake(i) ==
    /\ Accept(i)
    /\ Collects(msgs[i].to, msgs[i])
    /\ LET r == msgs[i].corr
       IN  /\ pending' = [pending EXCEPT ![msgs[i].to] = @ \ {r}]
           /\ reply' = [reply EXCEPT ![r] = i]
           /\ outcome' = [outcome EXCEPT ![r] = IF call[r] = "done" THEN "replied" ELSE @]
    /\ woken' = [woken EXCEPT ![msgs[i].to] = @ \cup {i}]
    /\ Tell(i, "accepted")
    /\ UNCHANGED <<clockVars, msgs, restarts>>

\* The reply of a pending request: its promise is resolved and the loop is not
\* woken.  The caller goes on at once if it awaits the reply already.
Collect(i) ==
    /\ Accept(i)
    /\ Collects(msgs[i].to, msgs[i])
    /\ LET r == msgs[i].corr
       IN  /\ pending' = [pending EXCEPT ![msgs[i].to] = @ \ {r}]
           /\ reply' = [reply EXCEPT ![r] = i]
           /\ outcome' = [outcome EXCEPT ![r] = IF call[r] = "done" THEN "replied" ELSE @]
    /\ Tell(i, "accepted")
    /\ UNCHANGED <<clockVars, msgs, woken, restarts>>

\* Any other message wakes the loop; a pipeline message with hops left is
\* relayed to the next one, if the relaying agent may send there.
Receive(i) ==
    /\ Accept(i)
    /\ ~Collects(msgs[i].to, msgs[i])
    /\ woken' = [woken EXCEPT ![msgs[i].to] = @ \cup {i}]
    /\ LET m == msgs[i]
           relayed == m.route # <<>> /\ Outbound(m.to, Head(m.route))
           told == IF call[i] = "flying" THEN "accepted" ELSE call[i]
       IN  \/ /\ relayed
              /\ Len(msgs) < MaxMessages
              /\ msgs' = Append(msgs, Message(m.to, Head(m.route), 0, Tail(m.route), m.depth + 1))
              /\ call' = [call EXCEPT ![i] = told, ![Len(msgs) + 1] = "flying"]
           \/ /\ ~relayed
              /\ call' = [call EXCEPT ![i] = told]
              /\ UNCHANGED msgs
    /\ UNCHANGED <<clockVars, outcome, reply, pending, restarts>>

-----------------------------------------------------------------------------
(* The environment. *)

Tick ==
    /\ now < MaxTime
    /\ now' = now + 1
    /\ UNCHANGED <<setBack, msgs, call, outcome, reply, pending, daemonVars, restarts>>

\* The host's clock is corrected (bound: once).
SetBack(t) ==
    /\ ~setBack
    /\ t < now
    /\ now' = t
    /\ setBack' = TRUE
    /\ UNCHANGED <<msgs, call, outcome, reply, pending, daemonVars, restarts>>

\* A daemon crashes and is started again.
Restart(a) ==
    /\ restarts < MaxRestarts
    /\ restarts' = restarts + 1
    /\ Forget(a)
    /\ outcome' = [i \in Ids |-> IF outcome[i] = "waiting" /\ msgs[i].from = a
                                 THEN "lost" ELSE outcome[i]]
    /\ UNCHANGED <<clockVars, msgs>>

SenderStep == \E i \in DOMAIN msgs : Acked(i) \/ Failed(i) \/ Timeout(i)

Next ==
    \/ \E a, b \in Agents : Request(a, b)
                            \/ \E corr \in 0..Len(msgs) : Send(a, b, corr)
    \/ \E a \in Agents : Restart(a) \/ \E route \in Routes : Initiate(a, route)
    \/ SenderStep
    \/ \E i \in DOMAIN msgs : Deny(i) \/ Collect(i) \/ Receive(i)
    \/ Tick
    \/ \E t \in 0..MaxTime : SetBack(t)

\* RPCs end (answered, failed or timed out) and timers fire.
Fairness == \A i \in Ids : WF_vars(i \in DOMAIN msgs /\ (Acked(i) \/ Failed(i) \/ Timeout(i)))

Spec == Init /\ [][Next]_vars /\ Fairness

-----------------------------------------------------------------------------
(* Properties. *)

MessageSet == [from : Agents, to : Agents, ts : Nat, corr : Ids \cup {0},
               route : Seq(Agents), depth : Nat]

TypeOK ==
    /\ now \in 0..MaxTime /\ setBack \in BOOLEAN
    /\ msgs \in Seq(MessageSet) /\ Len(msgs) <= MaxMessages
    /\ call \in [Ids -> {"none", "flying", "accepted", "denied", "done"}]
    /\ outcome \in [Ids -> {"none", "waiting", "replied", "timedOut", "failed", "unhandled", "lost"}]
    /\ reply \in [Ids -> Ids \cup {0}]
    /\ pending \in [Agents -> SUBSET Ids]
    /\ seen \in [Agents -> SUBSET [id : Ids, ts : Nat]]
    /\ inbox \in [Agents -> Seq(Ids)]
    /\ \A a \in Agents : Len(inbox[a]) <= InboxMax
    /\ accepted \in [Agents -> Seq(Ids)]
    /\ woken \in [Agents -> SUBSET Ids]
    /\ restarts \in 0..MaxRestarts

\* A daemon accepts a message at most once as long as it runs and the clock is
\* not set back, however often the message is presented: an id leaves the cache
\* only when its message is stale for good.
AcceptedOnce == ~setBack => \A a \in Agents : IsInjective(accepted[a])

\* A request is answered by an accepted message of the agent it was sent to that
\* names it: not by a third agent, and not by an answer to an earlier request.
RepliesMatch ==
    \A i \in Ids : reply[i] # 0 =>
        /\ msgs[reply[i]].corr = i
        /\ msgs[reply[i]].from = msgs[i].to /\ msgs[reply[i]].to = msgs[i].from

\* A reply is handled once: by the caller that awaits it or by the agent's loop.
HandledOnce ==
    ~setBack => \A i \in Ids, a \in Agents : reply[i] \notin woken[a]

\* No request is left without a way to end: while its caller waits, its timer is
\* set or the reply is there; and no entry outlives its request.
NoOrphans ==
    \A i \in DOMAIN msgs :
        /\ outcome[i] = "waiting" => i \in pending[msgs[i].from] \/ reply[i] # 0
        /\ i \in pending[msgs[i].from] => outcome[i] = "waiting"

\* Every request ends for its caller.
RequestsEnd == \A i \in Ids : outcome[i] = "waiting" ~> outcome[i] # "waiting"
=============================================================================
