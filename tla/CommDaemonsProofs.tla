------------------------- MODULE CommDaemonsProofs -------------------------
(***************************************************************************)
(* Proofs about CommDaemons, for any agents, capabilities, limits and      *)
(* bounds: the type invariant, that a daemon accepts a message at most     *)
(* once while it runs and the clock is not set back, and what becomes of   *)
(* requests and their replies.                                             *)
(*                                                                         *)
(* A router does not remember all it accepted: ids are pruned.  The        *)
(* invariant is that what it forgot is stale, and without a clock that is  *)
(* set back a stale message stays stale, so that the freshness check takes *)
(* over from the cache.  RequestsInv rests on it: a message is new to its  *)
(* receiver, so it is nobody's reply and woke nobody before.               *)
(***************************************************************************)
EXTENDS CommDaemons, SequenceTheorems, TLAPS

ClockType == now \in 0..MaxTime /\ setBack \in BOOLEAN /\ restarts \in 0..MaxRestarts

MsgsType == msgs \in Seq(MessageSet) /\ Len(msgs) <= MaxMessages

RequestType ==
    /\ call \in [Ids -> {"none", "flying", "accepted", "denied", "done"}]
    /\ outcome \in [Ids -> {"none", "waiting", "replied", "timedOut", "failed", "unhandled", "lost"}]
    /\ reply \in [Ids -> Ids \cup {0}]
    /\ pending \in [Agents -> SUBSET Ids]

InboxType ==
    /\ inbox \in [Agents -> Seq(Ids)]
    /\ \A a \in Agents : Len(inbox[a]) <= InboxMax

LogType ==
    /\ seen \in [Agents -> SUBSET [id : Ids, ts : Nat]]
    /\ accepted \in [Agents -> Seq(Ids)]
    /\ woken \in [Agents -> SUBSET Ids]

\* Only messages that exist are accepted.
Known == \A a \in Agents : \A k \in DOMAIN accepted[a] : accepted[a][k] \in DOMAIN msgs

\* What was accepted is remembered with its time, or stale.
Remembered(a, i) ==
    Stale(msgs[i].ts, now) \/ [id |-> i, ts |-> msgs[i].ts] \in seen[a]

Remembers ==
    ~setBack => \A a \in Agents : \A k \in DOMAIN accepted[a] : Remembered(a, accepted[a][k])

\* The inductive invariant.
IInv == TypeOK /\ Known /\ Remembers /\ AcceptedOnce

-----------------------------------------------------------------------------
(* The type invariant in its parts. *)

LEMMA TypeParts ==
    TypeOK <=> ClockType /\ MsgsType /\ RequestType /\ InboxType /\ LogType
BY DEF TypeOK, ClockType, MsgsType, RequestType, InboxType, LogType

LEMMA TypePartsNext ==
    TypeOK' <=> ClockType' /\ MsgsType' /\ RequestType' /\ InboxType' /\ LogType'
BY DEF TypeOK, ClockType, MsgsType, RequestType, InboxType, LogType

LEMMA BoundedType ==
    ASSUME NEW s \in Seq(Ids)
    PROVE  Bounded(s) \in Seq(Ids) /\ Len(Bounded(s)) <= InboxMax
<1>1. Len(s) \in Nat
    BY LenProperties
<1>2. InboxMax \in Nat \ {0}
    BY CommAssumption
<1>. DEFINE m == IF Len(s) > InboxMax THEN Len(s) - InboxMax + 1 ELSE 1
<1>3. m \in 1..(Len(s) + 1) /\ m \in Int /\ Len(s) - m + 1 <= InboxMax
    BY <1>1, <1>2
<1>4. Bounded(s) = SubSeq(s, m, Len(s))
    BY DEF Bounded
<1>5. /\ SubSeq(s, m, Len(s)) \in Seq(Ids)
      /\ Len(SubSeq(s, m, Len(s))) = IF m <= Len(s) THEN Len(s) - m + 1 ELSE 0
    <2>. HIDE DEF m
    <2>. QED BY <1>1, <1>3, SubSeqProperties
<1>. QED BY <1>2, <1>3, <1>4, <1>5

LEMMA MessageFields ==
    ASSUME TypeOK, NEW i \in DOMAIN msgs
    PROVE  /\ i \in Ids
           /\ msgs[i].from \in Agents /\ msgs[i].to \in Agents /\ msgs[i].ts \in Nat
           /\ msgs[i].route \in Seq(Agents) /\ msgs[i].depth \in Nat
<1>1. msgs \in Seq(MessageSet) /\ Len(msgs) <= MaxMessages /\ MaxMessages \in Nat
    BY CommAssumption DEF TypeOK
<1>2. DOMAIN msgs = 1..Len(msgs) /\ Len(msgs) \in Nat
    BY <1>1, LenProperties
<1>3. msgs[i] \in MessageSet
    BY <1>1, <1>2, ElementOfSeq
<1>. QED BY <1>1, <1>2, <1>3 DEF Ids, MessageSet

\* A new message is numbered within the bound and leaves the others alone.
LEMMA CreateEffect ==
    ASSUME TypeOK, NEW m \in MessageSet, Len(msgs) < MaxMessages, msgs' = Append(msgs, m)
    PROVE  /\ MsgsType'
           /\ Len(msgs) + 1 \in Ids
           /\ \A i \in DOMAIN msgs : i \in DOMAIN msgs' /\ msgs'[i] = msgs[i]
<1>1. Len(msgs) \in Nat /\ MaxMessages \in Nat /\ DOMAIN msgs = 1..Len(msgs)
    BY CommAssumption, LenProperties DEF TypeOK
<1>2. /\ msgs' \in Seq(MessageSet) /\ Len(msgs') = Len(msgs) + 1
      /\ \A i \in 1..Len(msgs) : msgs'[i] = msgs[i]
      /\ DOMAIN msgs' = 1..(Len(msgs) + 1)
    BY <1>1, AppendProperties, LenProperties DEF TypeOK
<1>. QED BY <1>1, <1>2 DEF MsgsType, Ids

LEMMA MessageType ==
    ASSUME TypeOK, NEW a \in Agents, NEW b \in Agents, NEW corr \in Ids \cup {0},
           NEW route \in Seq(Agents), NEW depth \in Nat
    PROVE  Message(a, b, corr, route, depth) \in MessageSet
<1>1. now \in Nat
    BY CommAssumption DEF TypeOK
<1>. QED BY <1>1 DEF Message, MessageSet

\* Nothing about what was accepted changes while the clock only advances and the
\* messages, the caches and the logs stay as they are, or messages are added.
LEMMA LogsUntouched ==
    ASSUME IInv, UNCHANGED <<seen, accepted>>,
           \A i \in DOMAIN msgs : i \in DOMAIN msgs' /\ msgs'[i] = msgs[i],
           \/ UNCHANGED clockVars
           \/ setBack' = setBack /\ now' = now + 1
           \/ setBack' = TRUE
    PROVE  Known' /\ Remembers' /\ AcceptedOnce'
<1>1. Known'
    BY DEF IInv, Known
<1>2. AcceptedOnce'
    BY DEF IInv, AcceptedOnce, clockVars, IsInjective
<1>3. Remembers'
    <2>. SUFFICES ASSUME ~setBack', NEW a \in Agents, NEW k \in DOMAIN accepted[a]
                  PROVE  Remembered(a, accepted[a][k])'
        BY DEF Remembers
    <2>. DEFINE i == accepted[a][k]
    <2>1. i \in DOMAIN msgs /\ msgs'[i] = msgs[i] /\ i \in DOMAIN msgs
        BY DEF IInv, Known
    <2>2. ~setBack /\ Remembered(a, i)
        BY DEF IInv, Remembers, clockVars
    <2>3. now \in Int /\ now' \in Int /\ now' >= now
        BY CommAssumption DEF IInv, TypeOK, clockVars
    <2>4. msgs[i].ts \in Int
        BY <2>1, MessageFields DEF IInv
    <2>5. MaxAge \in Int
        BY RouterAssumption
    <2>6. Stale(msgs[i].ts, now) => Stale(msgs[i].ts, now')
        BY <2>3, <2>4, <2>5 DEF Stale
    <2>. QED BY <2>1, <2>2, <2>6 DEF Remembered, Stale
<1>. QED BY <1>1, <1>2, <1>3

-----------------------------------------------------------------------------
(* Initially. *)

LEMMA CommInit == Init => IInv
<1>. SUFFICES ASSUME Init PROVE IInv
    OBVIOUS
<1>1. ClockType
    <2>1. now \in 0..MaxTime /\ restarts \in 0..MaxRestarts
        BY CommAssumption DEF Init
    <2>2. setBack \in BOOLEAN
        BY DEF Init
    <2>. QED BY <2>1, <2>2 DEF ClockType
<1>2. MsgsType
    BY CommAssumption, EmptySeq DEF Init, MsgsType
<1>3. RequestType
    BY DEF Init, RequestType
<1>4. InboxType
    BY CommAssumption, EmptySeq DEF Init, InboxType
<1>5. LogType
    BY EmptySeq DEF Init, LogType
<1>6. \A a \in Agents : DOMAIN accepted[a] = {}
    <2>1. \A a \in Agents : accepted[a] = <<>>
        BY DEF Init
    <2>2. DOMAIN <<>> = {}
        OBVIOUS
    <2>. QED BY <2>1, <2>2
<1>7. Known /\ Remembers /\ AcceptedOnce
    BY <1>6 DEF Known, Remembers, AcceptedOnce, IsInjective
<1>. QED BY <1>1, <1>2, <1>3, <1>4, <1>5, <1>7, TypeParts DEF IInv

-----------------------------------------------------------------------------
(* The sender's steps. *)

LEMMA SendInv ==
    ASSUME IInv, NEW a \in Agents, NEW b \in Agents, NEW corr \in 0..Len(msgs),
           Send(a, b, corr)
    PROVE  IInv'
<1>1. corr \in Ids \cup {0}
    BY CommAssumption, LenProperties DEF IInv, TypeOK, Ids
<1>2. Message(a, b, corr, <<>>, 0) \in MessageSet
    BY <1>1, MessageType, EmptySeq DEF IInv
<1>3. MsgsType' /\ Len(msgs) + 1 \in Ids
      /\ \A i \in DOMAIN msgs : i \in DOMAIN msgs' /\ msgs'[i] = msgs[i]
    BY <1>2, CreateEffect DEF IInv, Send, Create
<1>4. ClockType' /\ InboxType' /\ LogType'
    BY DEF IInv, TypeOK, Send, ClockType, InboxType, LogType, clockVars, daemonVars
<1>5. RequestType'
    BY <1>3 DEF IInv, TypeOK, Send, Create, RequestType
<1>6. Known' /\ Remembers' /\ AcceptedOnce'
    BY <1>3, LogsUntouched DEF Send, daemonVars
<1>. QED BY <1>3, <1>4, <1>5, <1>6, TypePartsNext DEF IInv

LEMMA InitiateInv ==
    ASSUME IInv, NEW a \in Agents, NEW route \in Routes, Initiate(a, route)
    PROVE  IInv'
<1>1. route \in Seq(Agents) /\ Head(route) \in Agents /\ Tail(route) \in Seq(Agents)
    BY CommAssumption, HeadTailProperties
<1>2. Message(a, Head(route), 0, Tail(route), 1) \in MessageSet
    BY <1>1, MessageType DEF IInv
<1>3. MsgsType' /\ Len(msgs) + 1 \in Ids
      /\ \A i \in DOMAIN msgs : i \in DOMAIN msgs' /\ msgs'[i] = msgs[i]
    BY <1>2, CreateEffect DEF IInv, Initiate, Create
<1>4. ClockType' /\ InboxType' /\ LogType'
    BY DEF IInv, TypeOK, Initiate, ClockType, InboxType, LogType, clockVars, daemonVars
<1>5. RequestType'
    BY <1>3 DEF IInv, TypeOK, Initiate, Create, RequestType
<1>6. Known' /\ Remembers' /\ AcceptedOnce'
    BY <1>3, LogsUntouched DEF Initiate, daemonVars
<1>. QED BY <1>3, <1>4, <1>5, <1>6, TypePartsNext DEF IInv

LEMMA RequestInv ==
    ASSUME IInv, NEW a \in Agents, NEW b \in Agents, Request(a, b)
    PROVE  IInv'
<1>2. Message(a, b, 0, <<>>, 0) \in MessageSet
    BY MessageType, EmptySeq DEF IInv
<1>3. MsgsType' /\ Len(msgs) + 1 \in Ids
      /\ \A i \in DOMAIN msgs : i \in DOMAIN msgs' /\ msgs'[i] = msgs[i]
    BY <1>2, CreateEffect DEF IInv, Request, Create
<1>4. ClockType' /\ InboxType' /\ LogType'
    BY DEF IInv, TypeOK, Request, ClockType, InboxType, LogType, clockVars, daemonVars
<1>5. RequestType'
    BY <1>3 DEF IInv, TypeOK, Request, Create, RequestType
<1>6. Known' /\ Remembers' /\ AcceptedOnce'
    BY <1>3, LogsUntouched DEF Request, daemonVars
<1>. QED BY <1>3, <1>4, <1>5, <1>6, TypePartsNext DEF IInv

LEMMA AckedFailedInv ==
    ASSUME IInv, NEW i \in DOMAIN msgs, Acked(i) \/ Failed(i)
    PROVE  IInv'
<1>1. MsgsType' /\ ClockType' /\ InboxType' /\ LogType'
    BY DEF IInv, TypeOK, Acked, Failed, MsgsType, ClockType, InboxType, LogType, clockVars, daemonVars
<1>2. RequestType'
    <2>. DEFINE Outcomes == {"none", "waiting", "replied", "timedOut", "failed", "unhandled", "lost"}
    <2>1. i \in Ids /\ outcome \in [Ids -> Outcomes] /\ outcome[i] \in Outcomes
        BY MessageFields DEF IInv, TypeOK
    <2>2. PICK o \in Outcomes : outcome' = [outcome EXCEPT ![i] = o]
        <3>1. CASE Acked(i)
            BY <2>1, <3>1 DEF Acked
        <3>2. CASE Failed(i)
            BY <2>1, <3>2 DEF Failed
        <3>. QED BY <3>1, <3>2
    <2>3. outcome' \in [Ids -> Outcomes]
        BY <2>1, <2>2
    <2>4. /\ call' = [call EXCEPT ![i] = "done"]
          /\ reply' = reply
          /\ pending' = pending \/ pending' = [pending EXCEPT ![msgs[i].from] = pending[msgs[i].from] \ {i}]
        BY DEF Acked, Failed
    <2>5. pending' \in [Agents -> SUBSET Ids]
        <3>1. pending \in [Agents -> SUBSET Ids] /\ msgs[i].from \in Agents
            BY MessageFields DEF IInv, TypeOK
        <3>2. pending[msgs[i].from] \ {i} \in SUBSET Ids
            BY <3>1
        <3>3. CASE pending' = pending
            BY <3>1, <3>3
        <3>4. CASE pending' = [pending EXCEPT ![msgs[i].from] = pending[msgs[i].from] \ {i}]
            BY <3>1, <3>2, <3>4
        <3>. QED BY <2>4, <3>3, <3>4
    <2>6. call' \in [Ids -> {"none", "flying", "accepted", "denied", "done"}]
        BY <2>4 DEF IInv, TypeOK
    <2>. QED BY <2>3, <2>4, <2>5, <2>6 DEF IInv, TypeOK, RequestType
<1>3. Known' /\ Remembers' /\ AcceptedOnce'
    BY LogsUntouched DEF Acked, Failed, daemonVars, clockVars
<1>. QED BY <1>1, <1>2, <1>3, TypePartsNext DEF IInv

\* A process that ends leaves an empty log.
LEMMA ForgetInv ==
    ASSUME IInv, NEW a \in Agents, Forget(a), UNCHANGED <<clockVars, msgs>>
    PROVE  /\ MsgsType' /\ InboxType' /\ LogType'
           /\ Known' /\ Remembers' /\ AcceptedOnce'
           /\ call' \in [Ids -> {"none", "flying", "accepted", "denied", "done"}]
           /\ reply' \in [Ids -> Ids \cup {0}]
           /\ pending' \in [Agents -> SUBSET Ids]
<1>1. MsgsType'
    BY DEF IInv, TypeOK, MsgsType
<1>2. InboxType'
    BY CommAssumption, EmptySeq DEF IInv, TypeOK, Forget, InboxType
<1>3. LogType'
    BY EmptySeq DEF IInv, TypeOK, Forget, LogType
<1>4. /\ call' \in [Ids -> {"none", "flying", "accepted", "denied", "done"}]
      /\ reply' \in [Ids -> Ids \cup {0}]
      /\ pending' \in [Agents -> SUBSET Ids]
    BY DEF IInv, TypeOK, Forget
<1>5. \A b \in Agents : \/ DOMAIN accepted'[b] = {}
                        \/ accepted'[b] = accepted[b] /\ seen'[b] = seen[b]
    <2>1. accepted \in [Agents -> Seq(Ids)] /\ seen \in [Agents -> SUBSET [id : Ids, ts : Nat]]
        BY DEF IInv, TypeOK
    <2>2. \A b \in Agents : b = a => accepted'[b] = <<>>
        BY <2>1 DEF Forget
    <2>3. \A b \in Agents : b # a => accepted'[b] = accepted[b] /\ seen'[b] = seen[b]
        BY <2>1 DEF Forget
    <2>4. DOMAIN <<>> = {}
        OBVIOUS
    <2>. QED BY <2>2, <2>3, <2>4
<1>6. Known'
    BY <1>5 DEF IInv, Known
<1>7. Remembers'
    BY <1>5 DEF IInv, Remembers, Remembered, clockVars
<1>8. AcceptedOnce'
    BY <1>5 DEF IInv, AcceptedOnce, IsInjective, clockVars
<1>. QED BY <1>1, <1>2, <1>3, <1>4, <1>6, <1>7, <1>8

LEMMA TimeoutInv ==
    ASSUME IInv, NEW i \in DOMAIN msgs, Timeout(i)
    PROVE  IInv'
<1>1. i \in Ids /\ msgs[i].from \in Agents
    BY MessageFields DEF IInv
<1>2. CASE call[i] = "done"
    <2>1. MsgsType' /\ ClockType' /\ InboxType' /\ LogType'
        BY <1>2 DEF IInv, TypeOK, Timeout, MsgsType, ClockType, InboxType, LogType, clockVars, daemonVars
    <2>2. RequestType'
        <3>1. /\ pending' = [pending EXCEPT ![msgs[i].from] = pending[msgs[i].from] \ {i}]
              /\ outcome' = [outcome EXCEPT ![i] = "timedOut"]
              /\ UNCHANGED <<call, reply>>
            BY <1>2 DEF Timeout
        <3>2. pending' \in [Agents -> SUBSET Ids]
            BY <3>1 DEF IInv, TypeOK
        <3>. QED BY <3>1, <3>2 DEF IInv, TypeOK, RequestType
    <2>3. Known' /\ Remembers' /\ AcceptedOnce'
        BY <1>2, LogsUntouched DEF Timeout, daemonVars, clockVars
    <2>. QED BY <2>1, <2>2, <2>3, TypePartsNext DEF IInv
<1>3. CASE call[i] # "done"
    <2>1. Forget(msgs[i].from) /\ UNCHANGED <<clockVars, msgs>>
        BY <1>3 DEF Timeout
    <2>2. ClockType'
        BY <1>3, CommAssumption DEF IInv, TypeOK, Timeout, ClockType, clockVars
    <2>3. outcome' \in [Ids -> {"none", "waiting", "replied", "timedOut", "failed", "unhandled", "lost"}]
        BY <1>3 DEF IInv, TypeOK, Timeout
    <2>. QED BY <1>1, <2>1, <2>2, <2>3, ForgetInv, TypePartsNext DEF IInv, RequestType
<1>. QED BY <1>2, <1>3

-----------------------------------------------------------------------------
(* The receiver's steps. *)

\* Pruning forgets only what is stale.
LEMMA PruneKeeps ==
    ASSUME NEW s, NEW e \in s, ~Stale(e.ts, now)
    PROVE  e \in Prune(s, now)
BY DEF Prune

LEMMA DenyInv ==
    ASSUME IInv, NEW i \in DOMAIN msgs, Deny(i)
    PROVE  IInv'
<1>1. i \in Ids /\ msgs[i].to \in Agents
    BY MessageFields DEF IInv
<1>. DEFINE a == msgs[i].to
<1>2. MsgsType' /\ ClockType' /\ InboxType'
    BY DEF IInv, TypeOK, Deny, MsgsType, ClockType, InboxType, clockVars
<1>3. RequestType'
    BY <1>1 DEF IInv, TypeOK, Deny, Tell, RequestType
<1>4. seen' = [seen EXCEPT ![a] = Prune(seen[a], now)]
    BY DEF Deny
<1>5. LogType'
    BY <1>1, <1>4 DEF IInv, TypeOK, Deny, LogType, Prune
<1>6. Known' /\ AcceptedOnce'
    BY DEF IInv, Deny, Known, AcceptedOnce, clockVars
<1>7. Remembers'
    <2>. SUFFICES ASSUME ~setBack, NEW b \in Agents, NEW k \in DOMAIN accepted[b]
                  PROVE  Remembered(b, accepted[b][k])'
        BY DEF Remembers, Deny, clockVars
    <2>1. Remembered(b, accepted[b][k])
        BY DEF IInv, Remembers
    <2>2. seen'[b] = IF b = a THEN Prune(seen[b], now) ELSE seen[b]
        BY <1>4 DEF IInv, TypeOK
    <2>3. msgs' = msgs /\ now' = now /\ accepted' = accepted
        BY DEF Deny, clockVars
    <2>. QED BY <2>1, <2>2, <2>3, PruneKeeps DEF Remembered
<1>. QED BY <1>2, <1>3, <1>5, <1>6, <1>7, TypePartsNext DEF IInv

\* What acceptance does to the logs: the new id was not in them.
LEMMA AcceptInv ==
    ASSUME IInv, NEW i \in DOMAIN msgs, Accept(i), UNCHANGED clockVars,
           \A j \in DOMAIN msgs : j \in DOMAIN msgs' /\ msgs'[j] = msgs[j]
    PROVE  /\ InboxType'
           /\ seen' \in [Agents -> SUBSET [id : Ids, ts : Nat]]
           /\ accepted' \in [Agents -> Seq(Ids)]
           /\ Known' /\ Remembers' /\ AcceptedOnce'
<1>. DEFINE a == msgs[i].to
            new == [id |-> i, ts |-> msgs[i].ts]
<1>1. i \in Ids /\ a \in Agents /\ msgs[i].ts \in Nat
    BY MessageFields DEF IInv
<1>2. /\ Inbound(seen[a], i, msgs[i], now)
      /\ seen' = [seen EXCEPT ![a] = MarkSeen(seen[a], i, msgs[i], now)]
      /\ inbox' = [inbox EXCEPT ![a] = Bounded(Append(inbox[a], i))]
      /\ accepted' = [accepted EXCEPT ![a] = Append(accepted[a], i)]
    BY DEF Accept
<1>3. /\ inbox \in [Agents -> Seq(Ids)] /\ accepted \in [Agents -> Seq(Ids)]
      /\ seen \in [Agents -> SUBSET [id : Ids, ts : Nat]]
      /\ \A b \in Agents : Len(inbox[b]) <= InboxMax
    BY DEF IInv, TypeOK
<1>4. Append(inbox[a], i) \in Seq(Ids) /\ Append(accepted[a], i) \in Seq(Ids)
    BY <1>1, <1>3, AppendProperties
<1>5. InboxType'
    BY <1>1, <1>2, <1>3, <1>4, BoundedType DEF InboxType
<1>6. MarkSeen(seen[a], i, msgs[i], now) = Prune(seen[a], now) \cup {new}
    BY DEF MarkSeen
<1>7. seen' \in [Agents -> SUBSET [id : Ids, ts : Nat]]
    BY <1>1, <1>2, <1>3, <1>6 DEF Prune
<1>8. accepted' \in [Agents -> Seq(Ids)]
    BY <1>1, <1>2, <1>3, <1>4
<1>9. \A b \in Agents : b # a => accepted'[b] = accepted[b] /\ seen'[b] = seen[b]
    BY <1>2, <1>3
<1>10. accepted'[a] = Append(accepted[a], i) /\ seen'[a] = Prune(seen[a], now) \cup {new}
    BY <1>1, <1>2, <1>3, <1>6
<1>11. /\ Len(accepted[a]) \in Nat
       /\ DOMAIN accepted[a] = 1..Len(accepted[a])
       /\ DOMAIN accepted'[a] = 1..(Len(accepted[a]) + 1)
       /\ \A k \in 1..Len(accepted[a]) : accepted'[a][k] = accepted[a][k]
       /\ accepted'[a][Len(accepted[a]) + 1] = i
    BY <1>1, <1>3, <1>10, AppendProperties, LenProperties
<1>12. Known'
    <2>. SUFFICES ASSUME NEW b \in Agents, NEW k \in DOMAIN accepted'[b]
                  PROVE  accepted'[b][k] \in DOMAIN msgs'
        BY DEF Known
    <2>1. CASE b # a
        BY <2>1, <1>9 DEF IInv, Known
    <2>2. CASE b = a /\ k \in DOMAIN accepted[a]
        BY <2>2, <1>11 DEF IInv, Known
    <2>3. CASE b = a /\ k = Len(accepted[a]) + 1
        BY <2>3, <1>11
    <2>. QED BY <2>1, <2>2, <2>3, <1>11
\* Had the id been accepted before, it would be remembered or stale.
<1>13. ASSUME ~setBack, NEW k \in DOMAIN accepted[a] PROVE accepted[a][k] # i
    <2>. SUFFICES ASSUME accepted[a][k] = i PROVE FALSE
        OBVIOUS
    <2>1. Remembered(a, i)
        BY <1>1, <1>13 DEF IInv, Remembers
    <2>2. ~Stale(msgs[i].ts, now)
        BY <1>2 DEF Inbound, Timely
    <2>3. new \in seen[a]
        BY <2>1, <2>2 DEF Remembered
    <2>4. new \in Prune(seen[a], now)
        BY <2>2, <2>3, PruneKeeps
    <2>5. ~Replayed(Prune(seen[a], now), i)
        BY <1>2 DEF Inbound
    <2>. QED BY <2>4, <2>5 DEF Replayed
<1>14. AcceptedOnce'
    <2>. SUFFICES ASSUME ~setBack, NEW b \in Agents, NEW k \in DOMAIN accepted'[b],
                         NEW l \in DOMAIN accepted'[b], accepted'[b][k] = accepted'[b][l]
                  PROVE  k = l
        BY DEF AcceptedOnce, IsInjective, clockVars
    <2>1. \A c \in Agents : \A p, q \in DOMAIN accepted[c] : accepted[c][p] = accepted[c][q] => p = q
        BY DEF IInv, AcceptedOnce, IsInjective
    <2>2. CASE b # a
        BY <2>1, <2>2, <1>9
    <2>3. CASE b = a
        <3>. DEFINE n == Len(accepted[a]) + 1
        <3>1. \A p \in 1..Len(accepted[a]) : accepted'[a][p] = accepted[a][p] /\ accepted[a][p] # i
            BY <1>11, <1>13
        <3>2. accepted'[a][n] = i
            BY <1>11
        <3>3. k \in 1..n /\ l \in 1..n /\ n \in Nat
            BY <2>3, <1>11
        <3>4. CASE k # n /\ l # n
            <4>1. k \in DOMAIN accepted[a] /\ l \in DOMAIN accepted[a]
                BY <1>11, <3>3, <3>4
            <4>. QED BY <1>1, <1>11, <2>1, <2>3, <3>1, <4>1
        <3>5. CASE k # n /\ l = n
            <4>1. k \in 1..Len(accepted[a])
                BY <1>11, <3>3, <3>5
            <4>. QED BY <2>3, <3>1, <3>2, <3>5, <4>1
        <3>6. CASE k = n /\ l # n
            <4>1. l \in 1..Len(accepted[a])
                BY <1>11, <3>3, <3>6
            <4>. QED BY <2>3, <3>1, <3>2, <3>6, <4>1
        <3>. QED BY <3>4, <3>5, <3>6
    <2>. QED BY <2>2, <2>3
<1>15. Remembers'
    <2>. SUFFICES ASSUME ~setBack, NEW b \in Agents, NEW k \in DOMAIN accepted'[b]
                  PROVE  Remembered(b, accepted[b][k])'
        BY DEF Remembers, clockVars
    <2>1. now' = now
        BY DEF clockVars
    <2>2. \A c \in Agents : \A p \in DOMAIN accepted[c] :
              /\ Remembered(c, accepted[c][p])
              /\ accepted[c][p] \in DOMAIN msgs
              /\ msgs'[accepted[c][p]] = msgs[accepted[c][p]]
        BY DEF IInv, Remembers, Known
    <2>3. CASE b # a
        BY <2>1, <2>2, <2>3, <1>9 DEF Remembered
    <2>4. CASE b = a /\ k \in DOMAIN accepted[a]
        <3>. DEFINE j == accepted[a][k]
        <3>1. Remembered(a, j) /\ msgs'[j] = msgs[j] /\ accepted'[b][k] = j
            BY <2>2, <2>4, <1>1, <1>11
        <3>2. Stale(msgs[j].ts, now) \/ [id |-> j, ts |-> msgs[j].ts] \in Prune(seen[a], now)
            BY <3>1, PruneKeeps DEF Remembered
        <3>. QED BY <3>1, <3>2, <2>1, <2>4, <1>10 DEF Remembered
    <2>5. CASE b = a /\ k = Len(accepted[a]) + 1
        BY <2>5, <2>1, <1>10, <1>11 DEF Remembered
    <2>. QED BY <2>3, <2>4, <2>5, <1>11
<1>. QED BY <1>5, <1>7, <1>8, <1>12, <1>14, <1>15

LEMMA CollectInv ==
    ASSUME IInv, NEW i \in DOMAIN msgs, Collect(i)
    PROVE  IInv'
<1>1. i \in Ids /\ msgs[i].to \in Agents
    BY MessageFields DEF IInv
<1>2. MsgsType' /\ ClockType'
    BY DEF IInv, TypeOK, Collect, MsgsType, ClockType, clockVars
<1>3. /\ InboxType' /\ Known' /\ Remembers' /\ AcceptedOnce'
      /\ seen' \in [Agents -> SUBSET [id : Ids, ts : Nat]]
      /\ accepted' \in [Agents -> Seq(Ids)]
    BY AcceptInv DEF Collect
<1>4. LogType'
    BY <1>3 DEF IInv, TypeOK, Collect, LogType
<1>5. RequestType'
    BY <1>1 DEF IInv, TypeOK, Collect, Tell, RequestType
<1>. QED BY <1>2, <1>3, <1>4, <1>5, TypePartsNext DEF IInv

LEMMA ReceiveInv ==
    ASSUME IInv, NEW i \in DOMAIN msgs, Receive(i)
    PROVE  IInv'
<1>1. i \in Ids /\ msgs[i].to \in Agents /\ msgs[i].route \in Seq(Agents) /\ msgs[i].depth \in Nat
    BY MessageFields DEF IInv
<1>. DEFINE m == msgs[i]
            relayed == m.route # <<>> /\ Outbound(m.to, Head(m.route))
            told == IF call[i] = "flying" THEN "accepted" ELSE call[i]
            relay == Message(m.to, Head(m.route), 0, Tail(m.route), m.depth + 1)
<1>2. /\ MsgsType'
      /\ \A j \in DOMAIN msgs : j \in DOMAIN msgs' /\ msgs'[j] = msgs[j]
      /\ call' \in [Ids -> {"none", "flying", "accepted", "denied", "done"}]
    <2>1. told \in {"none", "flying", "accepted", "denied", "done"}
        BY <1>1 DEF IInv, TypeOK
    <2>2. CASE relayed
        <3>1. /\ Len(msgs) < MaxMessages /\ msgs' = Append(msgs, relay)
              /\ call' = [call EXCEPT ![i] = told, ![Len(msgs) + 1] = "flying"]
            BY <2>2 DEF Receive
        <3>2. Head(m.route) \in Agents /\ Tail(m.route) \in Seq(Agents)
            BY <1>1, <2>2, HeadTailProperties
        <3>3. m.depth + 1 \in Nat /\ 0 \in Ids \cup {0}
            BY <1>1
        <3>4. relay \in MessageSet
            <4>. HIDE DEF m
            <4>. QED BY <1>1, <3>2, <3>3, MessageType DEF IInv, m
        <3>5. MsgsType' /\ \A j \in DOMAIN msgs : j \in DOMAIN msgs' /\ msgs'[j] = msgs[j]
            <4>. HIDE DEF relay
            <4>. QED BY <3>1, <3>4, CreateEffect DEF IInv
        <3>6. call' \in [Ids -> {"none", "flying", "accepted", "denied", "done"}]
            <4>. HIDE DEF told
            <4>. QED BY <2>1, <3>1 DEF IInv, TypeOK
        <3>. QED BY <3>5, <3>6
    <2>3. CASE ~relayed
        <3>1. msgs' = msgs /\ call' = [call EXCEPT ![i] = told]
            BY <2>3 DEF Receive
        <3>. HIDE DEF told
        <3>. QED BY <2>1, <3>1 DEF IInv, TypeOK, MsgsType
    <2>. QED BY <2>2, <2>3
<1>3. ClockType' /\ Accept(i) /\ UNCHANGED <<clockVars, outcome, reply, pending>>
      /\ woken' = [woken EXCEPT ![m.to] = woken[m.to] \cup {i}]
    BY DEF IInv, TypeOK, Receive, ClockType, clockVars
<1>4. /\ InboxType' /\ Known' /\ Remembers' /\ AcceptedOnce'
      /\ seen' \in [Agents -> SUBSET [id : Ids, ts : Nat]]
      /\ accepted' \in [Agents -> Seq(Ids)]
    BY <1>2, <1>3, AcceptInv
<1>5. LogType'
    BY <1>1, <1>3, <1>4 DEF IInv, TypeOK, LogType
<1>6. RequestType'
    BY <1>2, <1>3 DEF IInv, TypeOK, RequestType
<1>. QED BY <1>2, <1>3, <1>4, <1>5, <1>6, TypePartsNext DEF IInv

-----------------------------------------------------------------------------
(* The environment's steps. *)

LEMMA ClockInv ==
    ASSUME IInv, Tick \/ \E t \in 0..MaxTime : SetBack(t)
    PROVE  IInv'
<1>1. MsgsType' /\ RequestType' /\ InboxType' /\ LogType'
    BY DEF IInv, TypeOK, Tick, SetBack, MsgsType, RequestType, InboxType, LogType, daemonVars
<1>2. ClockType'
    <2>1. now \in 0..MaxTime /\ setBack \in BOOLEAN /\ restarts \in 0..MaxRestarts
        BY DEF IInv, TypeOK
    <2>2. restarts' = restarts
        BY DEF Tick, SetBack
    <2>3. now' \in 0..MaxTime
        BY <2>1, CommAssumption DEF Tick, SetBack
    <2>4. setBack' = setBack \/ setBack' = TRUE
        BY DEF Tick, SetBack
    <2>5. setBack' \in BOOLEAN
        BY <2>1, <2>4
    <2>. QED BY <2>1, <2>2, <2>3, <2>5 DEF ClockType
<1>3. Known' /\ Remembers' /\ AcceptedOnce'
    BY LogsUntouched DEF Tick, SetBack, daemonVars, clockVars
<1>. QED BY <1>1, <1>2, <1>3, TypePartsNext DEF IInv

LEMMA RestartInv ==
    ASSUME IInv, NEW a \in Agents, Restart(a)
    PROVE  IInv'
<1>1. Forget(a) /\ UNCHANGED <<clockVars, msgs>>
    BY DEF Restart
<1>2. ClockType'
    <2>1. restarts \in 0..MaxRestarts /\ restarts < MaxRestarts /\ restarts' = restarts + 1
        BY DEF IInv, TypeOK, Restart
    <2>2. restarts' \in 0..MaxRestarts
        BY <2>1, CommAssumption
    <2>3. now' = now /\ setBack' = setBack
        BY <1>1 DEF clockVars
    <2>4. now \in 0..MaxTime /\ setBack \in BOOLEAN
        BY DEF IInv, TypeOK
    <2>. QED BY <2>2, <2>3, <2>4 DEF ClockType
<1>3. outcome' \in [Ids -> {"none", "waiting", "replied", "timedOut", "failed", "unhandled", "lost"}]
    BY DEF IInv, TypeOK, Restart
<1>. QED BY <1>1, <1>2, <1>3, ForgetInv, TypePartsNext DEF IInv, RequestType

LEMMA CommInductive == IInv /\ [Next]_vars => IInv'
<1>. SUFFICES ASSUME IInv, [Next]_vars PROVE IInv'
    OBVIOUS
<1>1. ASSUME NEW a \in Agents, NEW b \in Agents, Request(a, b) PROVE IInv'
    BY <1>1, RequestInv
<1>2. ASSUME NEW a \in Agents, NEW b \in Agents, NEW corr \in 0..Len(msgs), Send(a, b, corr)
      PROVE IInv'
    BY <1>2, SendInv
<1>3. ASSUME NEW a \in Agents, Restart(a) PROVE IInv'
    BY <1>3, RestartInv
<1>4. ASSUME NEW a \in Agents, NEW route \in Routes, Initiate(a, route) PROVE IInv'
    BY <1>4, InitiateInv
<1>5. ASSUME NEW i \in DOMAIN msgs, Acked(i) \/ Failed(i) \/ Timeout(i) PROVE IInv'
    BY <1>5, AckedFailedInv, TimeoutInv
<1>6. ASSUME NEW i \in DOMAIN msgs, Deny(i) \/ Collect(i) \/ Receive(i) PROVE IInv'
    BY <1>6, DenyInv, CollectInv, ReceiveInv
<1>7. CASE Tick \/ \E t \in 0..MaxTime : SetBack(t)
    BY <1>7, ClockInv
<1>8. CASE UNCHANGED vars
    <2>1. TypeOK'
        BY <1>8 DEF IInv, TypeOK, vars, clockVars, daemonVars
    <2>2. Known' /\ Remembers' /\ AcceptedOnce'
        BY <1>8, LogsUntouched DEF vars, clockVars, daemonVars
    <2>. QED BY <2>1, <2>2 DEF IInv
<1>. QED BY <1>1, <1>2, <1>3, <1>4, <1>5, <1>6, <1>7, <1>8 DEF Next, SenderStep

-----------------------------------------------------------------------------
(* The theorems. *)

LEMMA CommInvariant == Spec => []IInv
BY CommInit, CommInductive, PTL DEF Spec

\* The daemons' state has its types: no inbox outgrows its limit, and a message
\* is only ever relayed, answered and remembered under an id that was given out.
THEOREM CommTypeCorrect == Spec => []TypeOK
<1>1. IInv => TypeOK
    BY DEF IInv
<1>. QED BY <1>1, CommInvariant, PTL

\* A daemon accepts a message at most once while it runs, whatever the window,
\* the skew and the order of deliveries, unless the clock was set back.
THEOREM CommAcceptedOnce == Spec => []AcceptedOnce
<1>1. IInv => AcceptedOnce
    BY DEF IInv
<1>. QED BY <1>1, CommInvariant, PTL

-----------------------------------------------------------------------------
(* The requests: their owners, their replies and what was done with them. *)

\* Daemon a accepted message j since it started.
AcceptedBy(a, j) == \E k \in DOMAIN accepted[a] : accepted[a][k] = j

\* A pending request is its sender's; what was not created has neither an
\* outcome nor a reply.
Owned ==
    /\ \A a \in Agents : \A r \in pending[a] : r \in DOMAIN msgs /\ msgs[r].from = a
    /\ \A i \in Ids \ DOMAIN msgs : outcome[i] = "none" /\ reply[i] = 0

\* The reply j of request i: accepted by the daemon of the request's sender,
\* which no longer waits for another.
ReplyOf(j, i) ==
    /\ i \in DOMAIN msgs /\ j \in DOMAIN msgs
    /\ msgs[j].corr = i /\ msgs[j].from = msgs[i].to /\ msgs[j].to = msgs[i].from
    /\ AcceptedBy(msgs[i].from, j)
    /\ i \notin pending[msgs[i].from]

Replies == \A i \in Ids : reply[i] # 0 => ReplyOf(reply[i], i)

\* A loop is woken by messages to its agent that its daemon accepted.
Wakes == \A a \in Agents : \A j \in woken[a] : AcceptedBy(a, j) /\ msgs[j].to = a

RequestsInv == Owned /\ Replies /\ NoOrphans /\ Wakes /\ HandledOnce

-----------------------------------------------------------------------------
(* Requests and replies. *)

LEMMA RequestsInit == Init => RequestsInv
<1>. SUFFICES ASSUME Init PROVE RequestsInv
    OBVIOUS
<1>. USE DEF Init
<1>1. Owned /\ Wakes
    BY DEF Owned, Wakes
<1>2. Replies /\ HandledOnce
    BY DEF Replies, HandledOnce
<1>3. DOMAIN msgs = {}
    OBVIOUS
<1>4. NoOrphans
    BY <1>3 DEF NoOrphans
<1>. QED BY <1>1, <1>2, <1>4 DEF RequestsInv

\* A message is new to the log of the daemon that accepts it.
LEMMA FirstAcceptance ==
    ASSUME IInv, NEW i \in DOMAIN msgs, Accept(i), ~setBack
    PROVE  ~AcceptedBy(msgs[i].to, i)
<1>. DEFINE a == msgs[i].to
            mark == [id |-> i, ts |-> msgs[i].ts]
<1>. SUFFICES ASSUME NEW k \in DOMAIN accepted[a], accepted[a][k] = i PROVE FALSE
    BY DEF AcceptedBy
<1>1. Remembered(a, i)
    BY MessageFields DEF IInv, Remembers
<1>2. Inbound(seen[a], i, msgs[i], now)
    BY DEF Accept
<1>3. ~Stale(msgs[i].ts, now)
    BY <1>2 DEF Inbound, Timely
<1>4. mark \in Prune(seen[a], now)
    BY <1>1, <1>3, PruneKeeps DEF Remembered
<1>5. ~Replayed(Prune(seen[a], now), i)
    BY <1>2 DEF Inbound
<1>. QED BY <1>4, <1>5 DEF Replayed

\* Its log gains that message, and no other log changes.
LEMMA AcceptLogs ==
    ASSUME TypeOK, NEW i \in DOMAIN msgs, Accept(i)
    PROVE  \A j : \A a \in Agents : AcceptedBy(a, j)' <=> AcceptedBy(a, j) \/ (a = msgs[i].to /\ j = i)
<1>0. PICK b \in Agents : b = msgs[i].to
    BY MessageFields
<1>1. i \in Ids /\ accepted \in [Agents -> Seq(Ids)]
    BY MessageFields DEF TypeOK
<1>2. accepted' = [accepted EXCEPT ![b] = Append(accepted[b], i)]
    BY <1>0 DEF Accept
<1>3. \A a \in Agents : a # b => accepted'[a] = accepted[a]
    BY <1>1, <1>2
<1>4. /\ Len(accepted[b]) \in Nat /\ DOMAIN accepted[b] = 1..Len(accepted[b])
      /\ DOMAIN accepted'[b] = 1..(Len(accepted[b]) + 1)
      /\ \A k \in 1..Len(accepted[b]) : accepted'[b][k] = accepted[b][k]
      /\ accepted'[b][Len(accepted[b]) + 1] = i
    BY <1>1, <1>2, AppendProperties, LenProperties
<1>5. DOMAIN accepted'[b] = DOMAIN accepted[b] \cup {Len(accepted[b]) + 1}
    BY <1>4
<1>6. \A j : AcceptedBy(b, j)' <=> AcceptedBy(b, j) \/ j = i
    BY <1>4, <1>5 DEF AcceptedBy
<1>. QED BY <1>0, <1>3, <1>6 DEF AcceptedBy

\* Steps that add messages or touch neither requests nor logs.
LEMMA RequestsUntouched ==
    ASSUME IInv, TypeOK', RequestsInv,
           UNCHANGED <<outcome, reply, pending, accepted, woken>>,
           \A i \in DOMAIN msgs : i \in DOMAIN msgs' /\ msgs'[i] = msgs[i],
           ~setBack' => ~setBack
    PROVE  RequestsInv'
<1>1. \A i \in DOMAIN msgs' : i \in Ids /\ msgs'[i].from \in Agents
    <2>. USE TypeOK'
    <2>. SUFFICES ASSUME NEW i \in DOMAIN msgs' PROVE i \in Ids /\ msgs'[i].from \in Agents
        OBVIOUS
    <2>1. msgs' \in Seq(MessageSet) /\ Len(msgs') <= MaxMessages /\ MaxMessages \in Nat
        BY CommAssumption DEF TypeOK
    <2>2. DOMAIN msgs' = 1..Len(msgs') /\ Len(msgs') \in Nat
        BY <2>1, LenProperties
    <2>3. msgs'[i] \in MessageSet
        BY <2>1, <2>2, ElementOfSeq
    <2>. QED BY <2>1, <2>2, <2>3 DEF Ids, MessageSet
<1>2. Owned'
    BY DEF RequestsInv, Owned
<1>3. Replies'
    BY DEF RequestsInv, Replies, ReplyOf, AcceptedBy
<1>4. Wakes'
    <2>1. \A j : \A a \in Agents : AcceptedBy(a, j) => j \in DOMAIN msgs
        BY DEF IInv, Known, AcceptedBy
    <2>. QED BY <2>1 DEF RequestsInv, Wakes, AcceptedBy
<1>5. HandledOnce'
    BY DEF RequestsInv, HandledOnce
<1>6. NoOrphans'
    <2>. SUFFICES ASSUME NEW i \in DOMAIN msgs'
                  PROVE  /\ outcome[i] = "waiting" => i \in pending[msgs'[i].from] \/ reply[i] # 0
                         /\ i \in pending[msgs'[i].from] => outcome[i] = "waiting"
        BY DEF NoOrphans
    <2>1. CASE i \in DOMAIN msgs
        BY <2>1 DEF RequestsInv, NoOrphans
    <2>2. CASE i \notin DOMAIN msgs
        BY <1>1, <2>2 DEF RequestsInv, Owned
    <2>. QED BY <2>1, <2>2
<1>. QED BY <1>2, <1>3, <1>4, <1>5, <1>6 DEF RequestsInv

\* A new request: nothing was known of its number.
LEMMA RequestRequests ==
    ASSUME IInv, RequestsInv, NEW a \in Agents, NEW b \in Agents, Request(a, b)
    PROVE  RequestsInv'
<1>. DEFINE n == Len(msgs) + 1
            m == Message(a, b, 0, <<>>, 0)
<1>1. /\ msgs' = Append(msgs, m) /\ Len(msgs) < MaxMessages
      /\ pending' = [pending EXCEPT ![a] = pending[a] \cup {n}]
      /\ outcome' = [outcome EXCEPT ![n] = "waiting"]
      /\ UNCHANGED <<setBack, reply, accepted, woken>>
    BY DEF Request, Create, clockVars, daemonVars
<1>2. /\ msgs \in Seq(MessageSet) /\ Len(msgs) \in Nat
      /\ outcome \in [Ids -> {"none", "waiting", "replied", "timedOut", "failed", "unhandled", "lost"}]
      /\ pending \in [Agents -> SUBSET Ids]
    BY LenProperties DEF IInv, TypeOK
<1>3. /\ n \in Ids /\ n \notin DOMAIN msgs /\ n \in DOMAIN msgs'
      /\ msgs'[n] = m /\ m.from = a
      /\ \A i \in DOMAIN msgs : i \in DOMAIN msgs' /\ msgs'[i] = msgs[i]
      /\ \A i \in DOMAIN msgs' : i = n \/ i \in DOMAIN msgs
    <2>1. m \in MessageSet
        BY MessageType, EmptySeq DEF IInv
    <2>2. m.from = a
        BY DEF Message
    <2>. HIDE DEF m
    <2>3. /\ n \in Ids /\ \A i \in DOMAIN msgs : i \in DOMAIN msgs' /\ msgs'[i] = msgs[i]
        BY <1>1, <2>1, CreateEffect DEF IInv
    <2>4. /\ DOMAIN msgs = 1..Len(msgs) /\ DOMAIN msgs' = 1..n /\ msgs'[n] = m
        BY <1>1, <1>2, <2>1, AppendProperties, LenProperties
    <2>5. n \notin 1..Len(msgs) /\ n \in 1..n /\ \A i \in 1..n : i = n \/ i \in 1..Len(msgs)
        BY <1>2
    <2>. QED BY <2>2, <2>3, <2>4, <2>5
<1>. HIDE DEF n, m
<1>4. /\ \A c \in Agents : c # a => pending'[c] = pending[c]
      /\ pending'[a] = pending[a] \cup {n}
      /\ \A i \in Ids : i # n => outcome'[i] = outcome[i]
      /\ outcome'[n] = "waiting" /\ reply[n] = 0
      /\ \A c \in Agents : n \notin pending[c]
    BY <1>1, <1>2, <1>3 DEF RequestsInv, Owned
<1>5. Owned'
    BY <1>1, <1>3, <1>4 DEF RequestsInv, Owned
<1>6. Replies'
    <2>. SUFFICES ASSUME NEW i \in Ids, reply[i] # 0 PROVE ReplyOf(reply[i], i)'
        BY <1>1 DEF Replies
    <2>1. ReplyOf(reply[i], i) /\ i # n
        BY <1>4 DEF RequestsInv, Replies
    <2>2. msgs[i].from \in Agents
        BY <2>1, MessageFields DEF IInv, ReplyOf
    <2>. QED BY <1>1, <1>3, <1>4, <2>1, <2>2 DEF ReplyOf, AcceptedBy
<1>7. Wakes'
    <2>1. \A j : \A c \in Agents : AcceptedBy(c, j) => j \in DOMAIN msgs
        BY DEF IInv, Known, AcceptedBy
    <2>. QED BY <1>1, <1>3, <2>1 DEF RequestsInv, Wakes, AcceptedBy
<1>8. HandledOnce'
    BY <1>1 DEF RequestsInv, HandledOnce
<1>9. NoOrphans'
    <2>. SUFFICES ASSUME NEW i \in DOMAIN msgs'
                  PROVE  /\ outcome'[i] = "waiting" => i \in pending'[msgs'[i].from] \/ reply'[i] # 0
                         /\ i \in pending'[msgs'[i].from] => outcome'[i] = "waiting"
        BY DEF NoOrphans
    <2>1. CASE i = n
        BY <1>3, <1>4, <2>1
    <2>2. CASE i # n
        <3>1. i \in DOMAIN msgs /\ i \in Ids /\ msgs[i].from \in Agents /\ msgs'[i] = msgs[i]
            BY <1>3, <2>2, MessageFields DEF IInv
        <3>2. outcome'[i] = outcome[i] /\ (i \in pending'[msgs[i].from] <=> i \in pending[msgs[i].from])
            BY <1>4, <2>2, <3>1
        <3>. QED BY <1>1, <3>1, <3>2 DEF RequestsInv, NoOrphans
    <2>. QED BY <2>1, <2>2
<1>. QED BY <1>5, <1>6, <1>7, <1>8, <1>9 DEF RequestsInv

\* A step that decides on one request, consistently.
LEMMA RequestDecided ==
    ASSUME IInv, RequestsInv, NEW i \in DOMAIN msgs, NEW o,
           UNCHANGED <<setBack, msgs, reply, accepted, woken>>,
           outcome' = [outcome EXCEPT ![i] = o],
           \/ pending' = pending
           \/ pending' = [pending EXCEPT ![msgs[i].from] = pending[msgs[i].from] \ {i}],
           o = "waiting" => i \in pending'[msgs[i].from] \/ reply[i] # 0,
           i \in pending'[msgs[i].from] => o = "waiting"
    PROVE  RequestsInv'
<1>1. i \in Ids /\ \A k \in DOMAIN msgs : msgs[k].from \in Agents
    BY MessageFields DEF IInv
<1>2. /\ outcome'[i] = o /\ \A k \in Ids : k # i => outcome'[k] = outcome[k]
      /\ \A a \in Agents : pending'[a] \subseteq pending[a] /\ pending[a] \ {i} \subseteq pending'[a]
    BY <1>1 DEF IInv, TypeOK
<1>3. Owned'
    BY <1>2 DEF RequestsInv, Owned
<1>4. Replies'
    BY <1>1, <1>2 DEF RequestsInv, Replies, ReplyOf, AcceptedBy
<1>5. Wakes' /\ HandledOnce'
    BY DEF RequestsInv, Wakes, AcceptedBy, HandledOnce
<1>6. NoOrphans'
    <2>. SUFFICES ASSUME NEW k \in DOMAIN msgs
                  PROVE  /\ outcome'[k] = "waiting" => k \in pending'[msgs[k].from] \/ reply[k] # 0
                         /\ k \in pending'[msgs[k].from] => outcome'[k] = "waiting"
        BY DEF NoOrphans
    <2>1. CASE k = i
        BY <1>2, <2>1
    <2>2. CASE k # i
        <3>1. k \in Ids
            BY MessageFields DEF IInv
        <3>. QED BY <1>1, <1>2, <2>2, <3>1 DEF RequestsInv, NoOrphans
    <2>. QED BY <2>1, <2>2
<1>. QED BY <1>3, <1>4, <1>5, <1>6 DEF RequestsInv

\* A process that ends takes its requests, its replies and its logs with it.
LEMMA ForgetRequests ==
    ASSUME IInv, RequestsInv, NEW a \in Agents, Forget(a), UNCHANGED <<clockVars, msgs>>,
           \A k \in DOMAIN msgs : IF msgs[k].from = a THEN outcome'[k] # "waiting"
                                                      ELSE outcome'[k] = outcome[k],
           \A k \in Ids \ DOMAIN msgs : outcome'[k] = outcome[k]
    PROVE  RequestsInv'
<1>1. \A k \in DOMAIN msgs : k \in Ids /\ msgs[k].from \in Agents
    BY MessageFields DEF IInv
<1>2. /\ pending'[a] = {} /\ woken'[a] = {}
      /\ \A b \in Agents : b # a => /\ pending'[b] = pending[b] /\ woken'[b] = woken[b]
                                    /\ accepted'[b] = accepted[b]
      /\ \A k \in DOMAIN msgs : reply'[k] = IF msgs[k].from = a THEN 0 ELSE reply[k]
      /\ \A k \in Ids \ DOMAIN msgs : reply'[k] = reply[k]
      /\ woken \in [Agents -> SUBSET Ids]
    BY <1>1 DEF Forget, IInv, TypeOK
<1>3. Owned'
    BY <1>2 DEF RequestsInv, Owned
<1>4. Replies'
    <2>. SUFFICES ASSUME NEW i \in Ids, reply'[i] # 0 PROVE ReplyOf(reply[i], i)'
        BY DEF Replies
    <2>1. reply[i] # 0
        BY <1>2
    <2>2. ReplyOf(reply[i], i)
        BY <2>1 DEF RequestsInv, Replies
    <2>3. i \in DOMAIN msgs /\ msgs[i].from \in Agents
        BY <1>1, <2>2 DEF ReplyOf
    <2>4. reply'[i] = reply[i] /\ msgs[i].from # a
        BY <1>2, <2>3
    <2>. QED BY <1>2, <2>2, <2>3, <2>4 DEF ReplyOf, AcceptedBy
<1>5. Wakes'
    BY <1>2 DEF RequestsInv, Wakes, AcceptedBy
<1>6. HandledOnce'
    <2>. SUFFICES ASSUME ~setBack, NEW i \in Ids, NEW b \in Agents PROVE reply'[i] \notin woken'[b]
        BY DEF HandledOnce, clockVars
    <2>1. reply'[i] = 0 \/ reply'[i] = reply[i]
        BY <1>2
    <2>2. 0 \notin woken[b]
        BY <1>2 DEF Ids
    <2>3. reply[i] \notin woken[b]
        BY DEF RequestsInv, HandledOnce
    <2>4. woken'[b] \subseteq woken[b]
        BY <1>2
    <2>. QED BY <2>1, <2>2, <2>3, <2>4
<1>7. NoOrphans'
    BY <1>1, <1>2 DEF RequestsInv, NoOrphans
<1>. QED BY <1>3, <1>4, <1>5, <1>6, <1>7 DEF RequestsInv

LEMMA SenderRequests ==
    ASSUME IInv, RequestsInv, NEW i \in DOMAIN msgs, Acked(i) \/ Failed(i) \/ Timeout(i)
    PROVE  RequestsInv'
<1>1. i \in Ids /\ msgs[i].from \in Agents
    BY MessageFields DEF IInv
<1>2. /\ pending \in [Agents -> SUBSET Ids]
      /\ outcome \in [Ids -> {"none", "waiting", "replied", "timedOut", "failed", "unhandled", "lost"}]
    BY DEF IInv, TypeOK
<1>3. CASE Acked(i)
    <2>. DEFINE o == IF reply[i] # 0 THEN "replied" ELSE outcome[i]
    <2>1. /\ UNCHANGED <<setBack, msgs, reply, accepted, woken, pending>>
          /\ outcome' = [outcome EXCEPT ![i] = o]
        BY <1>3 DEF Acked, clockVars, daemonVars
    <2>2. reply[i] # 0 => i \notin pending[msgs[i].from]
        BY <1>1 DEF RequestsInv, Replies, ReplyOf
    <2>3. /\ o = "waiting" => i \in pending'[msgs[i].from] \/ reply[i] # 0
          /\ i \in pending'[msgs[i].from] => o = "waiting"
        BY <2>1, <2>2 DEF RequestsInv, NoOrphans
    <2>. HIDE DEF o
    <2>. QED BY <2>1, <2>3, RequestDecided
<1>4. CASE Failed(i) \/ (Timeout(i) /\ call[i] = "done")
    <2>1. UNCHANGED <<setBack, msgs, reply, accepted, woken>>
        BY <1>4 DEF Failed, Timeout, clockVars, daemonVars
    <2>2. /\ pending' = [pending EXCEPT ![msgs[i].from] = pending[msgs[i].from] \ {i}]
          /\ \E o : o # "waiting" /\ outcome' = [outcome EXCEPT ![i] = o]
        <3>1. CASE Failed(i)
            <4>. DEFINE o == IF outcome[i] = "waiting" THEN "failed" ELSE outcome[i]
            <4>1. o # "waiting" /\ outcome' = [outcome EXCEPT ![i] = o]
                BY <3>1 DEF Failed
            <4>2. pending' = [pending EXCEPT ![msgs[i].from] = pending[msgs[i].from] \ {i}]
                BY <3>1 DEF Failed
            <4>. HIDE DEF o
            <4>. QED BY <4>1, <4>2
        <3>2. CASE Timeout(i) /\ call[i] = "done"
            <4>1. /\ pending' = [pending EXCEPT ![msgs[i].from] = pending[msgs[i].from] \ {i}]
                  /\ outcome' = [outcome EXCEPT ![i] = "timedOut"]
                BY <3>2 DEF Timeout
            <4>. QED BY <4>1
        <3>. QED BY <1>4, <3>1, <3>2
    <2>3. i \notin pending'[msgs[i].from]
        BY <1>1, <1>2, <2>2
    <2>. QED BY <2>1, <2>2, <2>3, RequestDecided
<1>5. CASE Timeout(i) /\ call[i] # "done"
    <2>. DEFINE a == msgs[i].from
    <2>1. /\ Forget(a) /\ UNCHANGED <<clockVars, msgs>>
          /\ outcome' = [k \in Ids |-> IF k = i THEN "unhandled"
                            ELSE IF outcome[k] = "waiting" /\ msgs[k].from = a THEN "lost"
                            ELSE outcome[k]]
        BY <1>5 DEF Timeout
    <2>2. \A k \in DOMAIN msgs : k \in Ids
        BY MessageFields DEF IInv
    <2>3. \A k \in Ids \ DOMAIN msgs : outcome[k] = "none"
        BY DEF RequestsInv, Owned
    <2>. QED BY <1>1, <1>2, <2>1, <2>2, <2>3, ForgetRequests
<1>. QED BY <1>3, <1>4, <1>5

\* A reply is collected: the request it names waits no longer, and the message
\* is new, so nothing was done with it before.
LEMMA CollectRequests ==
    ASSUME IInv, RequestsInv, NEW i \in DOMAIN msgs, Collect(i)
    PROVE  RequestsInv'
<1>1. PICK a \in Agents, r \in Ids \cup {0} : a = msgs[i].to /\ r = msgs[i].corr
    <2>1. msgs[i] \in MessageSet
        BY ElementOfSeq, LenProperties DEF IInv, TypeOK
    <2>. QED BY <2>1 DEF MessageSet
<1>2. /\ r \in pending[a] /\ msgs[i].from = msgs[r].to
      /\ pending' = [pending EXCEPT ![a] = pending[a] \ {r}]
      /\ reply' = [reply EXCEPT ![r] = i]
      /\ outcome' = [outcome EXCEPT ![r] = IF call[r] = "done" THEN "replied" ELSE outcome[r]]
      /\ UNCHANGED <<setBack, msgs, woken>> /\ Accept(i)
    BY <1>1 DEF Collect, Collects, clockVars
<1>3. /\ r \in DOMAIN msgs /\ r \in Ids /\ msgs[r].from = a /\ i \in Ids /\ i # 0
      /\ \A k \in DOMAIN msgs : k \in Ids /\ msgs[k].from \in Agents
    BY <1>2, MessageFields DEF RequestsInv, Owned, IInv, Ids
<1>4. /\ \A j : \A b \in Agents : AcceptedBy(b, j)' <=> AcceptedBy(b, j) \/ (b = a /\ j = i)
    BY <1>1, <1>2, AcceptLogs DEF IInv
<1>5. /\ \A b \in Agents : pending'[b] = IF b = a THEN pending[a] \ {r} ELSE pending[b]
      /\ \A k \in Ids : reply'[k] = IF k = r THEN i ELSE reply[k]
      /\ \A k \in Ids : k # r => outcome'[k] = outcome[k]
    BY <1>2 DEF IInv, TypeOK
<1>6. Owned'
    BY <1>2, <1>3, <1>5 DEF RequestsInv, Owned
<1>7. Replies'
    <2>. SUFFICES ASSUME NEW k \in Ids, reply'[k] # 0 PROVE ReplyOf(reply[k], k)'
        BY DEF Replies
    <2>1. CASE k = r
        BY <1>1, <1>2, <1>3, <1>4, <1>5, <2>1 DEF ReplyOf
    <2>2. CASE k # r
        <3>1. ReplyOf(reply[k], k) /\ reply'[k] = reply[k]
            BY <1>5, <2>2 DEF RequestsInv, Replies
        <3>2. msgs[k].from \in Agents
            BY <1>3, <3>1 DEF ReplyOf
        <3>. QED BY <1>2, <1>4, <1>5, <3>1, <3>2 DEF ReplyOf
    <2>. QED BY <2>1, <2>2
<1>8. Wakes'
    BY <1>2, <1>4 DEF RequestsInv, Wakes
<1>9. HandledOnce'
    <2>. SUFFICES ASSUME ~setBack, NEW k \in Ids, NEW b \in Agents PROVE reply'[k] \notin woken[b]
        BY <1>2 DEF HandledOnce
    <2>1. CASE k = r
        <3>1. ~AcceptedBy(a, i)
            BY <1>1, <1>2, FirstAcceptance
        <3>2. i \notin woken[b]
            BY <1>1, <3>1 DEF RequestsInv, Wakes
        <3>. QED BY <1>5, <2>1, <3>2
    <2>2. CASE k # r
        BY <1>5, <2>2 DEF RequestsInv, HandledOnce
    <2>. QED BY <2>1, <2>2
<1>10. NoOrphans'
    <2>. SUFFICES ASSUME NEW k \in DOMAIN msgs
                  PROVE  /\ outcome'[k] = "waiting" => k \in pending'[msgs[k].from] \/ reply'[k] # 0
                         /\ k \in pending'[msgs[k].from] => outcome'[k] = "waiting"
        BY <1>2 DEF NoOrphans
    <2>1. CASE k = r
        BY <1>3, <1>5, <2>1
    <2>2. CASE k # r
        BY <1>3, <1>5, <2>2 DEF RequestsInv, NoOrphans
    <2>. QED BY <2>1, <2>2
<1>. QED BY <1>6, <1>7, <1>8, <1>9, <1>10 DEF RequestsInv

\* Any other message wakes the loop; being new, it is nobody's reply.
LEMMA ReceiveRequests ==
    ASSUME IInv, IInv', RequestsInv, NEW i \in DOMAIN msgs, Receive(i)
    PROVE  RequestsInv'
<1>1. PICK a \in Agents : a = msgs[i].to
    BY MessageFields DEF IInv
<1>2. /\ woken' = [woken EXCEPT ![a] = woken[a] \cup {i}]
      /\ UNCHANGED <<setBack, outcome, reply, pending>> /\ Accept(i)
    BY <1>1 DEF Receive, clockVars
<1>3. /\ \A k \in DOMAIN msgs : k \in DOMAIN msgs' /\ msgs'[k] = msgs[k]
      /\ \A k \in DOMAIN msgs : k \in Ids /\ msgs[k].from \in Agents
      /\ \A k \in DOMAIN msgs' : k \in Ids /\ msgs'[k].from \in Agents
    <2>1. \A k \in DOMAIN msgs : k \in Ids /\ msgs[k].from \in Agents
        BY MessageFields DEF IInv
    <2>2. \A k \in DOMAIN msgs' : k \in Ids /\ msgs'[k].from \in Agents
        <3>1. msgs' \in Seq(MessageSet) /\ Len(msgs') <= MaxMessages /\ MaxMessages \in Nat
            BY CommAssumption DEF IInv, TypeOK
        <3>2. DOMAIN msgs' = 1..Len(msgs') /\ Len(msgs') \in Nat
            BY <3>1, LenProperties
        <3>3. \A k \in DOMAIN msgs' : msgs'[k] \in MessageSet
            BY <3>1, <3>2, ElementOfSeq
        <3>. QED BY <3>1, <3>2, <3>3 DEF Ids, MessageSet
    <2>3. msgs' = msgs \/ \E m : msgs' = Append(msgs, m)
        BY DEF Receive
    <2>4. msgs \in Seq(MessageSet) /\ Len(msgs) \in Nat /\ DOMAIN msgs = 1..Len(msgs)
        BY LenProperties DEF IInv, TypeOK
    <2>5. \A k \in DOMAIN msgs : k \in DOMAIN msgs' /\ msgs'[k] = msgs[k]
        BY <2>3, <2>4
    <2>. QED BY <2>1, <2>2, <2>5
<1>4. \A j : \A b \in Agents : AcceptedBy(b, j)' <=> AcceptedBy(b, j) \/ (b = a /\ j = i)
    BY <1>1, <1>2, AcceptLogs DEF IInv
<1>5. \A b \in Agents : woken'[b] = IF b = a THEN woken[a] \cup {i} ELSE woken[b]
    BY <1>2 DEF IInv, TypeOK
<1>6. Owned'
    BY <1>2, <1>3 DEF RequestsInv, Owned
<1>7. Replies'
    <2>. SUFFICES ASSUME NEW k \in Ids, reply[k] # 0 PROVE ReplyOf(reply[k], k)'
        BY <1>2 DEF Replies
    <2>1. ReplyOf(reply[k], k)
        BY DEF RequestsInv, Replies
    <2>2. msgs[k].from \in Agents
        BY <1>3, <2>1 DEF ReplyOf
    <2>. QED BY <1>2, <1>3, <1>4, <2>1, <2>2 DEF ReplyOf
<1>8. Wakes'
    <2>1. \A j : \A b \in Agents : AcceptedBy(b, j) => j \in DOMAIN msgs
        BY DEF IInv, Known, AcceptedBy
    <2>. QED BY <1>1, <1>3, <1>4, <1>5, <2>1 DEF RequestsInv, Wakes
<1>9. HandledOnce'
    <2>. SUFFICES ASSUME ~setBack, NEW k \in Ids, NEW b \in Agents PROVE reply[k] \notin woken'[b]
        BY <1>2 DEF HandledOnce
    <2>1. reply[k] # i
        <3>. SUFFICES ASSUME reply[k] = i PROVE FALSE
            OBVIOUS
        <3>1. ReplyOf(i, k)
            BY <1>3 DEF RequestsInv, Replies, Ids
        <3>2. AcceptedBy(a, i)
            BY <1>1, <3>1 DEF ReplyOf
        <3>. QED BY <1>1, <1>2, <3>2, FirstAcceptance
    <2>. QED BY <1>5, <2>1 DEF RequestsInv, HandledOnce
<1>10. NoOrphans'
    <2>. SUFFICES ASSUME NEW k \in DOMAIN msgs'
                  PROVE  /\ outcome[k] = "waiting" => k \in pending[msgs'[k].from] \/ reply[k] # 0
                         /\ k \in pending[msgs'[k].from] => outcome[k] = "waiting"
        BY <1>2 DEF NoOrphans
    <2>1. CASE k \in DOMAIN msgs
        BY <1>3, <2>1 DEF RequestsInv, NoOrphans
    <2>2. CASE k \notin DOMAIN msgs
        BY <1>3, <2>2 DEF RequestsInv, Owned
    <2>. QED BY <2>1, <2>2
<1>. QED BY <1>6, <1>7, <1>8, <1>9, <1>10 DEF RequestsInv

LEMMA RequestsInductive == IInv /\ RequestsInv /\ [Next]_vars => RequestsInv'
<1>. SUFFICES ASSUME IInv, RequestsInv, [Next]_vars PROVE RequestsInv'
    OBVIOUS
<1>0. IInv' /\ TypeOK'
    <2>1. IInv'
        BY CommInductive
    <2>. QED BY <2>1 DEF IInv
<1>1. ASSUME NEW a \in Agents, NEW b \in Agents, Request(a, b) PROVE RequestsInv'
    BY <1>1, RequestRequests
<1>2. CASE \/ \E a, b \in Agents : \E corr \in 0..Len(msgs) : Send(a, b, corr)
           \/ \E a \in Agents : \E route \in Routes : Initiate(a, route)
    <2>1. PICK m : msgs' = Append(msgs, m) /\ UNCHANGED <<clockVars, outcome, reply, pending, daemonVars>>
        BY <1>2 DEF Send, Initiate, Create
    <2>2. msgs \in Seq(MessageSet) /\ Len(msgs) \in Nat /\ DOMAIN msgs = 1..Len(msgs)
        BY LenProperties DEF IInv, TypeOK
    <2>3. \A k \in DOMAIN msgs : k \in DOMAIN msgs' /\ msgs'[k] = msgs[k]
        BY <2>1, <2>2
    <2>. QED BY <1>0, <2>1, <2>3, RequestsUntouched DEF clockVars, daemonVars
<1>3. ASSUME NEW a \in Agents, Restart(a) PROVE RequestsInv'
    <2>1. /\ Forget(a) /\ UNCHANGED <<clockVars, msgs>>
          /\ outcome' = [i \in Ids |-> IF outcome[i] = "waiting" /\ msgs[i].from = a
                                       THEN "lost" ELSE outcome[i]]
        BY <1>3 DEF Restart
    <2>2. \A k \in DOMAIN msgs : k \in Ids
        BY MessageFields DEF IInv
    <2>3. \A k \in Ids \ DOMAIN msgs : outcome[k] = "none"
        BY DEF RequestsInv, Owned
    <2>. QED BY <2>1, <2>2, <2>3, ForgetRequests
<1>4. ASSUME NEW i \in DOMAIN msgs, Acked(i) \/ Failed(i) \/ Timeout(i) PROVE RequestsInv'
    BY <1>4, SenderRequests
<1>5. ASSUME NEW i \in DOMAIN msgs, Collect(i) PROVE RequestsInv'
    BY <1>5, CollectRequests
<1>6. ASSUME NEW i \in DOMAIN msgs, Receive(i) PROVE RequestsInv'
    BY <1>0, <1>6, ReceiveRequests
<1>7. CASE \/ \E i \in DOMAIN msgs : Deny(i)
           \/ Tick \/ \E t \in 0..MaxTime : SetBack(t)
    <2>1. /\ UNCHANGED <<msgs, outcome, reply, pending, accepted, woken>>
          /\ ~setBack' => ~setBack
        BY <1>7 DEF Deny, Tick, SetBack, vars, clockVars, daemonVars
    <2>. QED BY <1>0, <2>1, RequestsUntouched
<1>8. CASE UNCHANGED vars
    BY <1>0, <1>8, RequestsUntouched DEF vars, clockVars, daemonVars
<1>. QED BY <1>1, <1>2, <1>3, <1>4, <1>5, <1>6, <1>7, <1>8 DEF Next, SenderStep

LEMMA CommRequestsInvariant == Spec => []RequestsInv
BY CommInit, CommInductive, RequestsInit, RequestsInductive, PTL DEF Spec

\* A request is answered by an accepted message of the agent it was sent to that
\* names it (commDeliver's check of the reply's sender and correlation).
THEOREM CommRepliesMatch == Spec => []RepliesMatch
<1>1. RequestsInv => RepliesMatch
    BY DEF RequestsInv, Replies, ReplyOf, RepliesMatch
<1>. QED BY <1>1, CommRequestsInvariant, PTL

\* A reply is handled once while the clock is not set back: a message that
\* resolved a request's promise never also wakes the agent's loop, however
\* often it is presented and whatever was forgotten in between.
THEOREM CommHandledOnce == Spec => []HandledOnce
<1>1. RequestsInv => HandledOnce
    BY DEF RequestsInv
<1>. QED BY <1>1, CommRequestsInvariant, PTL

\* No request is left without a way to end, and no entry of pendingRequests
\* outlives its request, through failures, timeouts, late replies and crashes.
THEOREM CommNoOrphans == Spec => []NoOrphans
<1>1. RequestsInv => NoOrphans
    BY DEF RequestsInv
<1>. QED BY <1>1, CommRequestsInvariant, PTL
=============================================================================
