----------------------------- MODULE EventQueue -----------------------------
(***************************************************************************)
(* The async FIFO between the producers of input events (listeners,        *)
(* transport, commands) and the one consumer, the execution loop           *)
(* (packages/core/src/execution/queue.ts): its state and its operations,   *)
(* for the specifications that use a queue.                                *)
(*                                                                         *)
(* pull() either takes the oldest buffered event or leaves its promise's   *)
(* resolver behind; push() hands the event to a waiting resolver or        *)
(* appends it.  A resolved promise runs its continuation in a later        *)
(* microtask, so an event can be handed over and not yet received.         *)
(***************************************************************************)
EXTENDS Naturals, Sequences

VARIABLES
    buffer,      \* the array of events nobody has pulled
    resolver,    \* TRUE when a pull() is waiting and its resolver is set
    handed       \* event of a resolved pull, its continuation not yet run

queueVars == <<buffer, resolver, handed>>

QueueInit == buffer = <<>> /\ resolver = FALSE /\ handed = <<>>

(* Faulty forms of Enqueue and Dequeue, for the mutation runs of the README. *)

EnqueueKeepsWaiter(e) ==         \* the resolver is not cleared
    IF resolver THEN handed' = <<e>> /\ UNCHANGED <<buffer, resolver>>
                ELSE buffer' = Append(buffer, e) /\ UNCHANGED <<resolver, handed>>
EnqueueNeverWakes(e) ==          \* the resolver is neither cleared nor called
    buffer' = Append(buffer, e) /\ UNCHANGED <<resolver, handed>>
DequeueNewest ==                 \* pop() for shift()
    IF buffer = <<>> THEN resolver' = TRUE /\ UNCHANGED <<buffer, handed>>
    ELSE /\ handed' = <<buffer[Len(buffer)]>>
         /\ buffer' = SubSeq(buffer, 1, Len(buffer) - 1)
         /\ UNCHANGED resolver
DequeueAll ==                    \* the whole buffer at once
    IF buffer = <<>> THEN resolver' = TRUE /\ UNCHANGED <<buffer, handed>>
                     ELSE handed' = buffer /\ buffer' = <<>> /\ UNCHANGED resolver

\* push: deliver to the waiting consumer, else append.
Enqueue(e) ==
    \/ /\ resolver
       /\ resolver' = FALSE
       /\ handed' = <<e>>
       /\ UNCHANGED buffer
    \/ /\ ~resolver
       /\ buffer' = Append(buffer, e)
       /\ UNCHANGED <<resolver, handed>>

\* pull: resolve at once with the oldest event, else wait for the next push.
Dequeue ==
    \/ /\ buffer # <<>>
       /\ handed' = <<Head(buffer)>>
       /\ buffer' = Tail(buffer)
       /\ UNCHANGED resolver
    \/ /\ buffer = <<>>
       /\ resolver' = TRUE
       /\ UNCHANGED <<buffer, handed>>

\* clear: forget the buffered events and the pending resolver.
Discard ==
    /\ buffer' = <<>>
    /\ resolver' = FALSE
    /\ UNCHANGED handed
=============================================================================
