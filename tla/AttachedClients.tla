--------------------------- MODULE AttachedClients ---------------------------
(***************************************************************************)
(* Clients attached to the sessions of a daemon: the IPC server with its    *)
(* subscriptions and its slow clients, the IPC client, the forwarding of    *)
(* events and the attach command (apps/runner/src/daemon/ipc-server.ts,     *)
(* ipc-client.ts, event-forwarder.ts, the attach and detach handlers of     *)
(* daemon-entry.ts, and commands/attach.ts).                                *)
(*                                                                         *)
(* A socket is a sequence of whole messages; its reader takes any number of *)
(* them at once, and a promise it resolves continues only after the whole   *)
(* chunk.  A message of a session and the event that tells of it are one    *)
(* pair of the session and a number.                                        *)
(***************************************************************************)
EXTENDS Integers, Sequences, Functions

CONSTANTS
    Clients,
    Ids,             \* session ids
    Default,         \* DEFAULT_SESSION_ID
    OnDisk,          \* ids of the sessions persisted by an earlier run of the daemon
    None,
    ReplayCount,     \* session.replayCount
    HighWater,       \* messages unread at which a write reports a full buffer
    MaxSaid          \* bound: messages said

VARIABLES
    live,            \* sessions in memory
    history,         \* the messages of each session's state manager
    said,            \* the number of messages said in each session
    origin,          \* the persisted session that a session was restored from
    socket,          \* of each client: "none", "open", "cut", "gone" (cleaned up)
    subs,            \* sessionSubscriptions
    slow,            \* clients whose slowClientTimeout is set
    ask,             \* the call of each client that the server has yet to handle
    loading,         \* the persisted session a handleAttach is reading for a client
    out,             \* messages written to each client and not read
    at,              \* of each client: "idle", "calling", "attached", "leaving", "left"
    shown,           \* the messages the handlers of each client got
    owed             \* history: the messages each client's session had at its attach

sessionVars == <<live, history, said, origin>>
serverVars == <<socket, subs, slow, loading>>
clientVars == <<at, shown>>
vars == <<sessionVars, serverVars, clientVars, ask, out, owed>>

Kinds == {"text", "internal"}
Quiet == [do |-> "nothing", session |-> None]

Init ==
    /\ live = {Default}
    /\ history = [s \in Ids |-> <<>>] /\ said = [s \in Ids |-> 0]
    /\ origin = [s \in Ids |-> None]
    /\ socket = [c \in Clients |-> "none"]
    /\ subs = [s \in Ids |-> {}]
    /\ slow = {}
    /\ ask = [c \in Clients |-> Quiet]
    /\ loading = [c \in Clients |-> None]
    /\ out = [c \in Clients |-> <<>>]
    /\ at = [c \in Clients |-> "idle"]
    /\ shown = [c \in Clients |-> <<>>] /\ owed = [c \in Clients |-> <<>>]

-----------------------------------------------------------------------------
(* Sessions, and what the server writes. *)

\* What an earlier run left of a persisted session.
Stored(s) == << <<s, 0>> >>

Event(s, n) == [event |-> "message", body |-> <<s, n>>]
Result(s) == [event |-> "result", body |-> <<s, 0>>]

\* sessionManager.create: an id that was never used.
Unused == Ids \ (live \cup OnDisk)

\* getStateManager: the default's, for a session that is not in memory.
StateOf(s) == IF s \in live THEN s ELSE Default

LastOf(seq, n) == SubSeq(seq, IF Len(seq) > n THEN Len(seq) - n + 1 ELSE 1, Len(seq))

\* The replay of handleAttach, and its response.
Replay(s, messages) ==
    [k \in DOMAIN LastOf(messages, ReplayCount) |->
        [event |-> "message", body |-> LastOf(messages, ReplayCount)[k]]]

\* mapEventToRPC and the check of the session before it.
Forwarded(s, kind) == s # None /\ kind # "internal"

\* A subscriber's socket takes a write unless the server has destroyed it; what a
\* client that closed is sent goes nowhere.
Written(s) == {c \in subs[s] : socket[c] # "gone"}

\* A form of Pushed that leaves out a client whose buffer is full.
PushedIfRoom(s, m) ==
    [c \in Clients |-> IF c \in Written(s) /\ socket[c] = "open" /\ Len(out[c]) < HighWater
                       THEN Append(out[c], m) ELSE out[c]]

Pushed(s, m) ==
    [c \in Clients |-> IF c \in Written(s) /\ socket[c] = "open" THEN Append(out[c], m) ELSE out[c]]

\* broadcastToSession: a write that finds the buffer full starts the timer of a
\* client that still has metadata, one that does not stops it.
Broadcast(s, m) ==
    LET full == {c \in Written(s) : Len(out[c]) + 1 >= HighWater}
    IN  /\ out' = Pushed(s, m)
        /\ slow' = (slow \ Written(s)) \cup full

\* A message is added to a session and told to its subscribers, or an event is
\* emitted that is none of theirs.
Say(s, kind) ==
    /\ s \in live /\ SumFunction(said) < MaxSaid
    /\ IF Forwarded(s, kind)
       THEN /\ said' = [said EXCEPT ![s] = @ + 1]
            /\ history' = [history EXCEPT ![s] = Append(@, <<s, said[s] + 1>>)]
            /\ Broadcast(s, Event(s, said[s] + 1))
       ELSE UNCHANGED <<said, history, out, slow>>
    /\ UNCHANGED <<live, origin, socket, subs, ask, loading, clientVars, owed>>

-----------------------------------------------------------------------------
(* The server's handlers. *)

\* A client ends, and what it had with it; its socket is to be cleaned up.
Ended(c) ==
    /\ at' = [at EXCEPT ![c] = "left"]
    /\ socket' = [socket EXCEPT ![c] = IF @ = "open" THEN "cut" ELSE @]
    /\ out' = [out EXCEPT ![c] = <<>>]
    /\ shown' = [shown EXCEPT ![c] = <<>>]
    /\ owed' = [owed EXCEPT ![c] = <<>>]

\* subscribeSession, replayHistory and the response: no await lets anything between.
\* The socket may be gone by now; it is subscribed all the same.
Subscribe(c, s, replay) ==
    /\ subs' = [subs EXCEPT ![s] = @ \cup {c}]
    /\ out' = IF socket[c] = "open"
              THEN [out EXCEPT ![c] = @ \o replay \o <<Result(s)>>] ELSE out

\* handleAttach up to the reading of a session that is not in memory.
HandleAttach(c) ==
    /\ ask[c].do = "attach"
    /\ ask' = [ask EXCEPT ![c] = Quiet]
    /\ LET s == ask[c].session
       IN  \/ /\ s = None
              /\ \E new \in Unused :
                    /\ live' = live \cup {new}
                    /\ Subscribe(c, new, <<>>)
              /\ UNCHANGED <<loading, owed>>
           \/ /\ s \in live
              /\ Subscribe(c, s, Replay(s, history[s]))
              /\ owed' = [owed EXCEPT ![c] = LastOf(history[s], ReplayCount)]
              /\ UNCHANGED <<live, loading>>
           \/ /\ s # None /\ s \notin live
              /\ loading' = [loading EXCEPT ![c] = s]
              /\ UNCHANGED <<live, subs, out, owed>>
    /\ UNCHANGED <<history, said, origin, socket, slow, clientVars>>

\* persistence.load returns: nothing, when the session has been deleted since, and the
\* client is refused and gives up.  Otherwise the messages are restored into the state manager of
\* the id that was asked for, and the session is created under a new one.
Loaded(c) ==
    /\ loading[c] # None
    /\ loading' = [loading EXCEPT ![c] = None]
    /\ \/ /\ history' = [history EXCEPT ![StateOf(loading[c])] = Stored(loading[c])]
          /\ \E new \in Unused :
                /\ live' = live \cup {new}
                /\ origin' = [origin EXCEPT ![new] = loading[c]]
                /\ Subscribe(c, new, Replay(new, history'[new]))
          /\ owed' = [owed EXCEPT ![c] = Stored(loading[c])]
          /\ UNCHANGED <<socket, at, shown>>
       \/ /\ Ended(c)
          /\ UNCHANGED <<history, live, origin, subs>>
    /\ UNCHANGED <<said, slow, ask>>

\* handleDetach, for the session the client was given.
HandleDetach(c) ==
    /\ ask[c].do = "detach"
    /\ ask' = [ask EXCEPT ![c] = Quiet]
    /\ subs' = [subs EXCEPT ![ask[c].session] = @ \ {c}]
    /\ out' = IF socket[c] = "open" THEN [out EXCEPT ![c] = Append(@, Result(None))] ELSE out
    /\ UNCHANGED <<sessionVars, socket, slow, loading, clientVars, owed>>

\* The timer of a slow client: its socket is destroyed with what it has not read,
\* and the client ends with the connection.
SlowTimeout(c) ==
    /\ c \in slow
    /\ slow' = slow \ {c}
    /\ Ended(c)
    /\ ask' = [ask EXCEPT ![c] = Quiet]
    /\ UNCHANGED <<sessionVars, subs, loading>>

\* A form of Forgotten that leaves the subscriptions alone.
ForgottenKeeping(c) == subs

\* The subscriptions without a client, in every session.
Forgotten(c) == [s \in Ids |-> subs[s] \ {c}]

\* cleanupSocket, when the socket has ended, closed or failed; a call it has not
\* read is lost.
Cleanup(c) ==
    /\ socket[c] = "cut"
    /\ socket' = [socket EXCEPT ![c] = "gone"]
    /\ subs' = Forgotten(c)
    /\ slow' = slow \ {c}
    /\ ask' = [ask EXCEPT ![c] = Quiet]
    /\ UNCHANGED <<sessionVars, loading, clientVars, out, owed>>

-----------------------------------------------------------------------------
(* The client. *)

\* execute: it connects and calls agent.attach, for a session it names or a new one.
Attach(c, s) ==
    /\ at[c] = "idle"
    /\ at' = [at EXCEPT ![c] = "calling"]
    /\ socket' = [socket EXCEPT ![c] = "open"]
    /\ ask' = [ask EXCEPT ![c] = [do |-> "attach", session |-> s]]
    /\ UNCHANGED <<sessionVars, subs, slow, loading, shown, out, owed>>

\* The session a client was given: it asks for no other.
SessionOf(c) == CHOOSE s \in Ids : c \in subs[s]

\* The user quits: agent.detach is called for the session of the attach.
Quit(c) ==
    /\ at[c] = "attached" /\ \E s \in Ids : c \in subs[s]
    /\ at' = [at EXCEPT ![c] = "leaving"]
    /\ ask' = [ask EXCEPT ![c] = [do |-> "detach", session |-> SessionOf(c)]]
    /\ UNCHANGED <<sessionVars, serverVars, shown, out, owed>>

\* handleData: a chunk of messages.  An event whose handlers are not registered is
\* dropped; they are registered when the attach call has resolved, after the chunk.
Read(c, n) ==
    LET resolved == \E k \in 1..n : out[c][k].event = "result"
    IN  /\ \/ /\ resolved /\ at[c] = "leaving"
              /\ Ended(c)
           \/ /\ at[c] = "calling"
              /\ at' = [at EXCEPT ![c] = IF resolved THEN "attached" ELSE @]
              /\ out' = [out EXCEPT ![c] = SubSeq(@, n + 1, Len(@))]
              /\ UNCHANGED <<shown, socket, owed>>
           \/ /\ at[c] \in {"attached", "leaving"} /\ ~resolved
              /\ shown' = [shown EXCEPT ![c] = @ \o [k \in 1..n |-> out[c][k].body]]
              /\ out' = [out EXCEPT ![c] = SubSeq(@, n + 1, Len(@))]
              /\ UNCHANGED <<at, socket, owed>>
        /\ UNCHANGED <<sessionVars, subs, slow, loading, ask>>

\* A call gets no answer in ten seconds: the client gives up the attach, or leaves
\* without the answer to its detach.
CallTimeout(c) ==
    /\ at[c] \in {"calling", "leaving"}
    /\ Ended(c)
    /\ UNCHANGED <<sessionVars, subs, slow, loading, ask>>

Next ==
    \/ \E s \in Ids, kind \in Kinds : Say(s, kind)
    \/ \E c \in Clients :
        \/ \E s \in live \cup OnDisk \cup {None} : Attach(c, s)
        \/ HandleAttach(c) \/ Loaded(c) \/ HandleDetach(c)
        \/ SlowTimeout(c) \/ Cleanup(c)
        \/ Quit(c) \/ CallTimeout(c)
        \/ \E n \in 1..Len(out[c]) : Read(c, n)

Spec == Init /\ [][Next]_vars

-----------------------------------------------------------------------------
(* Properties. *)

\* From its attach on a client misses nothing: what its handlers got and what is on
\* its way are the messages of one session without a gap or a repetition, up to the
\* last one while it is subscribed, whatever its buffer and its chunks were.
Gapless ==
    \A c \in Clients :
        LET seen == shown[c] \o [k \in DOMAIN out[c] |-> out[c][k].body]
        IN  at[c] = "attached" =>
                /\ \A k \in DOMAIN out[c] : out[c][k].event = "message"
                /\ \A k \in 1..(Len(seen) - 1) :
                    seen[k + 1] = <<seen[k][1], seen[k][2] + 1>>
                /\ \E s \in Ids :
                    /\ c \in subs[s]
                    /\ seen # <<>> => seen[Len(seen)] = <<s, said[s]>>

\* A socket that is gone is in no subscription and has no timer, unless it went
\* while the daemon read the session it had asked for.
GoneAreForgotten ==
    \A c \in Clients :
        socket[c] = "gone" =>
            /\ c \notin slow
            /\ \A s \in Ids : c \in subs[s] => origin[s] # None

\* attach.ts and replayHistory: a client that has attached to an existing session is
\* shown its last messages first.
ReplayIsShown ==
    \A c \in Clients :
        at[c] = "attached" /\ out[c] = <<>> =>
            \E k \in 0..Len(shown[c]) : owed[c] = SubSeq(shown[c], 1, k)

\* handleAttach: the session restored from disk has the messages it was saved with.
RestoredWhole ==
    \A s \in Ids :
        origin[s] # None =>
            \E k \in 0..Len(history[s]) : Stored(origin[s]) = SubSeq(history[s], 1, k)
=============================================================================
