--------------------------- MODULE ExecutionLoop ---------------------------
(***************************************************************************)
(* The agent's cognition loop with the queue it pulls from, the safety     *)
(* monitor that stops it, the sessions whose histories it writes and the   *)
(* user who confirms its tool calls (packages/core/src/execution/loop.ts   *)
(* with queue.ts, security/safety-monitor.ts, session/manager.ts and       *)
(* AgentCore.reset of agents/agent-core.ts).                               *)
(*                                                                         *)
(* JavaScript runs a handler to its next `await` without interruption, so  *)
(* an action is the code between two awaits, and `pc` names the await the  *)
(* loop is suspended at.  While it is suspended anybody may push input,    *)
(* reset the agent, create or destroy a session, answer a confirmation     *)
(* prompt or stop the agent.                                               *)
(*                                                                         *)
(* Consecutive awaits with no state change between them are one suspension *)
(* point: "planning" is gear routing and plan deliberation, "deciding" is  *)
(* action deliberation and the confirmation gate, "executing" is the tool  *)
(* raced with its timeout and the audit of its result.                     *)
(***************************************************************************)
EXTENDS EventQueue, SafetyMonitor, SequencesExt

CONSTANTS
    SessionIds,      \* session identifiers, the default session's included
    Default,         \* "__default__"
    Nonces,          \* confirmation nonces (enough of them for one to be fresh)
    MaxToolRounds,   \* configured tool rounds per input
    MaxTokensPerCall,\* bound: tokens one LLM call may report
    MaxCalls,        \* bound: tool calls in one LLM response
    MaxInputs,       \* bound: inputs pushed in a behaviour
    MaxResets        \* bound: resets in a behaviour

ASSUME LoopAssumption ==
    /\ Default \in SessionIds
    /\ 0 \notin Nonces          \* 0 stands for "no prompt", see NoNonce
    /\ MaxToolRounds \in Nat \ {0}
    /\ MaxTokensPerCall \in Nat
    /\ MaxCalls \in Nat
    /\ MaxInputs \in Nat
    /\ MaxResets \in Nat

VARIABLES
    running,         \* the loop's `running` flag
    lstate,          \* the LoopState getState() reports
    pc,              \* where the loop is suspended
    monitor,         \* the safety monitor's counters
    status,          \* status[s]: "unborn", "live" or "destroyed"
    history,         \* history[s]: the messages of session s's state manager
    dest,            \* dest[i]: the sessionId input i was pushed with
    settled,         \* inputs the loop is done with
    cur,             \* the input of the current (or last) turn, 0 before any
    target,          \* the session whose state manager the turn resolved
    round,           \* toolRound
    calls,           \* pendingToolCalls not yet decided on, ids in order
    results,         \* ids in toolResults, empty outside a tool round
    errored,         \* loopErrored: the provider failed in this turn
    emitted,         \* the turn's closing events: "error", "finished", "lockout"
    asked,           \* nonce of the prompt the current call waits or waited for
    stale,           \* prompts that timed out and are still on the user's screen
    granted,         \* nonces the user answered with approval
    resets           \* resets so far

loopVars    == <<running, lstate, pc>>
turnVars    == <<cur, target, round, calls, results, errored, emitted, settled>>
promptVars  == <<asked, stale, granted>>
sessionVars == <<status, history>>
vars == <<queueVars, loopVars, monitor, sessionVars, dest, turnVars, promptVars, resets>>

Shutdown == 0                 \* the "__SHUTDOWN__" event; inputs are 1, 2, ...
NoNonce  == 0
Inputs   == 1..MaxInputs
CallIds  == (1..(MaxToolRounds + 1)) \X (1..MaxCalls)   \* <<round, position>>

Init ==
    /\ QueueInit
    /\ running = FALSE /\ lstate = "WAITING_FOR_EVENT" /\ pc = "off"
    /\ monitor = Fresh
    /\ status = [s \in SessionIds |-> IF s = Default THEN "live" ELSE "unborn"]
    /\ history = [s \in SessionIds |-> <<>>]
    /\ dest = <<>>
    /\ settled = {}
    /\ cur = 0 /\ target = Default /\ round = 0 /\ calls = <<>> /\ results = <<>>
    /\ errored = FALSE /\ emitted = {}
    /\ asked = NoNonce /\ stale = {} /\ granted = {}
    /\ resets = 0

-----------------------------------------------------------------------------
(* Pieces of the loop. *)

\* s is t with some elements left out, and all such sequences.
IsSubSeq(s, t) ==
    \E f \in [DOMAIN s -> DOMAIN t] :
        /\ \A i \in DOMAIN s : s[i] = t[f[i]]
        /\ \A i, j \in DOMAIN s : i < j => f[i] < f[j]

Thinnings(t) ==
    {s \in UNION {[1..n -> ToSet(t)] : n \in 0..Len(t)} : IsSubSeq(s, t)}

\* getStateManager: a session that is not in the table falls back to the default.
StateManagerOf(s) == IF status[s] = "live" THEN s ELSE Default

\* addMessage on the state manager of session s.
Say(h, s, turn, role, ids) ==
    [h EXCEPT ![s] = Append(@, [turn |-> turn, role |-> role, ids |-> ids])]

(* Faulty forms of the definitions below, for the mutation runs of the README. *)

AlwaysRoundsLeft == TRUE                                          \* RoundsLeft
NeverLockedOut == FALSE                                           \* LockedOut
StaysBusy == UNCHANGED lstate                                     \* Quiet
RecordedFirst == <<Head(calls)>> \o results                       \* Recorded
ToolMessageResolved(h, res) ==                                    \* ToolMessage
    Say(h, StateManagerOf(dest[cur]), cur, "tool", res)
AlwaysFinished(r, err) ==                                         \* ClosingEvents
    (IF r > MaxToolRounds THEN {"error"} ELSE {}) \cup {"finished"}
EnterRoundGoesOn(m, r, err, events) ==                            \* EnterRound
    /\ monitor' = OnLoopTick(m) /\ round' = r /\ pc' = "persona"
    /\ IF TickHalts(monitor') THEN lstate' = "SAFETY_LOCKOUT"
                              ELSE lstate' = "ASSEMBLING_CONTEXT"
    /\ errored' = err /\ emitted' = events /\ UNCHANGED settled
AnyNonceHeard(n) == pc = "confirming"                             \* Heard
NoTimeout == FALSE                                                \* ConfirmationTimeout

\* The while loop's condition on the rounds.
RoundsLeft == round <= MaxToolRounds

LockedOut == lstate = "SAFETY_LOCKOUT"

LockOut == lstate' = "SAFETY_LOCKOUT"

Quiet == lstate' = "WAITING_FOR_EVENT"

\* toolResults.push
Recorded == Append(results, Head(calls))

\* The tool message that ends a round goes to the state manager of the turn.
ToolMessage(h, res) == Say(h, target, cur, "tool", res)

\* What the end of processEvent emits, for a turn that ran r tool rounds: too
\* many rounds are reported as an error, and only a provider failure suppresses
\* LOOP_FINISHED.
ClosingEvents(r, err) ==
    (IF r > MaxToolRounds THEN {"error"} ELSE {}) \cup (IF err THEN {} ELSE {"finished"})

EndTurn(r, err, events) ==
    /\ pc' = "ready"
    /\ settled' = settled \cup {cur'}
    /\ emitted' = events \cup ClosingEvents(r, err)
    /\ errored' = err

\* The top of the while loop up to the await of the persona: the tick check,
\* then the assembly of the context.
EnterRound(m, r, err, events) ==
    /\ monitor' = OnLoopTick(m)
    /\ round' = r
    /\ \/ /\ TickHalts(monitor')
          /\ LockOut
          /\ EndTurn(r, err, events \cup {"lockout"})
       \/ /\ ~TickHalts(monitor')
          /\ lstate' = "ASSEMBLING_CONTEXT"
          /\ pc' = "persona"
          /\ errored' = err /\ emitted' = events
          /\ UNCHANGED settled

\* The end of a tool round: one tool message with the results, then the next
\* round of the while loop if there is one left.
FinishTools(h, m, res) ==
    /\ history' = ToolMessage(h, res)
    /\ \/ /\ RoundsLeft
          /\ EnterRound(m, round, errored, emitted)
       \/ /\ ~RoundsLeft
          /\ monitor' = m
          /\ Quiet
          /\ EndTurn(round, errored, emitted)
          /\ UNCHANGED round

\* The body of the tool loop is done with the first pending call.
NextCall(h, m, res) ==
    /\ UNCHANGED <<cur, target>>
    /\ asked' = NoNonce
    /\ calls' = Tail(calls)
    /\ \/ /\ Len(calls) > 1
          /\ results' = res
          /\ history' = h /\ monitor' = m
          /\ pc' = "deciding"
          /\ UNCHANGED <<lstate, round, errored, emitted, settled>>
       \/ /\ Len(calls) = 1
          /\ results' = <<>>
          /\ FinishTools(h, m, res)

-----------------------------------------------------------------------------
(* The loop: pulling. *)

Start ==
    /\ pc = "off"
    /\ running' = TRUE
    /\ lstate' = "WAITING_FOR_EVENT"
    /\ pc' = "ready"
    /\ UNCHANGED <<queueVars, monitor, sessionVars, dest, turnVars, promptVars, resets>>

\* `while (running)` and the call of queue.pull().
Pull ==
    /\ pc = "ready"
    /\ \/ /\ running
          /\ Dequeue
          /\ pc' = "pulling"
       \/ /\ ~running
          /\ pc' = "stopped"
          /\ UNCHANGED queueVars
    /\ UNCHANGED <<running, lstate, monitor, sessionVars, dest, turnVars, promptVars, resets>>

Arrives(e) ==
    /\ pc = "pulling"
    /\ handed = <<e>>
    /\ handed' = <<>>
    /\ UNCHANGED <<buffer, resolver, running, status, dest, promptVars, resets>>

\* The loop was stopped while it waited: the event, if it is one, is dropped.
ReceiveStopped(e) ==
    /\ Arrives(e)
    /\ ~running
    /\ pc' = "stopped"
    /\ UNCHANGED <<lstate, monitor, history, turnVars>>

\* In lockout an input is answered with SAFETY_LOCKOUT and forgotten.
ReceiveLocked(e) ==
    /\ Arrives(e)
    /\ running /\ e # Shutdown
    /\ LockedOut
    /\ settled' = settled \cup {e}
    /\ pc' = "ready"
    /\ UNCHANGED <<lstate, monitor, history, cur, target, round, calls, results, errored, emitted>>

\* processEvent up to its first await: resolve the session's state manager,
\* record the user's message, enter the first round.
BeginTurn(e) ==
    /\ Arrives(e)
    /\ running /\ e # Shutdown
    /\ ~LockedOut
    /\ cur' = e
    /\ target' = StateManagerOf(dest[e])
    /\ history' = Say(history, target', e, "user", <<>>)
    /\ calls' = <<>> /\ results' = <<>>
    /\ EnterRound(OnLoopStart(monitor), 0, FALSE, {})

(* The loop: a turn. *)

\* After the persona: the token budget.
OverBudget ==
    /\ pc = "persona"
    /\ UNCHANGED <<queueVars, running, monitor, sessionVars, dest, cur, target, round,
                   calls, results, promptVars, resets>>
    /\ BudgetHalts(monitor)
    /\ LockOut
    /\ EndTurn(round, errored, emitted \cup {"lockout"})

\* No model is selected: a fatal error that is not a provider failure.
NoModel ==
    /\ pc = "persona"
    /\ UNCHANGED <<queueVars, running, monitor, sessionVars, dest, cur, target, round,
                   calls, results, promptVars, resets>>
    /\ ~BudgetHalts(monitor)
    /\ Quiet
    /\ EndTurn(round, errored, emitted \cup {"error"})

\* The model and its provider are resolved and the stream is awaited.
CallLLM ==
    /\ pc = "persona"
    /\ ~BudgetHalts(monitor)
    /\ lstate' = "PROCESSING_RESPONSE"
    /\ pc' = "streaming"
    /\ UNCHANGED <<queueVars, running, monitor, sessionVars, dest, turnVars, promptVars, resets>>

\* The stream ends by itself, with n tool calls and perhaps text, perhaps an
\* error event on the way (which does not end the stream).
StreamEnds(n, text, stopReason, err, tokens) ==
    /\ pc = "streaming"
    /\ UNCHANGED <<queueVars, running, status, dest, cur, target, round, results, promptVars,
                   resets>>
    /\ monitor' = TrackTokenUsage(monitor, tokens)
    /\ LET ids == [k \in 1..n |-> <<round + 1, k>>]
           failed == errored \/ err
           events == IF err THEN emitted \cup {"error"} ELSE emitted
       IN  /\ history' = IF text \/ n > 0
                         THEN Say(history, target, cur, "assistant", ids) ELSE history
           /\ \/ /\ stopReason = "tool_use" /\ n > 0
                 /\ calls' = ids
                 /\ pc' = "planning"
                 /\ errored' = failed /\ emitted' = events
                 /\ UNCHANGED <<lstate, settled>>
              \/ /\ ~(stopReason = "tool_use" /\ n > 0)
                 /\ calls' = <<>>
                 /\ Quiet
                 /\ EndTurn(round, failed, events)

\* The provider throws, or is aborted by the LLM timeout: nothing of the
\* response is kept, but for the tokens it had reported by then.
StreamThrows(tokens) ==
    /\ pc = "streaming"
    /\ monitor' = TrackTokenUsage(monitor, tokens)
    /\ UNCHANGED <<queueVars, running, sessionVars, dest, cur, target, round,
                   calls, results, promptVars, resets>>
    /\ Quiet
    /\ EndTurn(round, TRUE, emitted \cup {"error"})

\* Plan deliberation may strike calls off the plan; what is left is executed.
Deliberate(kept) ==
    /\ pc = "planning"
    /\ UNCHANGED <<queueVars, running, monitor, sessionVars, dest, cur, target, results,
                   promptVars, resets>>
    /\ calls' = kept
    /\ \/ /\ kept # <<>>
          /\ lstate' = "EXECUTING_TOOLS"
          /\ round' = round + 1
          /\ pc' = "deciding"
          /\ UNCHANGED <<errored, emitted, settled>>
       \/ /\ kept = <<>>
          /\ Quiet
          /\ EndTurn(round, errored, emitted)
          /\ UNCHANGED round

\* The call is vetoed, denied by the gate, or the gate fails (fail-closed): it
\* gets no result.
Block ==
    /\ pc = "deciding"
    /\ NextCall(history, monitor, results)
    /\ UNCHANGED <<queueVars, running, status, dest, stale, granted, resets>>

\* The gate approves, or there is no gate.
Approve ==
    /\ pc = "deciding"
    /\ pc' = "executing"
    /\ asked' = NoNonce
    /\ UNCHANGED <<queueVars, running, lstate, monitor, sessionVars, dest, turnVars,
                   stale, granted, resets>>

\* The gate wants the user asked: a prompt with a nonce of its own.
AskUser ==
    /\ pc = "deciding"
    /\ pc' = "confirming"
    /\ \E n \in Nonces \ stale :
          /\ asked' = n
          /\ granted' = granted \ {n}
    /\ UNCHANGED <<queueVars, running, lstate, monitor, sessionVars, dest, turnVars,
                   stale, resets>>

\* Only the answer to the prompt on wait is heard.
Heard(n) == pc = "confirming" /\ n = asked

\* The user answers a prompt, the current one or one that timed out.
Respond(n, approved) ==
    /\ n \in stale \/ (pc = "confirming" /\ n = asked)
    /\ stale' = stale \ {n}
    /\ granted' = IF approved THEN granted \cup {n} ELSE granted
    /\ \/ /\ Heard(n) /\ approved
          /\ pc' = "executing"
          /\ UNCHANGED <<lstate, monitor, history, turnVars, asked>>
       \/ /\ Heard(n) /\ ~approved
          /\ NextCall(history, monitor, results)
       \/ /\ ~Heard(n)
          /\ UNCHANGED <<lstate, pc, monitor, history, turnVars, asked>>
    /\ UNCHANGED <<queueVars, running, status, dest, resets>>

\* No answer in time: denied.  The prompt may stay on the user's screen (bound:
\* as long as a nonce is left for the next prompt).
ConfirmationTimeout ==
    /\ pc = "confirming"
    /\ NextCall(history, monitor, results)
    /\ \/ UNCHANGED stale
       \/ stale' = stale \cup {asked} /\ stale' # Nonces
    /\ UNCHANGED <<queueVars, running, status, dest, granted, resets>>

\* The tool returned, failed, was not found, or lost the race with its timeout
\* (the last three are errors): record the result and ask the safety monitor.
ToolDone(fp, isError) ==
    /\ pc = "executing"
    /\ LET m == RecordExecution(monitor, fp, isError)
           v == Verdict(m, fp, isError)
       IN  \/ /\ v = "halt"
              /\ UNCHANGED <<history, cur, target, round>>
              /\ LockOut
              /\ EndTurn(round, errored, emitted \cup {"lockout"})
              /\ monitor' = m /\ calls' = <<>> /\ results' = <<>> /\ asked' = NoNonce
           \/ /\ Warns(v)
              /\ NextCall(Say(history, target, cur, "warning", <<>>), m, Recorded)
           \/ /\ v = "none"
              /\ NextCall(history, m, Recorded)
    /\ UNCHANGED <<queueVars, running, status, dest, stale, granted, resets>>

\* A dependency throws where the loop has no handler (the context manager, the
\* guide, the model or provider resolver, gear routing, deliberation): the
\* rejection reaches loop().catch, which logs it; nothing else runs again.
Crash ==
    /\ \/ pc = "persona" /\ lstate' \in {"ASSEMBLING_CONTEXT", "PROCESSING_RESPONSE"}
       \/ pc \in {"planning", "deciding"} /\ UNCHANGED lstate
    /\ pc' = "crashed"
    /\ UNCHANGED <<queueVars, running, monitor, sessionVars, dest, turnVars, promptVars, resets>>

-----------------------------------------------------------------------------
(* The environment. *)

\* AgentCore.pushInput: a client names a session it once got, destroyed or not.
PushInput(s) ==
    /\ Len(dest) < MaxInputs
    /\ status[s] # "unborn"
    /\ dest' = Append(dest, s)
    /\ Enqueue(Len(dest) + 1)
    /\ UNCHANGED <<loopVars, monitor, sessionVars, turnVars, promptVars, resets>>

\* stop(): the loop leaves at its next look at `running`; a dummy event wakes it.
Stop ==
    /\ running
    /\ running' = FALSE
    /\ Enqueue(Shutdown)
    /\ UNCHANGED <<lstate, pc, monitor, sessionVars, dest, turnVars, promptVars, resets>>

\* AgentCore.reset and the two STATE_RESET listeners: the default session's
\* history, the monitor's counters, and the lockout if there is one.
Reset ==
    /\ resets < MaxResets
    /\ resets' = resets + 1
    /\ history' = [history EXCEPT ![Default] = <<>>]
    /\ monitor' = Fresh
    /\ lstate' = IF lstate = "SAFETY_LOCKOUT" THEN "WAITING_FOR_EVENT" ELSE lstate
    /\ UNCHANGED <<queueVars, running, pc, status, dest, turnVars, promptVars>>

CreateSession(s) ==
    /\ status[s] = "unborn"
    /\ status' = [status EXCEPT ![s] = "live"]
    /\ UNCHANGED <<queueVars, loopVars, monitor, history, dest, turnVars, promptVars, resets>>

\* destroy(): the history is emptied and the session leaves the table; a turn
\* under way keeps its reference to the state manager.
DestroySession(s) ==
    /\ s # Default
    /\ status[s] = "live"
    /\ status' = [status EXCEPT ![s] = "destroyed"]
    /\ history' = [history EXCEPT ![s] = <<>>]
    /\ UNCHANGED <<queueVars, loopVars, monitor, dest, turnVars, promptVars, resets>>

-----------------------------------------------------------------------------
TurnStep ==
    \/ OverBudget \/ NoModel \/ CallLLM
    \/ \E tokens \in 0..MaxTokensPerCall :
          \/ StreamThrows(tokens)
          \/ \E n \in 0..MaxCalls, text, err \in BOOLEAN, stopReason \in {"tool_use", "end_turn"} :
                StreamEnds(n, text, stopReason, err, tokens)
    \/ \E kept \in Thinnings(calls) : Deliberate(kept)
    \/ Block \/ Approve \/ AskUser \/ ConfirmationTimeout
    \/ \E fp \in Prints, isError \in BOOLEAN : ToolDone(fp, isError)
    \/ Crash

LoopStep ==
    \/ Pull
    \/ \E e \in {Shutdown} \cup Inputs : ReceiveStopped(e) \/ ReceiveLocked(e) \/ BeginTurn(e)
    \/ TurnStep

EnvStep ==
    \/ Start
    \/ \E s \in SessionIds : PushInput(s) \/ CreateSession(s) \/ DestroySession(s)
    \/ Stop
    \/ Reset
    \/ \E n \in Nonces, approved \in BOOLEAN : Respond(n, approved)

Next == LoopStep \/ EnvStep

\* The loop is one asynchronous function: when it can move it does.  Every await
\* of a turn ends: the LLM call is aborted at llmTimeout (the provider is assumed
\* to heed the signal), the tool is raced with toolTimeout, the prompt times out;
\* the guide, the router, the volition and the gate are assumed to settle.  Nobody has to push, answer, reset or stop.
Fairness == WF_vars(LoopStep)

Spec == Init /\ [][Next]_vars /\ Fairness

-----------------------------------------------------------------------------
(* Properties. *)

LoopStates == {"WAITING_FOR_EVENT", "ASSEMBLING_CONTEXT", "AWAITING_LLM",
               "PROCESSING_RESPONSE", "EXECUTING_TOOLS", "SAFETY_LOCKOUT"}

InTurn == {"persona", "streaming", "planning", "deciding", "confirming", "executing"}

Messages == [turn : Inputs, role : {"user", "assistant", "tool", "warning"}, ids : Seq(CallIds)]

\* The queue holds Shutdown or inputs that were pushed: 0..Len(dest).
TypeOK ==
    /\ buffer \in Seq(0..Len(dest)) /\ resolver \in BOOLEAN
    /\ handed \in Seq(0..Len(dest)) /\ Len(handed) <= 1
    /\ running \in BOOLEAN /\ lstate \in LoopStates
    /\ pc \in {"off", "ready", "pulling", "stopped", "crashed"} \cup InTurn
    /\ monitor \in Counters
    /\ status \in [SessionIds -> {"unborn", "live", "destroyed"}]
    /\ history \in [SessionIds -> Seq(Messages)]
    /\ dest \in Seq(SessionIds) /\ Len(dest) <= MaxInputs
    /\ settled \subseteq Inputs /\ cur \in {0} \cup Inputs /\ target \in SessionIds
    /\ round \in 0..(MaxToolRounds + 1)
    /\ calls \in Seq(CallIds) /\ results \in Seq(CallIds)
    /\ errored \in BOOLEAN /\ emitted \subseteq {"error", "finished", "lockout"}
    /\ asked \in {NoNonce} \cup Nonces /\ stale \subseteq Nonces /\ granted \subseteq Nonces
    /\ resets \in 0..MaxResets

\* While the agent is locked out no turn is under way: a lockout raised anywhere
\* in a turn ends it before the next await, and no input starts one.
NoWorkInLockout == lstate = "SAFETY_LOCKOUT" => pc \notin InTurn

\* A tool whose confirmation was asked runs only on an approval of that very
\* prompt: not on a late answer to an earlier one, not after a timeout.
OnlyConfirmedToolsRun == pc = "executing" /\ asked # NoNonce => asked \in granted

\* The token budget is overrun by at most the one call that exhausts it, however
\* resets fall between the calls.
BudgetOverrunIsOneCall ==
    MaxTokenUsage > 0 => monitor.tokens < MaxTokenUsage + MaxTokensPerCall

\* Position of the last assistant message before the k-th message of session s.
Asking(s, k) ==
    LET before == {j \in 1..(k - 1) : history[s][j].role = "assistant"}
    IN  IF before = {} THEN 0 ELSE CHOOSE j \in before : \A i \in before : i <= j

\* A tool message answers calls of the latest assistant message of its session,
\* in their order and each at most once; only a history that was cleared during
\* the turn has results without the message that asked for them.
ResultsAnswerCalls ==
    \A s \in SessionIds : \A k \in DOMAIN history[s] :
        history[s][k].role = "tool" /\ Asking(s, k) # 0 =>
            LET asking == history[s][Asking(s, k)]
            IN  /\ asking.turn = history[s][k].turn
                /\ IsSubSeq(history[s][k].ids, asking.ids)

\* All messages of a turn are in one history: a session that is destroyed while
\* its turn is under way does not make the turn go on in the default session.
\* Only the default session ever holds a turn that was meant for another.
TurnStaysInOneSession ==
    \A s, t \in SessionIds : s # t =>
        /\ {history[s][k].turn : k \in DOMAIN history[s]}
               \cap {history[t][k].turn : k \in DOMAIN history[t]} = {}
        /\ s # Default => \A k \in DOMAIN history[s] : dest[history[s][k].turn] = s

\* A turn in which the provider failed is never reported finished, and a turn
\* that is over was reported: clients wait for one of the closing events.
TurnIsReported ==
    /\ errored => "finished" \notin emitted
    /\ cur \in settled => emitted \cap {"error", "finished"} # {}

\* The agent leaves a lockout only with fresh counters: the loop's and the
\* monitor's listeners of STATE_RESET act together, or the next turn would at
\* once lock out again.
UnlockClearsCounters ==
    [][lstate = "SAFETY_LOCKOUT" /\ lstate' # "SAFETY_LOCKOUT" => monitor' = Fresh]_vars

\* Every input pushed while the agent runs is processed or, in lockout, refused,
\* unless the agent is stopped or a dependency's exception killed the loop.
InputsSettle ==
    \A i \in Inputs :
        (running /\ Len(dest) >= i) ~> (i \in settled \/ ~running \/ pc = "crashed")

\* The loop implements the state machine of its documentation, and every turn
\* ends: in WAITING_FOR_EVENT, in lockout, or by an exception.
Phase ==
    CASE pc \in {"off", "stopped"} -> pc
      [] pc = "crashed" -> "dead"
      [] OTHER -> lstate

Lifecycle == INSTANCE LoopLifecycle
                 WITH MaxRounds <- MaxToolRounds + 1, phase <- Phase, rounds <- round

ImplementsLifecycle == Lifecycle!Spec
=============================================================================
