------------------------ MODULE ExecutionLoopProofs ------------------------
(***************************************************************************)
(* Theorems about the execution loop, for every value of the constants:    *)
(* any sessions, thresholds, tool rounds, calls per response and inputs.   *)
(*                                                                         *)
(* TypeOK is not inductive: that the ids of tool calls stay in range needs *)
(* a bound on the round at every await of a turn, and that a tool result   *)
(* can be recorded needs a pending call.  Bookkeeping adds those facts,    *)
(* and Coherent ties the reported state to the await the loop is suspended *)
(* at.  TurnInv follows an input from the queue to its last message and    *)
(* closing event, AnswerInv a tool call from the response that asked for   *)
(* it to the message that answers it; both rest on IInv.                   *)
(***************************************************************************)
EXTENDS ExecutionLoop, SequenceTheorems, TLAPS

-----------------------------------------------------------------------------
\* The reported state agrees with the await the loop is suspended at.
Coherent ==
    /\ pc = "off" => lstate = "WAITING_FOR_EVENT"
    /\ pc \in {"ready", "pulling", "stopped"} =>
            lstate \in {"WAITING_FOR_EVENT", "SAFETY_LOCKOUT"}
    /\ pc = "persona" => lstate = "ASSEMBLING_CONTEXT"
    /\ pc \in {"streaming", "planning"} => lstate = "PROCESSING_RESPONSE"
    /\ pc \in {"deciding", "confirming", "executing"} => lstate = "EXECUTING_TOOLS"

\* What the types of the next state need.
Bookkeeping ==
    /\ pc \in InTurn => cur \in Inputs
    /\ pc \in {"persona", "streaming", "planning"} => round <= MaxToolRounds
    /\ pc \in {"deciding", "confirming", "executing"} => calls # <<>>
    /\ pc = "confirming" => asked \in Nonces

\* The budget is checked before the call that may exhaust it.
BudgetInv ==
    MaxTokenUsage > 0 =>
        /\ monitor.tokens < MaxTokenUsage + MaxTokensPerCall
        /\ pc = "streaming" => monitor.tokens < MaxTokenUsage

IInv == TypeOK /\ Coherent /\ Bookkeeping
-----------------------------------------------------------------------------
(* The pieces of the loop keep the types. *)

\* A sequence that forgets its oldest element is still one of its kind.
LEMMA SlideType ==
  ASSUME NEW S, NEW s \in Seq(S), NEW e \in S, NEW size \in Nat
  PROVE  Slide(s, e, size) \in Seq(S)
<1>1. Append(s, e) \in Seq(S) /\ Append(s, e) # <<>>
  BY AppendProperties
<1>2. Tail(Append(s, e)) \in Seq(S)
  BY <1>1, HeadTailProperties
<1> QED BY <1>1, <1>2 DEF Slide

\* A sequence of more than one element has a tail.
LEMMA MoreThanOne ==
  ASSUME NEW S, NEW s \in Seq(S), Len(s) > 1
  PROVE  Tail(s) # <<>>
<1>1. s # <<>> /\ Len(s) \in Nat
  BY EmptySeq, LenProperties
<1>2. Len(Tail(s)) = Len(s) - 1
  BY <1>1, HeadTailProperties
<1>3. Len(Tail(s)) # 0
  BY <1>1, <1>2
<1>4. ASSUME Tail(s) = <<>> PROVE FALSE
  BY <1>3, <1>4, EmptySeq
<1> QED BY <1>4

\* The safety monitor's operations keep its counters' types, and only
\* TrackTokenUsage and reset touch the tokens.
LEMMA MonitorTypes ==
  /\ Fresh \in Counters /\ Fresh.tokens = 0
  /\ \A m \in Counters :
        /\ OnLoopStart(m) \in Counters /\ OnLoopStart(m).tokens = m.tokens
        /\ OnLoopTick(m) \in Counters /\ OnLoopTick(m).tokens = m.tokens
        /\ \A n \in Nat : TrackTokenUsage(m, n) \in Counters
                         /\ TrackTokenUsage(m, n).tokens = m.tokens + n
        /\ \A fp \in Prints, isError \in BOOLEAN :
               /\ RecordExecution(m, fp, isError) \in Counters
               /\ RecordExecution(m, fp, isError).tokens = m.tokens
<1>1. Fresh \in Counters /\ Fresh.tokens = 0
  <2>1. <<>> \in Seq(Prints) /\ <<>> \in Seq(BOOLEAN)
    BY EmptySeq
  <2> QED BY <2>1 DEF Fresh, Counters
<1>2. ASSUME NEW m \in Counters
      PROVE  /\ OnLoopStart(m) \in Counters /\ OnLoopStart(m).tokens = m.tokens
             /\ OnLoopTick(m) \in Counters /\ OnLoopTick(m).tokens = m.tokens
  BY DEF OnLoopStart, OnLoopTick, Counters
<1>3. ASSUME NEW m \in Counters, NEW n \in Nat
      PROVE  TrackTokenUsage(m, n) \in Counters /\ TrackTokenUsage(m, n).tokens = m.tokens + n
  BY DEF TrackTokenUsage, Counters
<1>4. ASSUME NEW m \in Counters, NEW fp \in Prints, NEW isError \in BOOLEAN
      PROVE  /\ RecordExecution(m, fp, isError) \in Counters
             /\ RecordExecution(m, fp, isError).tokens = m.tokens
  <2>1. Slide(m.window, isError, ErrorWindowSize) \in Seq(BOOLEAN)
    BY SlideType, MonitorAssumption DEF Counters
  <2>2. Slide(m.prints, fp, RepetitiveFailThreshold) \in Seq(Prints)
    BY SlideType, MonitorAssumption DEF Counters
  <2>3. <<>> \in Seq(Prints)
    BY EmptySeq
  <2> DEFINE w == Slide(m.window, isError, ErrorWindowSize)
             f == IF isError THEN m.fails + 1 ELSE 0
             p == IF isError THEN Slide(m.prints, fp, RepetitiveFailThreshold) ELSE <<>>
  <2>4. f \in Nat /\ p \in Seq(Prints)
    BY <2>2, <2>3 DEF Counters
  <2>5. RecordExecution(m, fp, isError) = [m EXCEPT !.window = w, !.fails = f, !.prints = p]
    BY DEF RecordExecution
  <2>6. w \in Seq(BOOLEAN)
    BY <2>1
  <2> HIDE DEF w, f, p
  <2> QED BY <2>4, <2>5, <2>6 DEF Counters
<1> QED BY <1>1, <1>2, <1>3, <1>4

\* A message with the turn, the role and the ids of messages is recorded.
LEMMA SayType ==
  ASSUME NEW h \in [SessionIds -> Seq(Messages)], NEW s \in SessionIds, NEW turn \in Inputs,
         NEW role \in {"user", "assistant", "tool", "warning"}, NEW ids \in Seq(CallIds)
  PROVE  Say(h, s, turn, role, ids) \in [SessionIds -> Seq(Messages)]
<1>1. [turn |-> turn, role |-> role, ids |-> ids] \in Messages
  BY DEF Messages
<1>2. Append(h[s], [turn |-> turn, role |-> role, ids |-> ids]) \in Seq(Messages)
  BY <1>1, AppendProperties
<1> QED BY <1>2 DEF Say

\* What is left of a plan is made of the plan's calls.
LEMMA ThinningType ==
  ASSUME NEW t \in Seq(CallIds), NEW s \in Thinnings(t)
  PROVE  s \in Seq(CallIds)
<1>1. PICK n \in 0..Len(t) : s \in [1..n -> ToSet(t)]
  BY DEF Thinnings
<1>2. ToSet(t) \subseteq CallIds
  BY ElementOfSeq, LenProperties DEF ToSet
<1>3. n \in Nat /\ s \in [1..n -> CallIds]
  BY <1>1, <1>2, LenProperties
<1> QED BY <1>3, SeqDef

Closing == {"error", "finished", "lockout"}

\* The end of a turn keeps the types of what it changes.
LEMMA EndTurnType ==
  ASSUME settled \subseteq Inputs, cur' \in Inputs,
         NEW r, NEW err \in BOOLEAN, NEW events \in SUBSET Closing,
         EndTurn(r, err, events)
  PROVE  /\ pc' = "ready" /\ settled' \subseteq Inputs
         /\ emitted' \subseteq Closing /\ errored' \in BOOLEAN
  BY DEF EndTurn, ClosingEvents, Closing

\* A round is entered at the persona, or refused with a lockout.
LEMMA EnterRoundType ==
  ASSUME settled \subseteq Inputs, cur' \in Inputs,
         NEW m \in Counters, NEW r, NEW err \in BOOLEAN, NEW events \in SUBSET Closing,
         EnterRound(m, r, err, events)
  PROVE  /\ monitor' \in Counters /\ monitor'.tokens = m.tokens /\ round' = r
         /\ settled' \subseteq Inputs /\ emitted' \subseteq Closing /\ errored' \in BOOLEAN
         /\ \/ pc' = "ready" /\ lstate' = "SAFETY_LOCKOUT"
            \/ pc' = "persona" /\ lstate' = "ASSEMBLING_CONTEXT"
<1>1. monitor' \in Counters /\ monitor'.tokens = m.tokens /\ round' = r
  BY MonitorTypes DEF EnterRound
<1>2. CASE TickHalts(monitor')
  <2>1. LockOut /\ EndTurn(r, err, events \cup {"lockout"})
    BY <1>2 DEF EnterRound
  <2>2. events \cup {"lockout"} \in SUBSET Closing
    BY DEF Closing
  <2> QED BY <1>1, <2>1, <2>2, EndTurnType DEF LockOut
<1>3. CASE ~TickHalts(monitor')
  BY <1>1, <1>3 DEF EnterRound
<1> QED BY <1>2, <1>3

\* Being done with a call leads to the next call, to the next round, or out of
\* the turn.
LEMMA NextCallType ==
  ASSUME TypeOK, calls # <<>>, cur \in Inputs,
         NEW h \in [SessionIds -> Seq(Messages)], NEW m \in Counters, NEW res \in Seq(CallIds),
         NextCall(h, m, res)
  PROVE  /\ cur' = cur /\ target' = target /\ asked' = NoNonce
         /\ calls' \in Seq(CallIds) /\ results' \in Seq(CallIds)
         /\ history' \in [SessionIds -> Seq(Messages)]
         /\ monitor' \in Counters /\ monitor'.tokens = m.tokens
         /\ round' = round
         /\ settled' \subseteq Inputs /\ emitted' \subseteq Closing /\ errored' \in BOOLEAN
         /\ \/ pc' = "deciding" /\ lstate' = lstate /\ calls' # <<>>
            \/ pc' = "ready" /\ lstate' \in {"WAITING_FOR_EVENT", "SAFETY_LOCKOUT"}
            \/ pc' = "persona" /\ lstate' = "ASSEMBLING_CONTEXT" /\ round <= MaxToolRounds
<1>1. /\ Tail(calls) \in Seq(CallIds) /\ Len(Tail(calls)) = Len(calls) - 1
      /\ <<>> \in Seq(CallIds) /\ Len(<<>>) = 0 /\ Len(calls) \in Nat \ {0}
  BY HeadTailProperties, EmptySeq DEF TypeOK
<1>2. /\ cur' = cur /\ target' = target /\ asked' = NoNonce
      /\ calls' \in Seq(CallIds)
  BY <1>1 DEF NextCall
<1>3. settled \subseteq Inputs /\ errored \in BOOLEAN /\ emitted \in SUBSET Closing
  BY DEF TypeOK, Closing
<1>4. CASE Len(calls) > 1
  <2>1. /\ results' = res /\ history' = h /\ monitor' = m /\ pc' = "deciding"
        /\ UNCHANGED <<lstate, round, errored, emitted, settled>> /\ calls' = Tail(calls)
    BY <1>1, <1>4 DEF NextCall
  <2>2. Tail(calls) # <<>>
    BY <1>4, MoreThanOne DEF TypeOK
  <2> QED BY <1>2, <1>3, <2>1, <2>2
<1>5. CASE ~(Len(calls) > 1)
  <2>1. results' = <<>> /\ FinishTools(h, m, res)
    BY <1>1, <1>5 DEF NextCall
  <2>2. history' \in [SessionIds -> Seq(Messages)]
    BY <2>1, SayType DEF FinishTools, ToolMessage, TypeOK
  <2>3. CASE round <= MaxToolRounds
    <3>1. EnterRound(m, round, errored, emitted)
      BY <2>1, <2>3 DEF FinishTools, RoundsLeft
    <3> QED BY <1>1, <1>2, <1>3, <2>1, <2>2, <2>3, <3>1, EnterRoundType
  <2>4. CASE ~(round <= MaxToolRounds)
    <3>1. monitor' = m /\ Quiet /\ EndTurn(round, errored, emitted) /\ round' = round
      BY <2>1, <2>4 DEF FinishTools, RoundsLeft
    <3> QED BY <1>1, <1>2, <1>3, <2>1, <2>2, <3>1, EndTurnType DEF Quiet
  <2> QED BY <2>3, <2>4
<1> QED BY <1>4, <1>5
-----------------------------------------------------------------------------
(* The queue keeps its types. *)

\* A one-element sequence.
LEMMA Singleton ==
  ASSUME NEW S, NEW e \in S
  PROVE  <<e>> \in Seq(S) /\ Len(<<e>>) <= 1
  OBVIOUS

LEMMA EnqueueType ==
  ASSUME NEW S, NEW e \in S, buffer \in Seq(S), handed \in Seq(S), Len(handed) <= 1,
         resolver \in BOOLEAN, Enqueue(e)
  PROVE  buffer' \in Seq(S) /\ handed' \in Seq(S) /\ Len(handed') <= 1 /\ resolver' \in BOOLEAN
<1>1. CASE resolver
  <2>1. handed' = <<e>> /\ buffer' = buffer /\ resolver' = FALSE
    BY <1>1 DEF Enqueue
  <2>2. handed' \in Seq(S) /\ Len(handed') <= 1
    BY <2>1, Singleton, Zenon
  <2> QED BY <2>1, <2>2
<1>2. CASE ~resolver
  <2>1. handed' = handed /\ buffer' = Append(buffer, e) /\ resolver' = resolver
    BY <1>2 DEF Enqueue
  <2> QED BY <2>1, AppendProperties
<1> QED BY <1>1, <1>2

LEMMA DequeueType ==
  ASSUME NEW S, buffer \in Seq(S), handed \in Seq(S), Len(handed) <= 1,
         resolver \in BOOLEAN, Dequeue
  PROVE  buffer' \in Seq(S) /\ handed' \in Seq(S) /\ Len(handed') <= 1 /\ resolver' \in BOOLEAN
<1>1. CASE buffer # <<>>
  <2>1. handed' = <<Head(buffer)>> /\ buffer' = Tail(buffer) /\ resolver' = resolver
    BY <1>1 DEF Dequeue
  <2>2. Head(buffer) \in S /\ Tail(buffer) \in Seq(S)
    BY <1>1, HeadTailProperties
  <2>3. handed' \in Seq(S) /\ Len(handed') <= 1
    BY <2>1, <2>2, Singleton, Zenon
  <2> QED BY <2>1, <2>2, <2>3
<1>2. CASE buffer = <<>>
  BY <1>2 DEF Dequeue
<1> QED BY <1>1, <1>2

-----------------------------------------------------------------------------
(* The inductive invariant. *)

LEMMA LoopInit == Init => IInv
<1> SUFFICES ASSUME Init PROVE IInv
  OBVIOUS
<1>1. /\ \A S : <<>> \in Seq(S)
      /\ Len(<<>>) = 0
  BY EmptySeq
<1>2. /\ buffer \in Seq(0..Len(dest)) /\ handed \in Seq(0..Len(dest)) /\ dest \in Seq(SessionIds)
      /\ calls \in Seq(CallIds) /\ results \in Seq(CallIds)
      /\ history \in [SessionIds -> Seq(Messages)]
  BY <1>1 DEF Init, QueueInit
<1>3. Len(handed) <= 1 /\ Len(dest) <= MaxInputs
  BY <1>1, LoopAssumption DEF Init, QueueInit
<1>4. TypeOK
  <2>1. status \in [SessionIds -> {"unborn", "live", "destroyed"}] /\ target \in SessionIds
    BY LoopAssumption DEF Init
  <2>2. monitor \in Counters
    BY MonitorTypes DEF Init
  <2>3. round \in 0..(MaxToolRounds + 1) /\ resets \in 0..MaxResets
    BY LoopAssumption DEF Init
  <2>4. /\ resolver \in BOOLEAN /\ running \in BOOLEAN /\ errored \in BOOLEAN
        /\ lstate \in LoopStates /\ pc = "off"
        /\ settled = {} /\ cur = 0 /\ emitted = {} /\ asked = NoNonce /\ stale = {} /\ granted = {}
    BY DEF Init, QueueInit, LoopStates
  <2> QED BY <1>2, <1>3, <2>1, <2>2, <2>3, <2>4 DEF TypeOK
<1>5. Coherent /\ Bookkeeping
  BY DEF Init, Coherent, Bookkeeping, InTurn
<1> QED BY <1>4, <1>5 DEF IInv

\* Pulling an event, and dropping or refusing it.
LEMMA LoopPulls ==
  ASSUME IInv, Start \/ Pull \/ \E e \in {Shutdown} \cup Inputs : ReceiveStopped(e) \/ ReceiveLocked(e)
  PROVE  IInv'
<1> USE DEF IInv, TypeOK, Coherent, Bookkeeping, LoopStates, InTurn
<1>1. CASE Start
  BY <1>1 DEF Start, queueVars, sessionVars, turnVars, promptVars
<1>2. CASE Pull
  <2>1. CASE running
    <3>1. Dequeue
      BY <1>2, <2>1 DEF Pull
    <3>2. /\ buffer' \in Seq(0..Len(dest)) /\ handed' \in Seq(0..Len(dest))
          /\ Len(handed') <= 1 /\ resolver' \in BOOLEAN
      BY <3>1, DequeueType
    <3> QED BY <1>2, <2>1, <3>2 DEF Pull, sessionVars, turnVars, promptVars
  <2>2. CASE ~running
    BY <1>2, <2>2 DEF Pull, queueVars, sessionVars, turnVars, promptVars
  <2> QED BY <2>1, <2>2
<1>3. ASSUME NEW e \in {Shutdown} \cup Inputs, ReceiveStopped(e) PROVE IInv'
  BY <1>3, EmptySeq DEF ReceiveStopped, Arrives, turnVars, promptVars
<1>4. ASSUME NEW e \in {Shutdown} \cup Inputs, ReceiveLocked(e) PROVE IInv'
  BY <1>4, EmptySeq DEF ReceiveLocked, Arrives, turnVars, promptVars, Shutdown
<1> QED BY <1>1, <1>2, <1>3, <1>4

\* Beginning a turn: the event is an input that was pushed, so it has a
\* destination and its state manager exists.
LEMMA LoopBegins ==
  ASSUME IInv, NEW e \in {Shutdown} \cup Inputs, BeginTurn(e)
  PROVE  IInv'
<1> USE DEF IInv, TypeOK
<1>1. handed = <<e>> /\ e # 0 /\ cur' = e /\ handed' = <<>> /\ calls' = <<>> /\ results' = <<>>
  BY DEF BeginTurn, Arrives, Shutdown
<1>2. e \in 1..Len(dest) /\ e \in Inputs
  <2>1. e \in 0..Len(dest)
    <3>1. handed # <<>> /\ Head(handed) = e
      BY <1>1
    <3> QED BY <3>1, HeadTailProperties
  <2> QED BY <1>1, <2>1 DEF Inputs, Shutdown
<1>3. target' \in SessionIds
  <2>1. dest[e] \in SessionIds
    BY <1>2, ElementOfSeq
  <2> QED BY <2>1, LoopAssumption DEF BeginTurn, StateManagerOf
<1>4. <<>> \in Seq(CallIds) /\ <<>> \in Seq(0..Len(dest)) /\ Len(<<>>) = 0
  BY EmptySeq
<1>5. history' \in [SessionIds -> Seq(Messages)]
  BY <1>2, <1>3, <1>4, SayType DEF BeginTurn
<1>6. /\ monitor' \in Counters /\ round' = 0
      /\ settled' \subseteq Inputs /\ emitted' \subseteq Closing /\ errored' \in BOOLEAN
      /\ \/ pc' = "ready" /\ lstate' = "SAFETY_LOCKOUT"
         \/ pc' = "persona" /\ lstate' = "ASSEMBLING_CONTEXT"
  <2>1. EnterRound(OnLoopStart(monitor), 0, FALSE, {})
    BY DEF BeginTurn
  <2>2. OnLoopStart(monitor) \in Counters /\ {} \in SUBSET Closing /\ FALSE \in BOOLEAN
    BY MonitorTypes
  <2> QED BY <1>1, <1>2, <2>1, <2>2, EnterRoundType
<1>7. UNCHANGED <<buffer, resolver, running, status, dest, asked, stale, granted, resets>>
  BY DEF BeginTurn, Arrives, promptVars
<1>8. 0 \in 0..(MaxToolRounds + 1) /\ 0 <= MaxToolRounds
  BY LoopAssumption
<1>9. TypeOK'
  <2>1. /\ handed' \in Seq(0..Len(dest')) /\ Len(handed') <= 1
        /\ buffer' \in Seq(0..Len(dest'))
        /\ calls' \in Seq(CallIds) /\ results' \in Seq(CallIds)
    BY <1>1, <1>4, <1>7
  <2>2. cur' \in {0} \cup Inputs /\ round' \in 0..(MaxToolRounds + 1)
    BY <1>1, <1>2, <1>6, <1>8
  <2> QED BY <1>3, <1>5, <1>6, <1>7, <2>1, <2>2 DEF LoopStates, InTurn, Closing
<1>10. Coherent' /\ Bookkeeping'
  BY <1>1, <1>2, <1>6, <1>8 DEF Coherent, Bookkeeping, InTurn
<1> QED BY <1>9, <1>10

\* The environment: pushing, stopping, resetting, sessions coming and going.
LEMMA LoopEnvironment ==
  ASSUME IInv,
         \/ Stop \/ Reset
         \/ \E s \in SessionIds : PushInput(s) \/ CreateSession(s) \/ DestroySession(s)
  PROVE  IInv'
<1> USE DEF IInv, TypeOK, Coherent, Bookkeeping, LoopStates, InTurn
<1>1. CASE Stop
  <2>1. Shutdown \in 0..Len(dest) /\ Enqueue(Shutdown)
    BY <1>1, LenProperties DEF Stop, Shutdown
  <2>2. /\ buffer' \in Seq(0..Len(dest)) /\ handed' \in Seq(0..Len(dest))
        /\ Len(handed') <= 1 /\ resolver' \in BOOLEAN
    BY <2>1, EnqueueType
  <2> QED BY <1>1, <2>2 DEF Stop, sessionVars, turnVars, promptVars
<1>2. CASE Reset
  <2>1. <<>> \in Seq(Messages)
    BY EmptySeq
  <2>2. history' \in [SessionIds -> Seq(Messages)] /\ monitor' \in Counters
    BY <1>2, <2>1, MonitorTypes DEF Reset
  <2>3. resets' \in 0..MaxResets
    BY <1>2, LoopAssumption DEF Reset
  <2> QED BY <1>2, <2>2, <2>3 DEF Reset, queueVars, turnVars, promptVars
<1>3. ASSUME NEW s \in SessionIds, PushInput(s) PROVE IInv'
  <2>1. /\ dest' \in Seq(SessionIds) /\ Len(dest') = Len(dest) + 1 /\ Len(dest) \in Nat
        /\ Len(dest) < MaxInputs /\ Enqueue(Len(dest) + 1)
    BY <1>3, AppendProperties, LenProperties DEF PushInput
  <2>2. /\ 0..Len(dest) \subseteq 0..Len(dest') /\ Len(dest) + 1 \in 0..Len(dest')
        /\ Len(dest') <= MaxInputs
    BY <2>1, LoopAssumption
  <2>3. buffer \in Seq(0..Len(dest')) /\ handed \in Seq(0..Len(dest'))
    BY <2>2, SeqMonotonic
  <2>4. /\ buffer' \in Seq(0..Len(dest')) /\ handed' \in Seq(0..Len(dest'))
        /\ Len(handed') <= 1 /\ resolver' \in BOOLEAN
    BY <2>1, <2>2, <2>3, EnqueueType
  <2> QED BY <1>3, <2>1, <2>2, <2>4 DEF PushInput, loopVars, sessionVars, turnVars, promptVars
<1>4. ASSUME NEW s \in SessionIds, CreateSession(s) PROVE IInv'
  BY <1>4 DEF CreateSession, queueVars, loopVars, turnVars, promptVars
<1>5. ASSUME NEW s \in SessionIds, DestroySession(s) PROVE IInv'
  <2>1. <<>> \in Seq(Messages)
    BY EmptySeq
  <2> QED BY <1>5, <2>1 DEF DestroySession, queueVars, loopVars, turnVars, promptVars
<1> QED BY <1>1, <1>2, <1>3, <1>4, <1>5

\* Whatever disposes of a call, what follows keeps the invariant.
LEMMA NextCallInv ==
  ASSUME IInv, pc \in {"deciding", "confirming", "executing"},
         NEW h \in [SessionIds -> Seq(Messages)], NEW m \in Counters, NEW res \in Seq(CallIds),
         NextCall(h, m, res),
         UNCHANGED <<queueVars, running, status, dest, resets>>,
         stale' \subseteq Nonces, granted' \subseteq Nonces
  PROVE  IInv'
<1>1. cur \in Inputs /\ calls # <<>> /\ TypeOK /\ lstate = "EXECUTING_TOOLS"
  BY DEF IInv, Bookkeeping, Coherent, InTurn
<1>2. /\ cur' = cur /\ target' = target /\ asked' = NoNonce
      /\ calls' \in Seq(CallIds) /\ results' \in Seq(CallIds)
      /\ history' \in [SessionIds -> Seq(Messages)]
      /\ monitor' \in Counters
      /\ round' = round
      /\ settled' \subseteq Inputs /\ emitted' \subseteq Closing /\ errored' \in BOOLEAN
      /\ \/ pc' = "deciding" /\ lstate' = lstate /\ calls' # <<>>
         \/ pc' = "ready" /\ lstate' \in {"WAITING_FOR_EVENT", "SAFETY_LOCKOUT"}
         \/ pc' = "persona" /\ lstate' = "ASSEMBLING_CONTEXT" /\ round <= MaxToolRounds
  BY <1>1, NextCallType
<1>3. TypeOK'
  BY <1>1, <1>2 DEF TypeOK, LoopStates, InTurn, Closing, queueVars
<1>4. Coherent' /\ Bookkeeping'
  BY <1>1, <1>2 DEF Coherent, Bookkeeping, InTurn
<1> QED BY <1>3, <1>4 DEF IInv

\* The LLM call: its budget, its model, its stream.
LEMMA LoopCalls ==
  ASSUME IInv,
         \/ OverBudget \/ NoModel \/ CallLLM
         \/ \E tokens \in 0..MaxTokensPerCall : StreamThrows(tokens)
  PROVE  IInv'
<1> USE DEF IInv, TypeOK, Coherent, Bookkeeping, LoopStates, InTurn
<1>1. settled \subseteq Inputs /\ errored \in BOOLEAN
  OBVIOUS
<1>2. /\ emitted \cup {"lockout"} \in SUBSET Closing
      /\ emitted \cup {"error"} \in SUBSET Closing
  BY DEF Closing
<1>3. CASE OverBudget
  <2>1. cur' \in Inputs /\ EndTurn(round, errored, emitted \cup {"lockout"})
    BY <1>3 DEF OverBudget
  <2>2. /\ pc' = "ready" /\ settled' \subseteq Inputs
        /\ emitted' \subseteq Closing /\ errored' \in BOOLEAN
    BY <1>1, <1>2, <2>1, EndTurnType
  <2> QED BY <1>3, <2>1, <2>2
          DEF OverBudget, LockOut, queueVars, sessionVars, promptVars, Closing
<1>4. CASE NoModel
  <2>1. cur' \in Inputs /\ EndTurn(round, errored, emitted \cup {"error"})
    BY <1>4 DEF NoModel
  <2>2. /\ pc' = "ready" /\ settled' \subseteq Inputs
        /\ emitted' \subseteq Closing /\ errored' \in BOOLEAN
    BY <1>1, <1>2, <2>1, EndTurnType
  <2> QED BY <1>4, <2>1, <2>2
          DEF NoModel, Quiet, queueVars, sessionVars, promptVars, Closing
<1>5. CASE CallLLM
  BY <1>5 DEF CallLLM, queueVars, sessionVars, turnVars, promptVars
<1>6. ASSUME NEW tokens \in 0..MaxTokensPerCall, StreamThrows(tokens) PROVE IInv'
  <2>1. cur' \in Inputs /\ EndTurn(round, TRUE, emitted \cup {"error"})
    BY <1>6 DEF StreamThrows
  <2>2. /\ pc' = "ready" /\ settled' \subseteq Inputs
        /\ emitted' \subseteq Closing /\ errored' \in BOOLEAN
    BY <1>1, <1>2, <2>1, EndTurnType
  <2>3. monitor' \in Counters
    <3>1. tokens \in Nat
      BY LoopAssumption
    <3>2. TrackTokenUsage(monitor, tokens) \in Counters
      BY <3>1, MonitorTypes
    <3> QED BY <1>6, <3>2 DEF StreamThrows
  <2> QED BY <1>6, <2>1, <2>2, <2>3
          DEF StreamThrows, Quiet, queueVars, sessionVars, promptVars, Closing
<1> QED BY <1>3, <1>4, <1>5, <1>6

\* A response: the ids of its calls carry the number of the round they would
\* run in, which is in range because the turn is still below its limit.
LEMMA LoopStreams ==
  ASSUME IInv, NEW tokens \in 0..MaxTokensPerCall, NEW n \in 0..MaxCalls,
         NEW text \in BOOLEAN, NEW err \in BOOLEAN, NEW stopReason,
         StreamEnds(n, text, stopReason, err, tokens)
  PROVE  IInv'
<1> DEFINE ids == [k \in 1..n |-> <<round + 1, k>>]
           failed == errored \/ err
           events == IF err THEN emitted \cup {"error"} ELSE emitted
<1>1. /\ TypeOK /\ cur \in Inputs /\ round <= MaxToolRounds /\ pc = "streaming"
      /\ lstate = "PROCESSING_RESPONSE"
  BY DEF IInv, Coherent, Bookkeeping, InTurn, StreamEnds
<1>2. ids \in Seq(CallIds)
  <2>1. round + 1 \in 1..(MaxToolRounds + 1) /\ n \in Nat
    BY <1>1, LoopAssumption DEF TypeOK
  <2>2. \A k \in 1..n : k \in 1..MaxCalls
    BY <2>1, LoopAssumption
  <2>3. ids \in [1..n -> CallIds]
    BY <2>1, <2>2 DEF CallIds
  <2> QED BY <2>1, <2>3, SeqDef
<1>3. /\ failed \in BOOLEAN /\ events \in SUBSET Closing
      /\ settled \subseteq Inputs /\ <<>> \in Seq(CallIds)
  BY <1>1, EmptySeq DEF TypeOK, Closing
<1>4. /\ UNCHANGED <<queueVars, running, status, dest, cur, target, round, promptVars, resets>>
      /\ results' = results
      /\ monitor' = TrackTokenUsage(monitor, tokens)
      /\ history' = IF text \/ n > 0 THEN Say(history, target, cur, "assistant", ids) ELSE history
      /\ \/ /\ n > 0 /\ calls' = ids /\ pc' = "planning"
            /\ errored' = failed /\ emitted' = events
            /\ UNCHANGED <<lstate, settled>>
         \/ calls' = <<>> /\ Quiet /\ EndTurn(round, failed, events)
  BY DEF StreamEnds
<1> HIDE DEF ids, failed, events
<1>5. history' \in [SessionIds -> Seq(Messages)] /\ monitor' \in Counters
  <2>1. Say(history, target, cur, "assistant", ids) \in [SessionIds -> Seq(Messages)]
    BY <1>1, <1>2, SayType DEF TypeOK
  <2>2. tokens \in Nat /\ monitor \in Counters
    BY <1>1, LoopAssumption DEF TypeOK
  <2>3. TrackTokenUsage(monitor, tokens) \in Counters
    BY <2>2, MonitorTypes
  <2> QED BY <1>1, <1>4, <2>1, <2>3 DEF TypeOK
<1>6. /\ settled' \subseteq Inputs /\ errored' \in BOOLEAN /\ emitted' \subseteq Closing
      /\ calls' \in Seq(CallIds)
      /\ \/ pc' = "planning" /\ lstate' = lstate
         \/ pc' = "ready" /\ lstate' = "WAITING_FOR_EVENT"
  <2>1. CASE pc' = "planning" /\ calls' = ids /\ errored' = failed /\ emitted' = events
             /\ UNCHANGED <<lstate, settled>>
    BY <1>2, <1>3, <2>1
  <2>2. CASE calls' = <<>> /\ Quiet /\ EndTurn(round, failed, events)
    <3>1. cur' \in Inputs
      BY <1>1, <1>4
    <3> QED BY <1>3, <2>2, <3>1, EndTurnType DEF Quiet
  <2> QED BY <1>4, <2>1, <2>2
<1>7. TypeOK'
  BY <1>1, <1>3, <1>4, <1>5, <1>6 DEF TypeOK, LoopStates, InTurn, Closing, queueVars, promptVars
<1>8. Coherent' /\ Bookkeeping'
  BY <1>1, <1>4, <1>6 DEF Coherent, Bookkeeping, InTurn
<1> QED BY <1>7, <1>8 DEF IInv

\* Deciding on a call: strike it off the plan, block it, let it run, ask.
LEMMA LoopDecides ==
  ASSUME IInv,
         \/ \E kept \in Thinnings(calls) : Deliberate(kept)
         \/ Block \/ Approve \/ AskUser \/ ConfirmationTimeout
         \/ \E n \in Nonces, approved \in BOOLEAN : Respond(n, approved)
         \/ Crash
  PROVE  IInv'
<1>0. /\ TypeOK /\ history \in [SessionIds -> Seq(Messages)] /\ monitor \in Counters
      /\ results \in Seq(CallIds) /\ calls \in Seq(CallIds)
      /\ stale \subseteq Nonces /\ granted \subseteq Nonces
  BY DEF IInv, TypeOK
<1>1. ASSUME NEW kept \in Thinnings(calls), Deliberate(kept) PROVE IInv'
  <2>1. kept \in Seq(CallIds) /\ cur \in Inputs /\ round <= MaxToolRounds
    BY <1>0, <1>1, ThinningType DEF IInv, Bookkeeping, InTurn, Deliberate
  <2>2. /\ UNCHANGED <<queueVars, running, monitor, sessionVars, dest, cur, target, results,
                       promptVars, resets>>
        /\ calls' = kept
    BY <1>1 DEF Deliberate
  <2>3. CASE kept # <<>>
    <3>1. /\ lstate' = "EXECUTING_TOOLS" /\ round' = round + 1 /\ pc' = "deciding"
          /\ UNCHANGED <<errored, emitted, settled>>
      BY <1>1, <2>3 DEF Deliberate
    <3>2. round' \in 0..(MaxToolRounds + 1)
      BY <1>0, <2>1, <3>1, LoopAssumption DEF TypeOK
    <3> QED BY <2>1, <2>2, <2>3, <3>1, <3>2
            DEF IInv, TypeOK, Coherent, Bookkeeping, LoopStates, InTurn, queueVars, sessionVars,
                promptVars
  <2>4. CASE kept = <<>>
    <3>1. Quiet /\ EndTurn(round, errored, emitted) /\ round' = round /\ cur' \in Inputs
      BY <1>1, <2>1, <2>4 DEF Deliberate
    <3>2. settled \subseteq Inputs /\ errored \in BOOLEAN /\ emitted \in SUBSET Closing
      BY <1>0 DEF TypeOK, Closing
    <3>3. /\ pc' = "ready" /\ settled' \subseteq Inputs
          /\ emitted' \subseteq Closing /\ errored' \in BOOLEAN
      BY <3>1, <3>2, EndTurnType
    <3> QED BY <2>1, <2>2, <3>1, <3>3
            DEF IInv, TypeOK, Coherent, Bookkeeping, LoopStates, InTurn, queueVars, sessionVars,
                promptVars, Closing, Quiet
  <2> QED BY <2>3, <2>4
<1>2. CASE Block
  BY <1>0, <1>2, NextCallInv DEF Block
<1>3. CASE Approve
  BY <1>3 DEF Approve, IInv, TypeOK, Coherent, Bookkeeping, LoopStates, InTurn, queueVars,
              sessionVars, turnVars
<1>4. CASE AskUser
  BY <1>4 DEF AskUser, IInv, TypeOK, Coherent, Bookkeeping, LoopStates, InTurn, queueVars,
              sessionVars, turnVars
<1>5. CASE ConfirmationTimeout
  <2>1. stale' \subseteq Nonces /\ granted' \subseteq Nonces
    BY <1>0, <1>5 DEF ConfirmationTimeout, IInv, Bookkeeping
  <2> QED BY <1>0, <1>5, <2>1, NextCallInv DEF ConfirmationTimeout
<1>6. ASSUME NEW n \in Nonces, NEW approved \in BOOLEAN, Respond(n, approved) PROVE IInv'
  <2>1. /\ stale' \subseteq Nonces /\ granted' \subseteq Nonces
        /\ UNCHANGED <<queueVars, running, status, dest, resets>>
    BY <1>0, <1>6 DEF Respond
  <2>2. CASE /\ Heard(n) /\ pc' = "executing"
             /\ UNCHANGED <<lstate, monitor, history, turnVars, asked>>
    BY <2>1, <2>2 DEF Heard, IInv, TypeOK, Coherent, Bookkeeping, LoopStates, InTurn, queueVars,
                      turnVars
  <2>3. CASE Heard(n) /\ NextCall(history, monitor, results)
    BY <1>0, <2>1, <2>3, NextCallInv DEF Heard
  <2>4. CASE UNCHANGED <<lstate, pc, monitor, history, turnVars, asked>>
    BY <2>1, <2>4 DEF IInv, TypeOK, Coherent, Bookkeeping, LoopStates, InTurn, queueVars, turnVars
  <2> QED BY <1>6, <2>2, <2>3, <2>4 DEF Respond
<1>7. CASE Crash
  BY <1>7 DEF Crash, IInv, TypeOK, Coherent, Bookkeeping, LoopStates, InTurn, queueVars,
              sessionVars, turnVars, promptVars
<1> QED BY <1>1, <1>2, <1>3, <1>4, <1>5, <1>6, <1>7

\* A tool's outcome: the next call, a warning and the next call, or a lockout.
LEMMA LoopRecords ==
  ASSUME IInv, NEW fp \in Prints, NEW isError \in BOOLEAN, ToolDone(fp, isError)
  PROVE  IInv'
<1> DEFINE m == RecordExecution(monitor, fp, isError)
           v == Verdict(m, fp, isError)
           res == Recorded
<1>1. /\ TypeOK /\ pc = "executing" /\ cur \in Inputs /\ calls # <<>>
      /\ UNCHANGED <<queueVars, running, status, dest, stale, granted, resets>>
      /\ stale' \subseteq Nonces /\ granted' \subseteq Nonces
  BY DEF ToolDone, IInv, Bookkeeping, InTurn, TypeOK
<1>2. m \in Counters
  BY <1>1, MonitorTypes DEF TypeOK
<1>3. res \in Seq(CallIds)
  <2>1. Head(calls) \in CallIds
    BY <1>1, HeadTailProperties DEF TypeOK
  <2> QED BY <1>1, <2>1, AppendProperties DEF TypeOK, Recorded
<1>4. \/ /\ UNCHANGED <<history, cur, target, round>>
         /\ LockOut /\ EndTurn(round, errored, emitted \cup {"lockout"})
         /\ monitor' = m /\ calls' = <<>> /\ results' = <<>> /\ asked' = NoNonce
      \/ NextCall(Say(history, target, cur, "warning", <<>>), m, res)
      \/ NextCall(history, m, res)
  BY DEF ToolDone
<1> HIDE DEF m, v, res
<1>5. CASE /\ UNCHANGED <<history, cur, target, round>>
           /\ LockOut /\ EndTurn(round, errored, emitted \cup {"lockout"})
           /\ monitor' = m /\ calls' = <<>> /\ results' = <<>> /\ asked' = NoNonce
  <2>1. /\ settled \subseteq Inputs /\ errored \in BOOLEAN /\ cur' \in Inputs
        /\ emitted \cup {"lockout"} \in SUBSET Closing
    BY <1>1, <1>5 DEF TypeOK, Closing
  <2>2. /\ pc' = "ready" /\ settled' \subseteq Inputs
        /\ emitted' \subseteq Closing /\ errored' \in BOOLEAN
    BY <1>5, <2>1, EndTurnType
  <2>3. <<>> \in Seq(CallIds)
    BY EmptySeq
  <2> QED BY <1>1, <1>2, <1>5, <2>2, <2>3
          DEF IInv, TypeOK, Coherent, Bookkeeping, LoopStates, InTurn, queueVars, Closing, LockOut
<1>6. CASE NextCall(Say(history, target, cur, "warning", <<>>), m, res)
  <2>1. Say(history, target, cur, "warning", <<>>) \in [SessionIds -> Seq(Messages)]
    BY <1>1, SayType, EmptySeq DEF TypeOK
  <2> QED BY <1>1, <1>2, <1>3, <1>6, <2>1, NextCallInv
<1>7. CASE NextCall(history, m, res)
  <2>1. history \in [SessionIds -> Seq(Messages)]
    BY <1>1 DEF TypeOK
  <2> QED BY <1>1, <1>2, <1>3, <1>7, <2>1, NextCallInv
<1> QED BY <1>4, <1>5, <1>6, <1>7

LEMMA LoopInductive == IInv /\ [Next]_vars => IInv'
<1> SUFFICES ASSUME IInv, [Next]_vars PROVE IInv'
  OBVIOUS
<1>1. CASE LoopStep
  <2>1. CASE Pull
    BY <2>1, LoopPulls
  <2>2. ASSUME NEW e \in {Shutdown} \cup Inputs,
               ReceiveStopped(e) \/ ReceiveLocked(e) \/ BeginTurn(e)
        PROVE  IInv'
    BY <2>2, LoopPulls, LoopBegins
  <2>3. CASE TurnStep
    <3>1. CASE OverBudget \/ NoModel \/ CallLLM
      BY <3>1, LoopCalls
    <3>2. ASSUME NEW tokens \in 0..MaxTokensPerCall, StreamThrows(tokens) PROVE IInv'
      BY <3>2, LoopCalls
    <3>3. ASSUME NEW tokens \in 0..MaxTokensPerCall, NEW n \in 0..MaxCalls,
                 NEW text \in BOOLEAN, NEW err \in BOOLEAN,
                 NEW stopReason \in {"tool_use", "end_turn"},
                 StreamEnds(n, text, stopReason, err, tokens)
          PROVE  IInv'
      BY <3>3, LoopStreams
    <3>4. CASE \/ \E kept \in Thinnings(calls) : Deliberate(kept)
               \/ Block \/ Approve \/ AskUser \/ ConfirmationTimeout \/ Crash
      BY <3>4, LoopDecides
    <3>5. ASSUME NEW fp \in Prints, NEW isError \in BOOLEAN, ToolDone(fp, isError) PROVE IInv'
      BY <3>5, LoopRecords
    <3> QED BY <2>3, <3>1, <3>2, <3>3, <3>4, <3>5 DEF TurnStep
  <2> QED BY <1>1, <2>1, <2>2, <2>3 DEF LoopStep
<1>2. CASE EnvStep
  <2>1. CASE Start
    BY <2>1, LoopPulls
  <2>2. CASE Stop \/ Reset \/ \E s \in SessionIds : PushInput(s) \/ CreateSession(s) \/ DestroySession(s)
    BY <2>2, LoopEnvironment
  <2>3. CASE \E n \in Nonces, approved \in BOOLEAN : Respond(n, approved)
    BY <2>3, LoopDecides
  <2> QED BY <1>2, <2>1, <2>2, <2>3 DEF EnvStep
<1>3. CASE UNCHANGED vars
  BY <1>3 DEF vars, queueVars, loopVars, sessionVars, turnVars, promptVars, IInv, TypeOK, Coherent,
              Bookkeeping
<1> QED BY <1>1, <1>2, <1>3 DEF Next

-----------------------------------------------------------------------------
\* Every variable of the loop keeps its type; among it that tool rounds never
\* exceed the configured number by more than one, and that the queue holds only
\* inputs that were pushed.
THEOREM LoopTypeCorrect == Spec => []TypeOK
<1>1. IInv => TypeOK
  BY DEF IInv
<1> QED BY <1>1, LoopInit, LoopInductive, PTL DEF Spec

\* While the agent is locked out no turn is under way: the three checks that set
\* SAFETY_LOCKOUT all leave the turn before its next await.
THEOREM LoopNoWorkInLockout == Spec => []NoWorkInLockout
<1>1. IInv => NoWorkInLockout
  BY DEF IInv, Coherent, NoWorkInLockout, InTurn
<1> QED BY <1>1, LoopInit, LoopInductive, PTL DEF Spec

\* What NextCall leaves behind, for the proofs below.
LEMMA NextCallEffect ==
  ASSUME IInv, pc \in {"deciding", "confirming", "executing"},
         NEW h, NEW m \in Counters, NEW res, NextCall(h, m, res)
  PROVE  /\ monitor'.tokens = m.tokens /\ round' = round /\ asked' = NoNonce
         /\ \/ pc' = "deciding" /\ lstate' = lstate
            \/ pc' = "ready" /\ lstate' \in {"WAITING_FOR_EVENT", "SAFETY_LOCKOUT"}
            \/ pc' = "persona" /\ lstate' = "ASSEMBLING_CONTEXT" /\ round <= MaxToolRounds
<1>1. asked' = NoNonce
  BY DEF NextCall
<1>2. CASE pc' = "deciding" /\ UNCHANGED <<lstate, round>> /\ monitor' = m
  BY <1>1, <1>2
<1>3. CASE FinishTools(h, m, res)
  <2>1. CASE round <= MaxToolRounds /\ EnterRound(m, round, errored, emitted)
    BY <1>1, <2>1, MonitorTypes DEF EnterRound, EndTurn, LockOut
  <2>2. CASE monitor' = m /\ Quiet /\ EndTurn(round, errored, emitted) /\ round' = round
    BY <1>1, <2>2 DEF Quiet, EndTurn
  <2> QED BY <1>3, <2>1, <2>2 DEF FinishTools, RoundsLeft
<1> QED BY <1>2, <1>3 DEF NextCall

\* The steps that are done with a call and go on, and their effect.
Disposes ==
    \/ Block \/ ConfirmationTimeout
    \/ \E n \in Nonces : Respond(n, FALSE) /\ Heard(n)
    \/ \E fp \in Prints, isError \in BOOLEAN :
          /\ ToolDone(fp, isError)
          /\ Verdict(RecordExecution(monitor, fp, isError), fp, isError) # "halt"

LEMMA DisposesEffect ==
  ASSUME IInv, Disposes
  PROVE  /\ pc \in {"deciding", "confirming", "executing"} /\ lstate = "EXECUTING_TOOLS"
         /\ monitor'.tokens = monitor.tokens /\ round' = round /\ asked' = NoNonce
         /\ \/ pc' = "deciding" /\ lstate' = lstate
            \/ pc' = "ready" /\ lstate' \in {"WAITING_FOR_EVENT", "SAFETY_LOCKOUT"}
            \/ pc' = "persona" /\ lstate' = "ASSEMBLING_CONTEXT" /\ round <= MaxToolRounds
<1>1. pc \in {"deciding", "confirming", "executing"} /\ lstate = "EXECUTING_TOOLS"
  BY DEF Disposes, Block, ConfirmationTimeout, Heard, ToolDone, IInv, Coherent
<1>2. monitor \in Counters
  BY DEF IInv, TypeOK
<1>3. \E h, res : \E m \in Counters : m.tokens = monitor.tokens /\ NextCall(h, m, res)
  <2>1. CASE Block \/ ConfirmationTimeout \/ \E n \in Nonces : Respond(n, FALSE) /\ Heard(n)
    <3>1. NextCall(history, monitor, results)
      BY <2>1 DEF Block, ConfirmationTimeout, Respond
    <3> QED BY <1>2, <3>1
  <2>2. ASSUME NEW fp \in Prints, NEW isError \in BOOLEAN, ToolDone(fp, isError),
               Verdict(RecordExecution(monitor, fp, isError), fp, isError) # "halt"
        PROVE  \E h, res : \E m \in Counters : m.tokens = monitor.tokens /\ NextCall(h, m, res)
    <3> DEFINE m == RecordExecution(monitor, fp, isError)
               res == Recorded
    <3>1. m \in Counters /\ m.tokens = monitor.tokens
      BY <1>2, MonitorTypes
    <3>2. \/ NextCall(Say(history, target, cur, "warning", <<>>), m, res)
          \/ NextCall(history, m, res)
      BY <2>2 DEF ToolDone
    <3> HIDE DEF m, res
    <3> QED BY <3>1, <3>2
  <2> QED BY <2>1, <2>2 DEF Disposes
<1> QED BY <1>1, <1>3, NextCallEffect

\* The other ways a tool call or an answer ends: a lockout, an approval, an
\* answer nobody waits for.
LEMMA OtherOutcomes ==
  /\ \A fp \in Prints, isError \in BOOLEAN : ToolDone(fp, isError) =>
        \/ Disposes
        \/ /\ pc = "executing" /\ pc' = "ready" /\ lstate' = "SAFETY_LOCKOUT" /\ round' = round
           /\ monitor' = RecordExecution(monitor, fp, isError)
  /\ \A n \in Nonces, approved \in BOOLEAN : Respond(n, approved) =>
        \/ Disposes
        \/ /\ pc = "confirming" /\ pc' = "executing" /\ asked \in granted'
           /\ UNCHANGED <<lstate, monitor, round, asked>>
        \/ UNCHANGED <<lstate, pc, monitor, round, asked>> /\ granted \subseteq granted'
<1>1. ASSUME NEW fp \in Prints, NEW isError \in BOOLEAN, ToolDone(fp, isError)
      PROVE  \/ Disposes
             \/ /\ pc = "executing" /\ pc' = "ready" /\ lstate' = "SAFETY_LOCKOUT"
                /\ round' = round /\ monitor' = RecordExecution(monitor, fp, isError)
  <2>1. CASE Verdict(RecordExecution(monitor, fp, isError), fp, isError) = "halt"
    BY <1>1, <2>1 DEF ToolDone, LockOut, EndTurn, Warns
  <2>2. CASE Verdict(RecordExecution(monitor, fp, isError), fp, isError) # "halt"
    BY <1>1, <2>2 DEF Disposes
  <2> QED BY <2>1, <2>2
<1>2. ASSUME NEW n \in Nonces, NEW approved \in BOOLEAN, Respond(n, approved)
      PROVE  \/ Disposes
             \/ /\ pc = "confirming" /\ pc' = "executing" /\ asked \in granted'
                /\ UNCHANGED <<lstate, monitor, round, asked>>
             \/ UNCHANGED <<lstate, pc, monitor, round, asked>> /\ granted \subseteq granted'
  <2>1. CASE Heard(n) /\ approved = FALSE
    BY <1>2, <2>1 DEF Disposes
  <2>2. CASE Heard(n) /\ approved = TRUE
    BY <1>2, <2>2 DEF Respond, Heard, turnVars
  <2>3. CASE ~Heard(n)
    BY <1>2, <2>3 DEF Respond, turnVars
  <2> QED BY <2>1, <2>2, <2>3
<1> QED BY <1>1, <1>2

-----------------------------------------------------------------------------
\* A tool whose confirmation was asked runs only on an approval of that very
\* prompt (waitForConfirmation's nonce, default-deny on timeout).
THEOREM LoopOnlyConfirmed == Spec => []OnlyConfirmedToolsRun
<1>1. Init => OnlyConfirmedToolsRun
  BY DEF Init, OnlyConfirmedToolsRun
<1>2. IInv /\ OnlyConfirmedToolsRun /\ [Next]_vars => OnlyConfirmedToolsRun'
  <2> SUFFICES ASSUME IInv, OnlyConfirmedToolsRun, [Next]_vars, pc' = "executing", asked' # NoNonce
               PROVE  asked' \in granted'
    BY DEF OnlyConfirmedToolsRun
  <2> USE DEF OnlyConfirmedToolsRun
  <2>1. CASE LoopStep
    <3>1. CASE Pull
      BY <2>1, <3>1 DEF Pull
    <3>2. ASSUME NEW e \in {Shutdown} \cup Inputs,
                 ReceiveStopped(e) \/ ReceiveLocked(e) \/ BeginTurn(e)
          PROVE  FALSE
      BY <3>2 DEF ReceiveStopped, ReceiveLocked, BeginTurn, EnterRound, EndTurn
    <3>3. CASE OverBudget \/ NoModel \/ CallLLM \/ Crash
      BY <3>3 DEF OverBudget, NoModel, CallLLM, Crash, EndTurn
    <3>4. ASSUME NEW tokens, StreamThrows(tokens) PROVE FALSE
      BY <3>4 DEF StreamThrows, EndTurn
    <3>5. ASSUME NEW tokens, NEW n, NEW text, NEW err, NEW stopReason,
                 StreamEnds(n, text, stopReason, err, tokens)
          PROVE  FALSE
      BY <3>5 DEF StreamEnds, EndTurn
    <3>6. ASSUME NEW kept, Deliberate(kept) PROVE FALSE
      BY <3>6 DEF Deliberate, EndTurn
    <3>7. CASE Approve \/ AskUser
      BY <3>7 DEF Approve, AskUser
    <3>8. CASE Block \/ ConfirmationTimeout
      BY <3>8, DisposesEffect DEF Disposes
    <3>9. ASSUME NEW fp \in Prints, NEW isError \in BOOLEAN, ToolDone(fp, isError) PROVE FALSE
      BY <3>9, OtherOutcomes, DisposesEffect
    <3> QED BY <2>1, <3>1, <3>2, <3>3, <3>4, <3>5, <3>6, <3>7, <3>8, <3>9 DEF LoopStep, TurnStep
  <2>2. CASE EnvStep
    <3>1. CASE Start \/ Stop \/ Reset
              \/ \E s \in SessionIds : PushInput(s) \/ CreateSession(s) \/ DestroySession(s)
      BY <3>1 DEF Start, Stop, Reset, PushInput, CreateSession, DestroySession, loopVars, promptVars
    <3>2. ASSUME NEW n \in Nonces, NEW approved \in BOOLEAN, Respond(n, approved)
          PROVE  asked' \in granted'
      BY <3>2, OtherOutcomes, DisposesEffect
    <3> QED BY <2>2, <3>1, <3>2 DEF EnvStep
  <2>3. CASE UNCHANGED vars
    BY <2>3 DEF vars, loopVars, promptVars
  <2> QED BY <2>1, <2>2, <2>3 DEF Next
<1> QED BY <1>1, <1>2, LoopInit, LoopInductive, PTL DEF Spec

\* The token budget is overrun by at most the one call that exhausts it:
\* beforeLLMCall stands between any two calls.
THEOREM LoopBudget == Spec => []BudgetOverrunIsOneCall
<1>1. Init => BudgetInv
  BY MonitorTypes, MonitorAssumption, LoopAssumption DEF Init, BudgetInv
<1>2. IInv /\ BudgetInv /\ [Next]_vars => BudgetInv'
  <2> SUFFICES ASSUME IInv, BudgetInv, [Next]_vars, MaxTokenUsage > 0
               PROVE  /\ monitor'.tokens < MaxTokenUsage + MaxTokensPerCall
                      /\ pc' = "streaming" => monitor'.tokens < MaxTokenUsage
    BY DEF BudgetInv
  <2>0. /\ monitor \in Counters /\ monitor.tokens \in Nat
        /\ monitor.tokens < MaxTokenUsage + MaxTokensPerCall
        /\ pc = "streaming" => monitor.tokens < MaxTokenUsage
    BY DEF IInv, TypeOK, BudgetInv, Counters
  <2>1. CASE monitor'.tokens = monitor.tokens /\ (pc' # "streaming" \/ pc = "streaming")
    BY <2>0, <2>1
  <2>2. CASE LoopStep
    <3>1. CASE Pull
      BY <2>1, <3>1 DEF Pull
    <3>2. ASSUME NEW e \in {Shutdown} \cup Inputs,
                 ReceiveStopped(e) \/ ReceiveLocked(e) \/ BeginTurn(e)
          PROVE  monitor'.tokens = monitor.tokens /\ pc' # "streaming"
      <4>1. CASE ReceiveStopped(e) \/ ReceiveLocked(e)
        BY <4>1 DEF ReceiveStopped, ReceiveLocked
      <4>2. CASE BeginTurn(e)
        <5>1. EnterRound(OnLoopStart(monitor), 0, FALSE, {})
          BY <4>2 DEF BeginTurn
        <5>2. monitor' = OnLoopTick(OnLoopStart(monitor)) /\ pc' # "streaming"
          BY <5>1 DEF EnterRound, EndTurn
        <5> QED BY <2>0, <5>2, MonitorTypes
      <4> QED BY <3>2, <4>1, <4>2
    <3>3. CASE OverBudget \/ NoModel \/ Crash \/ Approve \/ AskUser
      BY <2>1, <3>3 DEF OverBudget, NoModel, Crash, Approve, AskUser, EndTurn
    <3>4. CASE CallLLM
      <4>1. monitor' = monitor /\ ~BudgetHalts(monitor)
        BY <3>4 DEF CallLLM
      <4>2. monitor.tokens < MaxTokenUsage
        BY <2>0, <4>1, MonitorAssumption DEF BudgetHalts
      <4> QED BY <2>0, <4>1, <4>2
    <3>5. ASSUME NEW tokens \in 0..MaxTokensPerCall,
                 \/ StreamThrows(tokens)
                 \/ \E n \in 0..MaxCalls, text, err \in BOOLEAN, stopReason \in {"tool_use", "end_turn"} :
                      StreamEnds(n, text, stopReason, err, tokens)
          PROVE  monitor'.tokens < MaxTokenUsage + MaxTokensPerCall /\ pc' # "streaming"
      <4>1. pc = "streaming" /\ monitor' = TrackTokenUsage(monitor, tokens) /\ pc' # "streaming"
        BY <3>5 DEF StreamThrows, StreamEnds, EndTurn
      <4>2. tokens \in Nat /\ tokens <= MaxTokensPerCall
        BY LoopAssumption
      <4>3. monitor'.tokens = monitor.tokens + tokens
        BY <2>0, <4>1, <4>2, MonitorTypes
      <4> QED BY <2>0, <4>1, <4>2, <4>3, MonitorAssumption, LoopAssumption
    <3>6. ASSUME NEW kept, Deliberate(kept)
          PROVE  monitor'.tokens = monitor.tokens /\ pc' # "streaming"
      BY <3>6 DEF Deliberate, EndTurn
    <3>7. CASE Block \/ ConfirmationTimeout
      BY <2>1, <3>7, DisposesEffect DEF Disposes
    <3>8. ASSUME NEW fp \in Prints, NEW isError \in BOOLEAN, ToolDone(fp, isError)
          PROVE  monitor'.tokens = monitor.tokens /\ pc' # "streaming"
      BY <2>0, <3>8, OtherOutcomes, DisposesEffect, MonitorTypes
    <3> QED BY <2>1, <2>2, <3>1, <3>2, <3>3, <3>4, <3>5, <3>6, <3>7, <3>8 DEF LoopStep, TurnStep
  <2>3. CASE EnvStep
    <3>1. CASE Start \/ Stop
              \/ \E s \in SessionIds : PushInput(s) \/ CreateSession(s) \/ DestroySession(s)
      BY <2>1, <3>1 DEF Start, Stop, PushInput, CreateSession, DestroySession, loopVars
    <3>2. CASE Reset
      <4>1. monitor'.tokens = 0
        BY <3>2, MonitorTypes DEF Reset
      <4> QED BY <4>1, MonitorAssumption, LoopAssumption
    <3>3. ASSUME NEW n \in Nonces, NEW approved \in BOOLEAN, Respond(n, approved)
          PROVE  monitor'.tokens = monitor.tokens /\ (pc' # "streaming" \/ pc = "streaming")
      BY <3>3, OtherOutcomes, DisposesEffect
    <3> QED BY <2>1, <2>3, <3>1, <3>2, <3>3 DEF EnvStep
  <2>4. CASE UNCHANGED vars
    BY <2>1, <2>4 DEF vars, loopVars
  <2> QED BY <2>2, <2>3, <2>4 DEF Next
<1>3. BudgetInv => BudgetOverrunIsOneCall
  BY DEF BudgetInv, BudgetOverrunIsOneCall
<1> QED BY <1>1, <1>2, <1>3, LoopInit, LoopInductive, PTL DEF Spec

\* The agent leaves a lockout only with fresh counters: AgentCore.reset is the
\* only way out, and both STATE_RESET listeners run in it.
THEOREM LoopUnlockClears == Spec => UnlockClearsCounters
<1>1. IInv /\ [Next]_vars => [lstate = "SAFETY_LOCKOUT" /\ lstate' # "SAFETY_LOCKOUT" => monitor' = Fresh]_vars
  <2> SUFFICES ASSUME IInv, Next, lstate = "SAFETY_LOCKOUT", lstate' # "SAFETY_LOCKOUT"
               PROVE  monitor' = Fresh
    OBVIOUS
  <2>1. pc \in {"ready", "pulling", "stopped", "crashed"}
    BY DEF IInv, TypeOK, Coherent, InTurn
  <2>2. CASE LoopStep
    <3>1. CASE Pull
      BY <3>1 DEF Pull
    <3>2. ASSUME NEW e, ReceiveStopped(e) \/ ReceiveLocked(e) \/ BeginTurn(e) PROVE FALSE
      BY <3>2 DEF ReceiveStopped, ReceiveLocked, BeginTurn, LockedOut
    <3>3. CASE TurnStep
      BY <2>1, <3>3 DEF TurnStep, OverBudget, NoModel, CallLLM, StreamThrows, StreamEnds, Deliberate,
                        Block, Approve, AskUser, ConfirmationTimeout, ToolDone, Crash
    <3> QED BY <2>2, <3>1, <3>2, <3>3 DEF LoopStep
  <2>3. CASE EnvStep
    <3>1. CASE Start
      BY <2>1, <3>1 DEF Start
    <3>2. CASE Reset
      BY <3>2 DEF Reset
    <3>3. CASE Stop \/ \E s \in SessionIds : PushInput(s) \/ CreateSession(s) \/ DestroySession(s)
      BY <3>3 DEF Stop, PushInput, CreateSession, DestroySession, loopVars
    <3>4. ASSUME NEW n \in Nonces, NEW approved \in BOOLEAN, Respond(n, approved) PROVE FALSE
      BY <2>1, <3>4 DEF Respond, Heard
    <3> QED BY <2>3, <3>1, <3>2, <3>3, <3>4 DEF EnvStep
  <2> QED BY <2>2, <2>3 DEF Next
<1> QED BY <1>1, LoopInit, LoopInductive, PTL DEF Spec, UnlockClearsCounters

-----------------------------------------------------------------------------
\* The loop implements the state machine of its documentation: every step of the
\* loop, the queue, the sessions and the user is a step of LoopLifecycle or
\* leaves the reported state and the round alone.
THEOREM LoopImplementsLifecycle == Spec => Lifecycle!Safety
<1>1. Init => Lifecycle!Init
  BY DEF Init, Lifecycle!Init, Phase
<1>2. IInv /\ [Next]_vars => [Lifecycle!Next]_(Lifecycle!vars)
  <2> SUFFICES ASSUME IInv, [Next]_vars
               PROVE  Lifecycle!Next \/ (Phase' = Phase /\ round' = round)
    BY DEF Lifecycle!vars
  <2> USE DEF Lifecycle!Move
  <2>0. Coherent /\ TypeOK
    BY DEF IInv
  <2>1. ASSUME pc \notin {"off", "stopped", "crashed"} PROVE Phase = lstate
    BY <2>1 DEF Phase
  <2>2. ASSUME pc' \notin {"off", "stopped", "crashed"} PROVE Phase' = lstate'
    BY <2>2 DEF Phase
  <2>3. CASE UNCHANGED <<pc, lstate, round>>
    BY <2>3 DEF Phase
  <2>4. CASE Disposes
    <3>1. /\ Phase = "EXECUTING_TOOLS" /\ round' = round
          /\ \/ Phase' = Phase
             \/ Phase' \in {"WAITING_FOR_EVENT", "SAFETY_LOCKOUT"}
             \/ Phase' = "ASSEMBLING_CONTEXT" /\ round < MaxToolRounds + 1
      <4>1. /\ pc \in {"deciding", "confirming", "executing"} /\ lstate = "EXECUTING_TOOLS"
            /\ round' = round
            /\ \/ pc' = "deciding" /\ lstate' = lstate
               \/ pc' = "ready" /\ lstate' \in {"WAITING_FOR_EVENT", "SAFETY_LOCKOUT"}
               \/ pc' = "persona" /\ lstate' = "ASSEMBLING_CONTEXT" /\ round <= MaxToolRounds
        BY <2>4, DisposesEffect
      <4>2. round <= MaxToolRounds => round < MaxToolRounds + 1
        BY <2>0, LoopAssumption DEF TypeOK
      <4> QED BY <4>1, <4>2, <2>1, <2>2
    <3> QED BY <3>1 DEF Lifecycle!Next, Lifecycle!TurnStep, Lifecycle!Again, Lifecycle!Finish,
                        Lifecycle!Breach
  <2>5. CASE LoopStep
    <3>1. CASE Pull
      <4>1. CASE pc' = "pulling" /\ lstate' = lstate /\ round' = round
        BY <3>1, <4>1, <2>1, <2>2 DEF Pull
      <4>2. CASE pc' = "stopped" /\ round' = round
        <5>1. Phase \in {"WAITING_FOR_EVENT", "SAFETY_LOCKOUT"} /\ Phase' = "stopped"
          BY <3>1, <4>2, <2>0, <2>1 DEF Pull, Coherent, Phase
        <5> QED BY <4>2, <5>1 DEF Lifecycle!Next, Lifecycle!Leave
      <4> QED BY <3>1, <4>1, <4>2 DEF Pull, turnVars
    <3>2. ASSUME NEW e, ReceiveStopped(e)
          PROVE  Lifecycle!Next
      <4>1. Phase \in {"WAITING_FOR_EVENT", "SAFETY_LOCKOUT"} /\ Phase' = "stopped" /\ round' = round
        BY <3>2, <2>0, <2>1 DEF ReceiveStopped, Arrives, Coherent, Phase, turnVars
      <4> QED BY <4>1 DEF Lifecycle!Next, Lifecycle!Leave
    <3>3. ASSUME NEW e, ReceiveLocked(e)
          PROVE  Phase' = Phase /\ round' = round
      BY <3>3, <2>1, <2>2 DEF ReceiveLocked, Arrives
    <3>4. ASSUME NEW e, BeginTurn(e)
          PROVE  Lifecycle!Next
      <4>1. EnterRound(OnLoopStart(monitor), 0, FALSE, {}) /\ pc = "pulling" /\ lstate # "SAFETY_LOCKOUT"
        BY <3>4 DEF BeginTurn, Arrives, LockedOut
      <4>2. Phase = "WAITING_FOR_EVENT"
        BY <2>0, <2>1, <4>1 DEF Coherent
      <4>3. ~TickHalts(monitor')
        <5>1. monitor'.ticks = 1
          BY <2>0, <4>1 DEF EnterRound, OnLoopStart, OnLoopTick, TypeOK, Counters
        <5> QED BY <5>1, MonitorAssumption DEF TickHalts
      <4>4. Phase' = "ASSEMBLING_CONTEXT" /\ round' = 0
        BY <2>2, <4>1, <4>3 DEF EnterRound
      <4> QED BY <4>2, <4>4 DEF Lifecycle!Next, Lifecycle!Accept
    <3>5. CASE TurnStep
      <4>1. CASE OverBudget
        <5>1. Phase = "ASSEMBLING_CONTEXT" /\ Phase' = "SAFETY_LOCKOUT" /\ round' = round
          BY <4>1, <2>0, <2>1, <2>2 DEF OverBudget, LockOut, EndTurn, Coherent
        <5> QED BY <5>1 DEF Lifecycle!Next, Lifecycle!TurnStep, Lifecycle!Breach
      <4>2. CASE NoModel
        <5>1. Phase = "ASSEMBLING_CONTEXT" /\ Phase' = "WAITING_FOR_EVENT" /\ round' = round
          BY <4>2, <2>0, <2>1, <2>2 DEF NoModel, Quiet, EndTurn, Coherent
        <5> QED BY <5>1 DEF Lifecycle!Next, Lifecycle!TurnStep, Lifecycle!Finish
      <4>3. CASE CallLLM
        <5>1. Phase = "ASSEMBLING_CONTEXT" /\ Phase' = "PROCESSING_RESPONSE" /\ round' = round
          BY <4>3, <2>0, <2>1, <2>2 DEF CallLLM, Coherent, turnVars
        <5> QED BY <5>1 DEF Lifecycle!Next, Lifecycle!TurnStep, Lifecycle!Call
      <4>4. ASSUME NEW tokens, StreamThrows(tokens) PROVE Lifecycle!Next
        <5>1. Phase = "PROCESSING_RESPONSE" /\ Phase' = "WAITING_FOR_EVENT" /\ round' = round
          BY <4>4, <2>0, <2>1, <2>2 DEF StreamThrows, Quiet, EndTurn, Coherent
        <5> QED BY <5>1 DEF Lifecycle!Next, Lifecycle!TurnStep, Lifecycle!Finish
      <4>5. ASSUME NEW tokens, NEW n, NEW text, NEW err, NEW stopReason,
                   StreamEnds(n, text, stopReason, err, tokens)
            PROVE  Lifecycle!Next \/ (Phase' = Phase /\ round' = round)
        <5>1. /\ Phase = "PROCESSING_RESPONSE" /\ round' = round
              /\ Phase' \in {"PROCESSING_RESPONSE", "WAITING_FOR_EVENT"}
          BY <4>5, <2>0, <2>1, <2>2 DEF StreamEnds, Quiet, EndTurn, Coherent
        <5> QED BY <5>1 DEF Lifecycle!Next, Lifecycle!TurnStep, Lifecycle!Finish
      <4>6. ASSUME NEW kept, Deliberate(kept) PROVE Lifecycle!Next
        <5>1. Phase = "PROCESSING_RESPONSE" /\ pc = "planning"
          BY <4>6, <2>0, <2>1 DEF Deliberate, Coherent
        <5>2. round < MaxToolRounds + 1
          BY <2>0, <5>1, LoopAssumption DEF IInv, Bookkeeping, TypeOK
        <5>3. \/ Phase' = "EXECUTING_TOOLS" /\ round' = round + 1
              \/ Phase' = "WAITING_FOR_EVENT" /\ round' = round
          BY <4>6, <2>2 DEF Deliberate, Quiet, EndTurn
        <5> QED BY <5>1, <5>2, <5>3
                DEF Lifecycle!Next, Lifecycle!TurnStep, Lifecycle!Execute, Lifecycle!Finish
      <4>7. CASE Block \/ ConfirmationTimeout
        BY <2>4, <4>7 DEF Disposes
      <4>8. CASE Approve \/ AskUser
        BY <4>8, <2>1, <2>2 DEF Approve, AskUser, turnVars
      <4>9. ASSUME NEW fp \in Prints, NEW isError \in BOOLEAN, ToolDone(fp, isError)
            PROVE  Lifecycle!Next \/ (Phase' = Phase /\ round' = round)
        <5>1. CASE /\ pc = "executing" /\ pc' = "ready" /\ lstate' = "SAFETY_LOCKOUT"
                   /\ round' = round
          <6>1. Phase = "EXECUTING_TOOLS" /\ Phase' = "SAFETY_LOCKOUT"
            BY <5>1, <2>0, <2>1, <2>2 DEF Coherent
          <6> QED BY <5>1, <6>1 DEF Lifecycle!Next, Lifecycle!TurnStep, Lifecycle!Breach
        <5> QED BY <2>4, <4>9, <5>1, OtherOutcomes
      <4>10. CASE Crash
        <5>1. /\ Phase \in {"ASSEMBLING_CONTEXT", "PROCESSING_RESPONSE", "EXECUTING_TOOLS"}
              /\ Phase' = "dead" /\ round' = round
          BY <4>10, <2>0, <2>1 DEF Crash, Coherent, Phase, turnVars
        <5> QED BY <5>1 DEF Lifecycle!Next, Lifecycle!TurnStep, Lifecycle!Die
      <4> QED BY <3>5, <4>1, <4>2, <4>3, <4>4, <4>5, <4>6, <4>7, <4>8, <4>9, <4>10 DEF TurnStep
    <3> QED BY <2>5, <3>1, <3>2, <3>3, <3>4, <3>5 DEF LoopStep
  <2>6. CASE EnvStep
    <3>1. CASE Start
      <4>1. Phase = "off" /\ Phase' = "WAITING_FOR_EVENT" /\ round' = round
        BY <3>1, <2>2 DEF Start, Phase, turnVars
      <4> QED BY <4>1 DEF Lifecycle!Next, Lifecycle!Boot
    <3>2. CASE Stop \/ \E s \in SessionIds : PushInput(s) \/ CreateSession(s) \/ DestroySession(s)
      BY <2>3, <3>2 DEF Stop, PushInput, CreateSession, DestroySession, loopVars, turnVars
    <3>3. CASE Reset
      <4>1. pc' = pc /\ round' = round
        BY <3>3 DEF Reset, turnVars
      <4>2. CASE lstate' = lstate
        BY <2>3, <4>1, <4>2
      <4>3. CASE lstate = "SAFETY_LOCKOUT" /\ lstate' = "WAITING_FOR_EVENT"
        <5>1. CASE pc \in {"off", "stopped", "crashed"}
          BY <4>1, <5>1 DEF Phase
        <5>2. CASE pc \notin {"off", "stopped", "crashed"}
          <6>1. Phase = "SAFETY_LOCKOUT" /\ Phase' = "WAITING_FOR_EVENT"
            BY <2>1, <2>2, <4>1, <4>3, <5>2
          <6> QED BY <4>1, <6>1 DEF Lifecycle!Next, Lifecycle!Unlock
        <5> QED BY <5>1, <5>2
      <4> QED BY <3>3, <4>2, <4>3 DEF Reset
    <3>4. ASSUME NEW n \in Nonces, NEW approved \in BOOLEAN, Respond(n, approved)
          PROVE  Lifecycle!Next \/ (Phase' = Phase /\ round' = round)
      <4>1. CASE pc = "confirming" /\ pc' = "executing" /\ UNCHANGED <<lstate, round>>
        BY <4>1, <2>1, <2>2
      <4> QED BY <2>3, <2>4, <3>4, <4>1, OtherOutcomes
    <3> QED BY <2>6, <3>1, <3>2, <3>3, <3>4 DEF EnvStep
  <2>7. CASE UNCHANGED vars
    BY <2>3, <2>7 DEF vars, loopVars, turnVars
  <2> QED BY <2>5, <2>6, <2>7 DEF Next
<1> QED BY <1>1, <1>2, LoopInit, LoopInductive, PTL DEF Spec, Lifecycle!Safety

-----------------------------------------------------------------------------
(* The turns: what is reported of them, and where their messages go. *)

\* An input is in the queue: buffered, or handed to the loop and not yet taken.
Waiting(i) ==
    \/ \E k \in DOMAIN buffer : buffer[k] = i
    \/ \E k \in DOMAIN handed : handed[k] = i

\* An input is queued once, and not when its turn has begun or it was refused.
QueuedOnce ==
    /\ \A j, k \in DOMAIN buffer : j # k /\ buffer[j] # Shutdown => buffer[j] # buffer[k]
    /\ \A j \in DOMAIN handed, k \in DOMAIN buffer : handed[j] # Shutdown => handed[j] # buffer[k]
    /\ \A i \in Inputs : Waiting(i) => i # cur /\ i \notin settled

\* The current turn's input was pushed, and is settled when the turn is over.
TurnOpen ==
    /\ cur \in 0..Len(dest) /\ settled \subseteq 1..Len(dest)
    /\ pc \in InTurn => cur \notin settled
    /\ pc \notin InTurn \cup {"crashed"} => cur = 0 \/ cur \in settled

\* What a turn under way has reported, and what one that is over has.
Unfinished == "finished" \notin emitted /\ (errored => "error" \in emitted)
Reported == (errored => "finished" \notin emitted) /\ emitted \cap {"error", "finished"} # {}

ReportInv ==
    /\ pc \in InTurn => Unfinished
    /\ TurnIsReported

\* The turns that have messages in history h of session s.
TurnsIn(h, s) == {h[s][k].turn : k \in DOMAIN h[s]}

\* A turn's messages are its target's; the target is the session it was meant
\* for, or the default.
SessionInv ==
    /\ \A s \in SessionIds : TurnsIn(history, s) \subseteq (settled \cup {cur}) \ {0}
    /\ \A s \in SessionIds : cur \in TurnsIn(history, s) => s = target
    /\ cur # 0 /\ target # Default => dest[cur] = target
    /\ \A s, t \in SessionIds : s # t => TurnsIn(history, s) \cap TurnsIn(history, t) = {}
    /\ \A s \in SessionIds \ {Default} : \A i \in TurnsIn(history, s) : dest[i] = s

TurnInv == QueuedOnce /\ TurnOpen /\ ReportInv /\ SessionInv

\* Message a is the last of messages m before position k in which the LLM spoke.
LastAsked(m, k, a) ==
    /\ a \in 1..(k - 1) /\ m[a].role = "assistant"
    /\ \A i \in (a + 1)..(k - 1) : m[i].role # "assistant"

NeverAsked(m, k) == \A i \in 1..(k - 1) : m[i].role # "assistant"

\* The ids answer what turn t was last asked in m before position k, if that is
\* still there.
Answers(m, k, t, ids) ==
    \/ NeverAsked(m, k)
    \/ \E a \in 1..(k - 1) : LastAsked(m, k, a) /\ m[a].turn = t /\ IsSubSeq(ids, m[a].ids)

AllAnswered(m) == \A k \in DOMAIN m : m[k].role = "tool" => Answers(m, k, m[k].turn, m[k].ids)

AnswerInv ==
    /\ pc \in {"persona", "streaming", "planning"} => results = <<>>
    /\ pc \in {"planning", "deciding", "confirming", "executing"} =>
          Answers(history[target], Len(history[target]) + 1, cur, results \o calls)
    /\ \A s \in SessionIds : AllAnswered(history[s])

-----------------------------------------------------------------------------
(* What a step of a turn does to its reports, its input and its messages. *)

\* A turn ends reported, whatever it had emitted before: an error that happened
\* was emitted, and without one it is reported finished.
LEMMA EndTurnReports ==
  ASSUME cur' = cur, NEW r, NEW err \in BOOLEAN, NEW events,
         "finished" \notin events, err => "error" \in events, EndTurn(r, err, events)
  PROVE  pc' = "ready" /\ settled' = settled \cup {cur} /\ Reported'
  BY DEF EndTurn, ClosingEvents, Reported

\* Entering a round leaves the turn open and unreported, or ends it.
LEMMA EnterRoundReports ==
  ASSUME NEW m, NEW r, NEW err \in BOOLEAN, NEW events,
         "finished" \notin events, err => "error" \in events, EnterRound(m, r, err, events)
  PROVE  \/ pc' = "persona" /\ settled' = settled /\ Unfinished'
         \/ pc' = "ready" /\ settled' = settled \cup {cur'} /\ Reported'
<1>1. CASE TickHalts(monitor')
  <2>1. EndTurn(r, err, events \cup {"lockout"})
    BY <1>1 DEF EnterRound
  <2> QED BY <2>1 DEF EndTurn, ClosingEvents, Reported
<1>2. CASE ~TickHalts(monitor')
  BY <1>2 DEF EnterRound, Unfinished
<1> QED BY <1>1, <1>2

\* A message adds its turn to its session, and nothing to the others.
LEMMA SayTurns ==
  ASSUME NEW h \in [SessionIds -> Seq(Messages)], NEW s \in SessionIds, NEW turn, NEW role, NEW ids,
         NEW t \in SessionIds
  PROVE  TurnsIn(Say(h, s, turn, role, ids), t) = TurnsIn(h, t) \cup {i \in {turn} : t = s}
<1> DEFINE msg == [turn |-> turn, role |-> role, ids |-> ids]
           new == Append(h[s], msg)
<1>1. CASE t # s
  BY <1>1 DEF Say, TurnsIn
<1>2. CASE t = s
  <2>1. Say(h, s, turn, role, ids)[t] = new
    BY <1>2 DEF Say
  <2>2. h[s] \in Seq(Messages)
    OBVIOUS
  <2>3. /\ DOMAIN new = 1..(Len(h[s]) + 1) /\ DOMAIN h[s] = 1..Len(h[s]) /\ Len(h[s]) \in Nat
        /\ \A k \in 1..Len(h[s]) : new[k] = h[s][k]
        /\ new[Len(h[s]) + 1] = msg
    BY <2>2
  <2> HIDE DEF new
  <2>4. msg.turn = turn
    OBVIOUS
  <2> HIDE DEF msg
  <2>5. {new[k].turn : k \in DOMAIN new} = {h[s][k].turn : k \in DOMAIN h[s]} \cup {turn}
    <3>1. 1..(Len(h[s]) + 1) = 1..Len(h[s]) \cup {Len(h[s]) + 1}
      BY <2>3
    <3> QED BY <2>3, <2>4, <3>1
  <2>6. /\ TurnsIn(Say(h, s, turn, role, ids), t) = {new[k].turn : k \in DOMAIN new}
        /\ TurnsIn(h, t) = {h[s][k].turn : k \in DOMAIN h[s]}
    BY <1>2, <2>1, Zenon DEF TurnsIn
  <2>7. {i \in {turn} : t = s} = {turn}
    BY <1>2
  <2> QED BY <2>5, <2>6, <2>7
<1> QED BY <1>1, <1>2

\* The histories have grown by messages of the current turn in its target.
Grows(h) == \A s \in SessionIds : TurnsIn(h, s) \subseteq TurnsIn(history, s) \cup {i \in {cur} : s = target}

TurnContinues == pc' \in InTurn \cup {"crashed"} /\ settled' = settled /\ Unfinished'
TurnEnds      == pc' = "ready" /\ settled' = settled \cup {cur} /\ Reported'
TurnEffect    == Grows(history') /\ (TurnContinues \/ TurnEnds)

LEMMA NextCallTurn ==
  ASSUME TypeOK, Unfinished, NEW h \in [SessionIds -> Seq(Messages)], Grows(h), NEW m, NEW res,
         NextCall(h, m, res)
  PROVE  TurnEffect
<1>1. errored \in BOOLEAN /\ target \in SessionIds /\ cur' = cur
  BY DEF TypeOK, NextCall
<1>2. CASE /\ history' = h /\ pc' = "deciding" /\ UNCHANGED <<errored, emitted, settled>>
  BY <1>2 DEF TurnEffect, TurnContinues, InTurn, Unfinished
<1>3. CASE FinishTools(h, m, res)
  <2>1. Grows(history')
    BY <1>1, <1>3, SayTurns DEF FinishTools, ToolMessage, Grows
  <2>2. CASE EnterRound(m, round, errored, emitted)
    BY <1>1, <2>1, <2>2, EnterRoundReports DEF Unfinished, TurnEffect, TurnContinues, TurnEnds, InTurn
  <2>3. CASE EndTurn(round, errored, emitted)
    BY <1>1, <2>1, <2>3, EndTurnReports DEF Unfinished, TurnEffect, TurnEnds
  <2> QED BY <1>3, <2>2, <2>3 DEF FinishTools
<1> QED BY <1>2, <1>3 DEF NextCall

\* A step of a turn keeps to the turn's input and session, and either leaves the
\* turn unreported or settles it, reported.
LEMMA TurnKeepsToItself ==
  ASSUME IInv, Unfinished,
         TurnStep \/ \E n \in Nonces, approved \in BOOLEAN : Respond(n, approved) /\ Heard(n)
  PROVE  pc \in InTurn /\ UNCHANGED <<queueVars, dest, cur, target>> /\ TurnEffect
<1>1. /\ TypeOK /\ errored \in BOOLEAN /\ history \in [SessionIds -> Seq(Messages)]
      /\ target \in SessionIds
  BY DEF IInv, TypeOK
<1>2. Grows(history)
  BY DEF Grows
<1>3. \A role, ids : Grows(Say(history, target, cur, role, ids))
  BY <1>1, SayTurns DEF Grows
<1> USE DEF InTurn
<1>4. CASE OverBudget \/ NoModel
  <2>1. /\ pc \in InTurn /\ UNCHANGED <<queueVars, dest, cur, target, history>>
        /\ \/ EndTurn(round, errored, emitted \cup {"lockout"})
           \/ EndTurn(round, errored, emitted \cup {"error"})
    BY <1>4 DEF OverBudget, NoModel, sessionVars
  <2> QED BY <1>1, <1>2, <2>1, EndTurnReports DEF Unfinished, TurnEffect, TurnEnds
<1>5. CASE CallLLM \/ Approve \/ AskUser \/ Crash
  BY <1>2, <1>5 DEF CallLLM, Approve, AskUser, Crash, sessionVars, turnVars, Unfinished,
                    TurnEffect, TurnContinues
<1>6. ASSUME NEW tokens, StreamThrows(tokens)
      PROVE  pc \in InTurn /\ UNCHANGED <<queueVars, dest, cur, target>> /\ TurnEffect
  <2>1. /\ pc \in InTurn /\ UNCHANGED <<queueVars, dest, cur, target, history>>
        /\ EndTurn(round, TRUE, emitted \cup {"error"})
    BY <1>6 DEF StreamThrows, sessionVars
  <2> QED BY <1>2, <2>1, EndTurnReports DEF Unfinished, TurnEffect, TurnEnds
<1>7. ASSUME NEW tokens, NEW n, NEW text \in BOOLEAN, NEW err \in BOOLEAN, NEW stopReason,
             StreamEnds(n, text, stopReason, err, tokens)
      PROVE  pc \in InTurn /\ UNCHANGED <<queueVars, dest, cur, target>> /\ TurnEffect
  <2> DEFINE ids == [k \in 1..n |-> <<round + 1, k>>]
             failed == errored \/ err
             events == IF err THEN emitted \cup {"error"} ELSE emitted
  <2>1. /\ pc \in InTurn /\ UNCHANGED <<queueVars, dest, cur, target>>
        /\ history' = IF text \/ n > 0 THEN Say(history, target, cur, "assistant", ids) ELSE history
        /\ \/ /\ pc' = "planning" /\ errored' = failed /\ emitted' = events
              /\ UNCHANGED settled
           \/ EndTurn(round, failed, events)
    BY <1>7 DEF StreamEnds
  <2>2. failed \in BOOLEAN /\ "finished" \notin events /\ (failed => "error" \in events)
    BY <1>1 DEF Unfinished
  <2> HIDE DEF ids, failed, events
  <2>3. Grows(history')
    BY <1>2, <1>3, <2>1
  <2> QED BY <2>1, <2>2, <2>3, EndTurnReports DEF Unfinished, TurnEffect, TurnContinues, TurnEnds
<1>8. ASSUME NEW kept, Deliberate(kept)
      PROVE  pc \in InTurn /\ UNCHANGED <<queueVars, dest, cur, target>> /\ TurnEffect
  <2>1. /\ pc \in InTurn /\ UNCHANGED <<queueVars, dest, cur, target, history>>
        /\ \/ pc' = "deciding" /\ UNCHANGED <<errored, emitted, settled>>
           \/ EndTurn(round, errored, emitted)
    BY <1>8 DEF Deliberate, sessionVars
  <2>2. Grows(history')
    BY <1>2, <2>1 DEF Grows
  <2>3. CASE pc' = "deciding" /\ UNCHANGED <<errored, emitted, settled>>
    BY <2>1, <2>2, <2>3 DEF Unfinished, TurnEffect, TurnContinues
  <2>4. CASE EndTurn(round, errored, emitted)
    BY <1>1, <2>1, <2>2, <2>4, EndTurnReports DEF Unfinished, TurnEffect, TurnEnds
  <2> QED BY <2>1, <2>3, <2>4
<1>9. CASE \/ Block \/ ConfirmationTimeout
           \/ \E n \in Nonces, approved \in BOOLEAN : Respond(n, approved) /\ Heard(n) /\ ~approved
  <2>1. /\ pc \in InTurn /\ UNCHANGED <<queueVars, dest>> /\ NextCall(history, monitor, results)
    BY <1>9 DEF Block, ConfirmationTimeout, Respond, Heard
  <2>2. UNCHANGED <<cur, target>>
    BY <2>1 DEF NextCall
  <2> QED BY <1>1, <1>2, <2>1, <2>2, NextCallTurn
<1>10. ASSUME NEW n \in Nonces, Respond(n, TRUE), Heard(n)
       PROVE  pc \in InTurn /\ UNCHANGED <<queueVars, dest, cur, target>> /\ TurnEffect
  BY <1>2, <1>10 DEF Respond, Heard, turnVars, Unfinished, TurnEffect, TurnContinues
<1>11. ASSUME NEW fp, NEW isError, ToolDone(fp, isError)
       PROVE  pc \in InTurn /\ UNCHANGED <<queueVars, dest, cur, target>> /\ TurnEffect
  <2> DEFINE m == RecordExecution(monitor, fp, isError)
             warned == Say(history, target, cur, "warning", <<>>)
             res == Recorded
  <2>1. /\ pc \in InTurn /\ UNCHANGED <<queueVars, dest>>
        /\ \/ /\ UNCHANGED <<history, cur, target>>
              /\ EndTurn(round, errored, emitted \cup {"lockout"})
           \/ NextCall(warned, m, res)
           \/ NextCall(history, m, res)
    BY <1>11 DEF ToolDone
  <2>2. warned \in [SessionIds -> Seq(Messages)] /\ Grows(warned)
    <3>1. cur \in Inputs
      BY <1>11 DEF IInv, Bookkeeping, ToolDone
    <3>2. warned \in [SessionIds -> Seq(Messages)]
      BY <1>1, <3>1, SayType, EmptySeq
    <3> QED BY <1>3, <3>2
  <2> HIDE DEF m, warned, res
  <2>3. CASE NextCall(warned, m, res) \/ NextCall(history, m, res)
    <3>1. UNCHANGED <<cur, target>>
      BY <2>3 DEF NextCall
    <3> QED BY <1>1, <1>2, <2>1, <2>2, <2>3, <3>1, NextCallTurn
  <2>4. CASE /\ UNCHANGED <<history, cur, target>>
             /\ EndTurn(round, errored, emitted \cup {"lockout"})
    BY <1>1, <1>2, <2>1, <2>4, EndTurnReports DEF Unfinished, TurnEffect, TurnEnds
  <2> QED BY <2>1, <2>3, <2>4
<1> QED BY <1>4, <1>5, <1>6, <1>7, <1>8, <1>9, <1>10, <1>11 DEF TurnStep

-----------------------------------------------------------------------------
(* The invariant of the turns. *)

LEMMA TurnInvInit == Init => TurnInv
<1> SUFFICES ASSUME Init PROVE TurnInv
  OBVIOUS
<1> USE DEF Init, QueueInit
<1>1. QueuedOnce
  BY DEF QueuedOnce, Waiting
<1>2. TurnOpen /\ ReportInv
  BY DEF TurnOpen, ReportInv, TurnIsReported, InTurn
<1>3. SessionInv
  BY DEF SessionInv, TurnsIn
<1> QED BY <1>1, <1>2, <1>3 DEF TurnInv

\* A step of a turn keeps it.
LEMMA TurnInvInTurn ==
  ASSUME IInv, TurnInv,
         TurnStep \/ \E n \in Nonces, approved \in BOOLEAN : Respond(n, approved) /\ Heard(n)
  PROVE  TurnInv'
<1>1. Unfinished /\ pc \in InTurn
  <2>1. pc \in InTurn
    BY DEF TurnStep, OverBudget, NoModel, CallLLM, StreamThrows, StreamEnds, Deliberate, Block, Approve,
           AskUser, ConfirmationTimeout, ToolDone, Crash, Heard, InTurn
  <2> QED BY <2>1 DEF TurnInv, ReportInv
<1>2. UNCHANGED <<buffer, resolver, handed, dest, cur, target>> /\ TurnEffect
  BY <1>1, TurnKeepsToItself DEF queueVars
<1>3. /\ pc' \in InTurn \cup {"crashed", "ready"} /\ "crashed" \notin InTurn /\ "ready" \notin InTurn
      /\ settled' \in {settled, settled \cup {cur}}
      /\ pc' \in InTurn => settled' = settled
      /\ pc' = "ready" => settled' = settled \cup {cur}
  BY <1>2 DEF TurnEffect, TurnContinues, TurnEnds, InTurn
<1>4. QueuedOnce'
  BY <1>2, <1>3 DEF TurnInv, QueuedOnce, Waiting
<1>5. TurnOpen'
  <2>1. cur \in 1..Len(dest)
    BY <1>1 DEF TurnInv, TurnOpen, IInv, Bookkeeping, Inputs, TypeOK
  <2> QED BY <1>1, <1>2, <1>3, <2>1 DEF TurnInv, TurnOpen
<1>6. ReportInv'
  <2>1. cur \notin settled
    BY <1>1 DEF TurnInv, TurnOpen
  <2> QED BY <1>2, <1>3, <2>1 DEF TurnEffect, TurnContinues, TurnEnds, ReportInv, TurnIsReported,
                                  Unfinished, Reported
<1>7. SessionInv'
  <2>1. /\ \A s \in SessionIds : TurnsIn(history', s) \subseteq TurnsIn(history, s) \cup {i \in {cur} : s = target}
        /\ settled \subseteq settled' /\ cur # 0 /\ cur' = cur /\ target' = target /\ dest' = dest
    BY <1>1, <1>2, <1>3 DEF TurnEffect, Grows, IInv, Bookkeeping, Inputs
  <2>2. /\ \A s \in SessionIds : TurnsIn(history, s) \subseteq (settled \cup {cur}) \ {0}
        /\ \A s \in SessionIds : cur \in TurnsIn(history, s) => s = target
        /\ cur # 0 /\ target # Default => dest[cur] = target
        /\ \A s, t \in SessionIds : s # t => TurnsIn(history, s) \cap TurnsIn(history, t) = {}
        /\ \A s \in SessionIds \ {Default} : \A i \in TurnsIn(history, s) : dest[i] = s
    BY DEF TurnInv, SessionInv
  <2> HIDE DEF TurnsIn
  <2>3. \A s \in SessionIds : TurnsIn(history', s) \subseteq (settled' \cup {cur}) \ {0}
    BY <2>1, <2>2
  <2>4. \A s \in SessionIds : cur \in TurnsIn(history', s) => s = target
    BY <2>1, <2>2
  <2>5. \A s, t \in SessionIds : s # t => TurnsIn(history', s) \cap TurnsIn(history', t) = {}
    BY <2>1, <2>2
  <2>6. \A s \in SessionIds \ {Default} : \A i \in TurnsIn(history', s) : dest[i] = s
    BY <2>1, <2>2
  <2> QED BY <2>1, <2>2, <2>3, <2>4, <2>5, <2>6 DEF SessionInv
<1> QED BY <1>4, <1>5, <1>6, <1>7 DEF TurnInv

\* Beginning a turn: its input was in the queue, so it is new to the histories.
LEMMA TurnInvBegins ==
  ASSUME IInv, TurnInv, NEW e \in {Shutdown} \cup Inputs, BeginTurn(e)
  PROVE  TurnInv'
<1>1. /\ pc = "pulling" /\ handed = <<e>> /\ handed' = <<>> /\ buffer' = buffer /\ dest' = dest
      /\ e \in Inputs /\ e # 0 /\ cur' = e /\ target' = StateManagerOf(dest[e])
      /\ history' = Say(history, target', e, "user", <<>>)
      /\ EnterRound(OnLoopStart(monitor), 0, FALSE, {})
  BY DEF BeginTurn, Arrives, Shutdown
<1>2. /\ cur \in 0..Len(dest) /\ settled \subseteq 1..Len(dest) /\ (cur = 0 \/ cur \in settled)
      /\ pc \notin InTurn
  BY <1>1 DEF TurnInv, TurnOpen, InTurn
<1>3. e \in 1..Len(dest) /\ target' \in SessionIds
  <2>1. e \in 0..Len(dest)
    <3>1. handed # <<>> /\ Head(handed) = e /\ handed \in Seq(0..Len(dest))
      BY <1>1 DEF IInv, TypeOK
    <3> QED BY <3>1, HeadTailProperties
  <2>2. e \in 1..Len(dest)
    BY <1>1, <2>1 DEF Inputs, IInv, TypeOK
  <2>3. dest[e] \in SessionIds
    BY <2>2, ElementOfSeq DEF IInv, TypeOK
  <2> QED BY <1>1, <2>2, <2>3, LoopAssumption DEF StateManagerOf
<1>4. e # cur /\ e \notin settled /\ \A k \in DOMAIN buffer : buffer[k] # e
  <2>1. 1 \in DOMAIN handed /\ handed[1] = e
    BY <1>1
  <2>2. Waiting(e)
    BY <2>1 DEF Waiting
  <2> QED BY <1>1, <2>1, <2>2 DEF TurnInv, QueuedOnce, Shutdown
<1>5. \/ pc' = "persona" /\ settled' = settled /\ Unfinished'
      \/ pc' = "ready" /\ settled' = settled \cup {e} /\ Reported'
  BY <1>1, EnterRoundReports
<1>6. QueuedOnce'
  <2>1. DOMAIN handed' = {}
    BY <1>1
  <2> QED BY <1>1, <1>4, <1>5, <2>1 DEF TurnInv, QueuedOnce, Waiting
<1>7. TurnOpen'
  <2>1. e \in 0..Len(dest) /\ settled' \subseteq 1..Len(dest)
    <3>1. Len(dest) \in Nat
      BY LenProperties DEF IInv, TypeOK
    <3>2. e \in 0..Len(dest)
      BY <1>3, <3>1
    <3> QED BY <1>2, <1>3, <1>5, <3>2
  <2>2. pc' \in InTurn => e \notin settled'
    BY <1>4, <1>5 DEF InTurn
  <2>3. pc' \notin InTurn \cup {"crashed"} => e \in settled'
    BY <1>5 DEF InTurn
  <2> QED BY <1>1, <2>1, <2>2, <2>3 DEF TurnOpen
<1>8. ReportInv'
  BY <1>1, <1>4, <1>5 DEF ReportInv, TurnIsReported, Unfinished, Reported, InTurn
<1>9. SessionInv'
  <2>1. \A s \in SessionIds : TurnsIn(history', s) = TurnsIn(history, s) \cup {i \in {e} : s = target'}
    <3>1. history \in [SessionIds -> Seq(Messages)]
      BY DEF IInv, TypeOK
    <3>2. \A s \in SessionIds : TurnsIn(Say(history, target', e, "user", <<>>), s)
                                = TurnsIn(history, s) \cup {i \in {e} : s = target'}
      BY <1>3, <3>1, SayTurns
    <3> QED BY <1>1, <3>2
  <2>2. \A s \in SessionIds : TurnsIn(history, s) \subseteq settled
    BY <1>2 DEF TurnInv, SessionInv
  <2>3. target' # Default => dest[e] = target'
    BY <1>1 DEF StateManagerOf
  <2>4. \A s \in SessionIds : TurnsIn(history', s) \subseteq (settled' \cup {e}) \ {0}
    BY <1>1, <1>2, <1>5, <2>1, <2>2
  <2>5. \A s \in SessionIds : e \in TurnsIn(history', s) => s = target'
    BY <1>4, <2>1, <2>2
  <2>6. \A s, t \in SessionIds : s # t => TurnsIn(history', s) \cap TurnsIn(history', t) = {}
    <3>1. \A s, t \in SessionIds : s # t => TurnsIn(history, s) \cap TurnsIn(history, t) = {}
      BY DEF TurnInv, SessionInv
    <3> QED BY <1>4, <2>1, <2>2, <3>1
  <2>7. \A s \in SessionIds \ {Default} : \A i \in TurnsIn(history', s) : dest[i] = s
    <3>1. \A s \in SessionIds \ {Default} : \A i \in TurnsIn(history, s) : dest[i] = s
      BY DEF TurnInv, SessionInv
    <3> QED BY <2>1, <2>3, <3>1
  <2> QED BY <1>1, <2>3, <2>4, <2>5, <2>6, <2>7 DEF SessionInv
<1> QED BY <1>6, <1>7, <1>8, <1>9 DEF TurnInv

\* An event that is dropped or refused, and the steps that touch neither the
\* queue nor the turn nor a message.
LEMMA TurnInvElsewhere ==
  ASSUME IInv, TurnInv,
         \/ \E e \in {Shutdown} \cup Inputs : ReceiveStopped(e) \/ ReceiveLocked(e)
         \/ Start \/ Reset \/ \E s \in SessionIds : CreateSession(s) \/ DestroySession(s)
         \/ \E n \in Nonces, approved \in BOOLEAN : Respond(n, approved) /\ ~Heard(n)
         \/ UNCHANGED vars
  PROVE  TurnInv'
<1> DEFINE Shrinks == \A s \in SessionIds : TurnsIn(history', s) \subseteq TurnsIn(history, s)
<1>0. history \in [SessionIds -> Seq(Messages)] /\ settled \subseteq Inputs
  BY DEF IInv, TypeOK
<1>1. ASSUME UNCHANGED <<buffer, handed, dest, cur, target, settled, errored, emitted>>, Shrinks,
             pc' = pc \/ (pc = "off" /\ pc' = "ready")
      PROVE  TurnInv'
  <2>1. QueuedOnce' /\ TurnOpen' /\ ReportInv'
    BY <1>1 DEF TurnInv, QueuedOnce, Waiting, TurnOpen, ReportInv, TurnIsReported, Unfinished, InTurn
  <2>2. SessionInv'
    <3> HIDE DEF TurnsIn
    <3>1. \A s \in SessionIds : TurnsIn(history', s) \subseteq TurnsIn(history, s)
      BY <1>1
    <3>2. /\ \A s \in SessionIds : TurnsIn(history, s) \subseteq (settled \cup {cur}) \ {0}
          /\ \A s \in SessionIds : cur \in TurnsIn(history, s) => s = target
          /\ cur # 0 /\ target # Default => dest[cur] = target
          /\ \A s, t \in SessionIds : s # t => TurnsIn(history, s) \cap TurnsIn(history, t) = {}
          /\ \A s \in SessionIds \ {Default} : \A i \in TurnsIn(history, s) : dest[i] = s
      BY DEF TurnInv, SessionInv
    <3>3. /\ \A s \in SessionIds : TurnsIn(history', s) \subseteq (settled' \cup {cur'}) \ {0}
          /\ \A s \in SessionIds : cur' \in TurnsIn(history', s) => s = target'
          /\ cur' # 0 /\ target' # Default => dest'[cur'] = target'
      BY <1>1, <3>1, <3>2
    <3>4. \A s, t \in SessionIds : s # t => TurnsIn(history', s) \cap TurnsIn(history', t) = {}
      BY <3>1, <3>2
    <3>5. \A s \in SessionIds \ {Default} : \A i \in TurnsIn(history', s) : dest'[i] = s
      BY <1>1, <3>1, <3>2
    <3> QED BY <3>3, <3>4, <3>5 DEF SessionInv
  <2> QED BY <2>1, <2>2 DEF TurnInv
<1>2. \A s \in SessionIds : TurnsIn([history EXCEPT ![s] = <<>>], s) = {}
  BY <1>0 DEF TurnsIn
<1>3. \A s, t \in SessionIds : s # t => TurnsIn([history EXCEPT ![s] = <<>>], t) = TurnsIn(history, t)
  BY <1>0 DEF TurnsIn
<1>4. CASE Start \/ (\E s \in SessionIds : CreateSession(s)) \/ UNCHANGED vars
  <2>1. /\ UNCHANGED <<buffer, handed, dest, cur, target, settled, errored, emitted, history>>
        /\ pc' = pc \/ (pc = "off" /\ pc' = "ready")
    BY <1>4 DEF Start, CreateSession, vars, queueVars, loopVars, sessionVars, turnVars
  <2> QED BY <1>1, <2>1
<1>5. ASSUME NEW n, NEW approved, Respond(n, approved), ~Heard(n) PROVE TurnInv'
  <2>1. UNCHANGED <<buffer, handed, dest, cur, target, settled, errored, emitted, history, pc>>
    BY <1>5 DEF Respond, queueVars, turnVars
  <2> QED BY <1>1, <2>1
<1>6. CASE Reset \/ \E s \in SessionIds : DestroySession(s)
  <2>1. /\ UNCHANGED <<buffer, handed, dest, cur, target, settled, errored, emitted, pc>>
        /\ \E s \in SessionIds : history' = [history EXCEPT ![s] = <<>>]
    BY <1>6, LoopAssumption DEF Reset, DestroySession, queueVars, loopVars, turnVars
  <2>2. Shrinks
    BY <1>2, <1>3, <2>1
  <2> QED BY <1>1, <2>1, <2>2
<1>7. ASSUME NEW e \in {Shutdown} \cup Inputs, ReceiveStopped(e) \/ ReceiveLocked(e) PROVE TurnInv'
  <2>1. /\ pc = "pulling" /\ handed = <<e>> /\ handed' = <<>>
        /\ UNCHANGED <<buffer, dest, cur, target, errored, emitted, history>>
        /\ \/ pc' = "stopped" /\ settled' = settled
           \/ pc' = "ready" /\ e # Shutdown /\ settled' = settled \cup {e}
    BY <1>7 DEF ReceiveStopped, ReceiveLocked, Arrives, turnVars
  <2>2. 1 \in DOMAIN handed /\ handed[1] = e /\ DOMAIN handed' = {}
    BY <2>1
  <2>3. Waiting(e)
    BY <2>2 DEF Waiting
  <2>4. e # Shutdown => e # cur /\ \A k \in DOMAIN buffer : buffer[k] # e
    BY <2>1, <2>2, <2>3 DEF TurnInv, QueuedOnce
  <2>5. e # Shutdown => e \in 1..Len(dest)
    <3>1. e \in 0..Len(dest)
      BY <2>2, ElementOfSeq DEF IInv, TypeOK
    <3>2. e # Shutdown => e >= 1
      BY DEF Shutdown, Inputs
    <3> QED BY <3>1, <3>2
  <2>6. QueuedOnce'
    BY <2>1, <2>2, <2>4 DEF TurnInv, QueuedOnce, Waiting
  <2>7. TurnOpen'
    BY <2>1, <2>4, <2>5 DEF TurnInv, TurnOpen, InTurn
  <2>8. ReportInv'
    BY <2>1, <2>4 DEF TurnInv, ReportInv, TurnIsReported, InTurn
  <2>9. SessionInv'
    BY <2>1 DEF TurnInv, SessionInv
  <2> QED BY <2>6, <2>7, <2>8, <2>9 DEF TurnInv
<1> QED BY <1>4, <1>5, <1>6, <1>7

\* Pulling moves the oldest event from the buffer to the loop.
LEMMA TurnInvPull ==
  ASSUME IInv, TurnInv, Pull
  PROVE  TurnInv'
<1>1. /\ UNCHANGED <<dest, cur, target, settled, errored, emitted, history>>
      /\ pc = "ready" /\ pc' \in {"pulling", "stopped"}
  BY DEF Pull, sessionVars, turnVars
<1>2. TurnOpen' /\ ReportInv' /\ SessionInv'
  BY <1>1 DEF TurnInv, TurnOpen, ReportInv, TurnIsReported, SessionInv, InTurn
<1>3. QueuedOnce'
  <2>1. CASE UNCHANGED <<buffer, handed>>
    BY <1>1, <2>1 DEF TurnInv, QueuedOnce, Waiting
  <2>2. CASE buffer # <<>> /\ handed' = <<Head(buffer)>> /\ buffer' = Tail(buffer)
    <3>1. buffer \in Seq(0..Len(dest)) /\ buffer # <<>>
      BY <2>2 DEF IInv, TypeOK
    <3>2. /\ DOMAIN buffer = 1..Len(buffer) /\ Len(buffer) \in Nat \ {0}
          /\ DOMAIN buffer' = 1..(Len(buffer) - 1)
          /\ \A k \in 1..(Len(buffer) - 1) : buffer'[k] = buffer[k + 1]
          /\ DOMAIN handed' = {1} /\ handed'[1] = buffer[1]
      BY <2>2, <3>1
    <3>3. /\ \A k \in DOMAIN buffer' : k + 1 \in DOMAIN buffer /\ k + 1 # 1 /\ buffer'[k] = buffer[k + 1]
          /\ \A j, k \in DOMAIN buffer' : j # k => j + 1 # k + 1
          /\ 1 \in DOMAIN buffer
      BY <3>2
    <3>4. \A j, k \in DOMAIN buffer : j # k /\ buffer[j] # Shutdown => buffer[j] # buffer[k]
      BY DEF TurnInv, QueuedOnce
    <3>5. \A j, k \in DOMAIN buffer' : j # k /\ buffer'[j] # Shutdown => buffer'[j] # buffer'[k]
      BY <3>3, <3>4
    <3>6. \A j \in DOMAIN handed', k \in DOMAIN buffer' : handed'[j] # Shutdown => handed'[j] # buffer'[k]
      BY <3>2, <3>3, <3>4
    <3>7. \A i : Waiting(i)' => Waiting(i)
      BY <3>2, <3>3 DEF Waiting
    <3> QED BY <1>1, <3>5, <3>6, <3>7 DEF TurnInv, QueuedOnce, Shutdown
  <2> QED BY <2>1, <2>2 DEF Pull, Dequeue, queueVars
<1> QED BY <1>2, <1>3 DEF TurnInv

\* A push queues an input that is new, or the event that wakes a stopped loop.
LEMMA TurnInvPush ==
  ASSUME IInv, TurnInv, Stop \/ \E s \in SessionIds : PushInput(s)
  PROVE  TurnInv'
<1>0. /\ buffer \in Seq(0..Len(dest)) /\ handed \in Seq(0..Len(dest)) /\ dest \in Seq(SessionIds)
      /\ Len(dest) \in Nat
  BY DEF IInv, TypeOK
<1>1. PICK e \in Nat :
          /\ Enqueue(e) /\ (e = Shutdown \/ e = Len(dest) + 1)
          /\ UNCHANGED <<pc, cur, target, settled, errored, emitted, history>>
          /\ dest' = dest \/ \E s \in SessionIds : dest' = Append(dest, s)
  <2>1. CASE Stop
    BY <2>1 DEF Stop, Shutdown, sessionVars, turnVars
  <2>2. CASE \E s \in SessionIds : PushInput(s)
    BY <1>0, <2>2 DEF PushInput, loopVars, sessionVars, turnVars
  <2> QED BY <2>1, <2>2
<1>2. Len(dest') >= Len(dest) /\ \A i \in 1..Len(dest) : dest'[i] = dest[i]
  <2>1. CASE dest' = dest
    BY <1>0, <2>1
  <2>2. ASSUME NEW s \in SessionIds, dest' = Append(dest, s)
        PROVE  Len(dest') >= Len(dest) /\ \A i \in 1..Len(dest) : dest'[i] = dest[i]
    BY <1>0, <2>2
  <2> QED BY <1>1, <2>1, <2>2
<1>3. TurnOpen' /\ ReportInv'
  <2>1. Len(dest') \in Nat
    BY <1>0, <1>1
  <2>2. TurnOpen'
    BY <1>0, <1>1, <1>2, <2>1 DEF TurnInv, TurnOpen
  <2> QED BY <1>1, <2>2 DEF TurnInv, ReportInv, TurnIsReported, Unfinished
<1>4. SessionInv'
  <2>1. /\ settled \subseteq 1..Len(dest) /\ cur \in 0..Len(dest)
        /\ \A s \in SessionIds : TurnsIn(history, s) \subseteq (settled \cup {cur}) \ {0}
    BY DEF TurnInv, TurnOpen, SessionInv
  <2>2. \A s \in SessionIds : TurnsIn(history, s) \subseteq 1..Len(dest)
    <3>1. cur # 0 => cur \in 1..Len(dest)
      BY <1>0, <2>1
    <3> QED BY <2>1, <3>1
  <2>3. cur # 0 => dest'[cur] = dest[cur]
    BY <1>0, <1>2, <2>1
  <2>4. \A s \in SessionIds : \A i \in TurnsIn(history, s) : dest'[i] = dest[i]
    BY <1>2, <2>2
  <2> QED BY <1>1, <2>3, <2>4 DEF TurnInv, SessionInv
<1>5. QueuedOnce'
  <2>1. e # Shutdown => ~Waiting(e) /\ e # cur /\ e \notin settled
    <3>1. e # Shutdown => e \notin 0..Len(dest)
      BY <1>0, <1>1
    <3> QED BY <1>0, <3>1, ElementOfSeq DEF Waiting, TurnInv, TurnOpen
  <2>2. CASE handed' = <<e>> /\ buffer' = buffer
    <3>1. DOMAIN handed' = {1} /\ handed'[1] = e
      BY <2>2
    <3> QED BY <1>1, <2>1, <2>2, <3>1 DEF TurnInv, QueuedOnce, Waiting, Inputs, Shutdown
  <2>3. CASE handed' = handed /\ buffer' = Append(buffer, e)
    <3>1. /\ DOMAIN buffer' = DOMAIN buffer \cup {Len(buffer) + 1} /\ Len(buffer) + 1 \notin DOMAIN buffer
          /\ \A k \in DOMAIN buffer : buffer'[k] = buffer[k]
          /\ buffer'[Len(buffer) + 1] = e
      BY <1>0, <2>3
    <3> QED BY <1>1, <2>1, <2>3, <3>1 DEF TurnInv, QueuedOnce, Waiting, Inputs, Shutdown
  <2> QED BY <1>1, <2>2, <2>3 DEF Enqueue
<1> QED BY <1>3, <1>4, <1>5 DEF TurnInv

LEMMA TurnInvInductive == IInv /\ TurnInv /\ [Next]_vars => TurnInv'
<1> SUFFICES ASSUME IInv, TurnInv, [Next]_vars PROVE TurnInv'
  OBVIOUS
<1>1. CASE LoopStep
  <2>1. ASSUME NEW e \in {Shutdown} \cup Inputs, ReceiveStopped(e) \/ ReceiveLocked(e) PROVE TurnInv'
    BY <2>1, TurnInvElsewhere
  <2>2. ASSUME NEW e \in {Shutdown} \cup Inputs, BeginTurn(e) PROVE TurnInv'
    BY <2>2, TurnInvBegins
  <2> QED BY <1>1, <2>1, <2>2, TurnInvPull, TurnInvInTurn DEF LoopStep
<1>2. CASE EnvStep
  <2>1. CASE Start \/ Reset \/ \E s \in SessionIds : CreateSession(s) \/ DestroySession(s)
    BY <2>1, TurnInvElsewhere
  <2>2. CASE Stop \/ \E s \in SessionIds : PushInput(s)
    BY <2>2, TurnInvPush
  <2>3. ASSUME NEW n \in Nonces, NEW approved \in BOOLEAN, Respond(n, approved) PROVE TurnInv'
    <3>1. CASE Heard(n)
      BY <2>3, <3>1, TurnInvInTurn
    <3>2. CASE ~Heard(n)
      BY <2>3, <3>2, TurnInvElsewhere
    <3> QED BY <3>1, <3>2
  <2> QED BY <1>2, <2>1, <2>2, <2>3 DEF EnvStep
<1>3. CASE UNCHANGED vars
  BY <1>3, TurnInvElsewhere
<1> QED BY <1>1, <1>2, <1>3 DEF Next

\* A turn in which the provider failed is never reported finished, and a turn
\* that is over was reported: every way out of processEvent passes its closing
\* events.
THEOREM LoopTurnIsReported == Spec => []TurnIsReported
<1>1. TurnInv => TurnIsReported
  BY DEF TurnInv, ReportInv
<1> QED BY <1>1, LoopInit, LoopInductive, TurnInvInit, TurnInvInductive, PTL DEF Spec

\* All messages of a turn are in one history, however sessions are created and
\* destroyed while it is under way, and only the default session ever holds a
\* turn that was meant for another: processEvent resolves the state manager once.
THEOREM LoopTurnStaysInOneSession == Spec => []TurnStaysInOneSession
<1>1. TurnInv => TurnStaysInOneSession
  <2> SUFFICES ASSUME TurnInv, NEW s \in SessionIds, NEW t \in SessionIds, s # t
               PROVE  /\ TurnsIn(history, s) \cap TurnsIn(history, t) = {}
                      /\ s # Default => \A k \in DOMAIN history[s] : dest[history[s][k].turn] = s
    BY Zenon DEF TurnStaysInOneSession, TurnsIn
  <2>1. \A k \in DOMAIN history[s] : history[s][k].turn \in TurnsIn(history, s)
    BY DEF TurnsIn
  <2> QED BY <2>1 DEF TurnInv, SessionInv
<1> QED BY <1>1, LoopInit, LoopInductive, TurnInvInit, TurnInvInductive, PTL DEF Spec

-----------------------------------------------------------------------------
(* Sequences with elements left out. *)

LEMMA SubSeqReflexive ==
  ASSUME NEW S, NEW s \in Seq(S)
  PROVE  IsSubSeq(s, s)
<1> DEFINE f == [i \in DOMAIN s |-> i]
<1>1. f \in [DOMAIN s -> DOMAIN s] /\ \A i \in DOMAIN s : f[i] = i
  OBVIOUS
<1> HIDE DEF f
<1> QED BY <1>1 DEF IsSubSeq

LEMMA SubSeqTransitive ==
  ASSUME NEW S, NEW s \in Seq(S), NEW t \in Seq(S), NEW u \in Seq(S),
         IsSubSeq(s, t), IsSubSeq(t, u)
  PROVE  IsSubSeq(s, u)
<1>1. PICK f \in [DOMAIN s -> DOMAIN t] :
          /\ \A i \in DOMAIN s : s[i] = t[f[i]]
          /\ \A i, j \in DOMAIN s : i < j => f[i] < f[j]
  BY DEF IsSubSeq
<1>2. PICK g \in [DOMAIN t -> DOMAIN u] :
          /\ \A i \in DOMAIN t : t[i] = u[g[i]]
          /\ \A i, j \in DOMAIN t : i < j => g[i] < g[j]
  BY DEF IsSubSeq
<1> DEFINE h == [i \in DOMAIN s |-> g[f[i]]]
<1>3. h \in [DOMAIN s -> DOMAIN u] /\ \A i \in DOMAIN s : h[i] = g[f[i]]
  OBVIOUS
<1> HIDE DEF h
<1>4. \A i \in DOMAIN s : s[i] = u[h[i]]
  BY <1>1, <1>2, <1>3
<1>5. \A i, j \in DOMAIN s : i < j => h[i] < h[j]
  BY <1>1, <1>2, <1>3
<1> QED BY <1>3, <1>4, <1>5, Zenon DEF IsSubSeq

\* A call that gets no result is left out, and one that gets its result moves
\* from the calls to the results.
LEMMA SubSeqOfRest ==
  ASSUME NEW S, NEW r \in Seq(S), NEW c \in Seq(S), c # <<>>
  PROVE  /\ IsSubSeq(r \o Tail(c), r \o c)
         /\ Append(r, Head(c)) \o Tail(c) = r \o c
<1> DEFINE rest == r \o Tail(c)
           all  == r \o c
           f == [i \in 1..(Len(r) + Len(c) - 1) |-> IF i <= Len(r) THEN i ELSE i + 1]
<1>1. /\ Len(r) \in Nat /\ Len(c) \in Nat \ {0} /\ Tail(c) \in Seq(S) /\ Len(Tail(c)) = Len(c) - 1
      /\ Head(c) = c[1] /\ \A i \in 1..(Len(c) - 1) : Tail(c)[i] = c[i + 1]
  BY HeadTailProperties, LenProperties, EmptySeq
<1>2. /\ DOMAIN rest = 1..(Len(r) + Len(c) - 1)
      /\ \A i \in 1..(Len(r) + Len(c) - 1) :
            rest[i] = IF i <= Len(r) THEN r[i] ELSE Tail(c)[i - Len(r)]
  BY <1>1, ConcatProperties, LenProperties
<1>3. /\ DOMAIN all = 1..(Len(r) + Len(c))
      /\ \A i \in 1..(Len(r) + Len(c)) : all[i] = IF i <= Len(r) THEN r[i] ELSE c[i - Len(r)]
  BY <1>1, ConcatProperties, LenProperties
<1>4. IsSubSeq(rest, all)
  <2> HIDE DEF rest, all
  <2>1. f \in [DOMAIN rest -> DOMAIN all]
    BY <1>1, <1>2, <1>3
  <2>2. \A i \in DOMAIN rest : rest[i] = all[f[i]]
    BY <1>1, <1>2, <1>3
  <2>3. \A i, j \in DOMAIN rest : i < j => f[i] < f[j]
    BY <1>1, <1>2
  <2> HIDE DEF f
  <2> QED BY <2>1, <2>2, <2>3, Zenon DEF IsSubSeq
<1>5. Append(r, Head(c)) \o Tail(c) = all
  <2> DEFINE q == Append(r, Head(c))
             moved == q \o Tail(c)
  <2>1. /\ q \in Seq(S) /\ Len(q) = Len(r) + 1 /\ q[Len(r) + 1] = c[1]
        /\ \A i \in 1..Len(r) : q[i] = r[i]
    BY <1>1, AppendProperties
  <2> HIDE DEF q
  <2>2. /\ moved \in Seq(S) /\ Len(moved) = Len(r) + Len(c)
        /\ \A i \in 1..(Len(r) + Len(c)) :
              moved[i] = IF i <= Len(r) + 1 THEN q[i] ELSE Tail(c)[i - (Len(r) + 1)]
    <3>1. Len(q) + Len(Tail(c)) = Len(r) + Len(c)
      BY <1>1, <2>1
    <3>2. /\ moved \in Seq(S) /\ Len(moved) = Len(q) + Len(Tail(c))
          /\ \A i \in 1..(Len(q) + Len(Tail(c))) :
                moved[i] = IF i <= Len(q) THEN q[i] ELSE Tail(c)[i - Len(q)]
      BY <1>1, <2>1, ConcatProperties
    <3> QED BY <2>1, <3>1, <3>2
  <2>3. all \in Seq(S) /\ Len(all) = Len(r) + Len(c)
    BY <1>1, ConcatProperties
  <2> HIDE DEF moved, all
  <2>4. ASSUME NEW i \in 1..(Len(r) + Len(c)) PROVE moved[i] = all[i]
    <3>1. CASE i <= Len(r)
      BY <1>1, <1>3, <2>1, <2>2, <3>1
    <3>2. CASE i = Len(r) + 1
      BY <1>1, <1>3, <2>1, <2>2, <3>2
    <3>3. CASE i > Len(r) + 1
      <4>1. i - (Len(r) + 1) \in 1..(Len(c) - 1) /\ (i - (Len(r) + 1)) + 1 = i - Len(r)
        BY <1>1, <3>3
      <4> QED BY <1>1, <1>3, <2>2, <3>3, <4>1
    <3> QED BY <1>1, <3>1, <3>2, <3>3
  <2>5. moved = all
    BY <2>2, <2>3, <2>4, SeqEqual
  <2> QED BY <2>5 DEF moved, q
<1> QED BY <1>4, <1>5 DEF rest, all

-----------------------------------------------------------------------------
(* What the messages of a history answer. *)

\* The position Asking finds is the last at which the LLM spoke.
LEMMA AskingIsLast ==
  ASSUME NEW s, NEW k \in Nat, NEW turn, NEW ids, Answers(history[s], k, turn, ids),
         Asking(s, k) # 0
  PROVE  /\ history[s][Asking(s, k)].turn = turn
         /\ IsSubSeq(ids, history[s][Asking(s, k)].ids)
<1> DEFINE m == history[s]
           before == {j \in 1..(k - 1) : m[j].role = "assistant"}
           last == CHOOSE j \in before : \A i \in before : i <= j
<1>1. Asking(s, k) = IF before = {} THEN 0 ELSE last
  BY DEF Asking
<1>2. before # {}
  BY <1>1
<1>3. PICK a \in 1..(k - 1) : LastAsked(m, k, a) /\ m[a].turn = turn /\ IsSubSeq(ids, m[a].ids)
  BY <1>2 DEF Answers, NeverAsked
<1>4. a \in before /\ \A i \in before : i <= a
  BY <1>3 DEF LastAsked
<1>5. last \in before /\ \A i \in before : i <= last
  <2> HIDE DEF before
  <2> QED BY <1>4
<1>6. last = a
  <2>1. a <= last /\ last <= a /\ last \in Nat /\ a \in Nat
    BY <1>4, <1>5
  <2> HIDE DEF last
  <2> QED BY <2>1
<1> QED BY <1>1, <1>2, <1>3, <1>6

\* What is answered before a message is answered with it in the history, and the
\* LLM speaking is what changes who is answered.
LEMMA AppendAnswers ==
  ASSUME NEW m \in Seq(Messages), NEW msg \in Messages
  PROVE  /\ Len(Append(m, msg)) = Len(m) + 1
         /\ \A k \in 1..(Len(m) + 1) : \A turn, ids :
               Answers(m, k, turn, ids) => Answers(Append(m, msg), k, turn, ids)
         /\ msg.role # "assistant" => \A turn, ids :
               Answers(m, Len(m) + 1, turn, ids) => Answers(Append(m, msg), Len(m) + 2, turn, ids)
         /\ msg.role = "assistant" => \A ids :
               IsSubSeq(ids, msg.ids) => Answers(Append(m, msg), Len(m) + 2, msg.turn, ids)
<1> DEFINE new == Append(m, msg)
<1>1. /\ Len(m) \in Nat /\ Len(new) = Len(m) + 1 /\ new[Len(m) + 1] = msg
      /\ \A i \in 1..Len(m) : new[i] = m[i]
  BY AppendProperties
<1> HIDE DEF new
<1>2. ASSUME NEW k \in 1..(Len(m) + 1), NEW turn, NEW ids, Answers(m, k, turn, ids)
      PROVE  Answers(new, k, turn, ids)
  <2>1. \A i \in 1..(k - 1) : new[i] = m[i]
    BY <1>1
  <2> QED BY <1>1, <1>2, <2>1 DEF Answers, NeverAsked, LastAsked
<1>3. ASSUME msg.role # "assistant", NEW turn, NEW ids, Answers(m, Len(m) + 1, turn, ids)
      PROVE  Answers(new, Len(m) + 2, turn, ids)
  <2>1. /\ (Len(m) + 1) - 1 = Len(m) /\ (Len(m) + 2) - 1 = Len(m) + 1
        /\ \A i \in 1..(Len(m) + 1) : i = Len(m) + 1 \/ i \in 1..Len(m)
    BY <1>1
  <2>2. CASE NeverAsked(m, Len(m) + 1)
    BY <1>1, <1>3, <2>1, <2>2 DEF Answers, NeverAsked
  <2>3. ASSUME NEW a \in 1..Len(m), LastAsked(m, Len(m) + 1, a)
        PROVE  LastAsked(new, Len(m) + 2, a)
    BY <1>1, <1>3, <2>1, <2>3 DEF LastAsked
  <2>4. CASE ~NeverAsked(m, Len(m) + 1)
    <3>1. PICK a \in 1..Len(m) : /\ LastAsked(m, Len(m) + 1, a) /\ m[a].turn = turn
                                 /\ IsSubSeq(ids, m[a].ids)
      BY <1>3, <2>1, <2>4 DEF Answers
    <3>2. a \in 1..(Len(m) + 2 - 1) /\ new[a] = m[a]
      BY <1>1
    <3> QED BY <2>3, <3>1, <3>2 DEF Answers
  <2> QED BY <2>2, <2>4
<1>4. ASSUME msg.role = "assistant", NEW ids, IsSubSeq(ids, msg.ids)
      PROVE  Answers(new, Len(m) + 2, msg.turn, ids)
  <2>1. Len(m) + 1 \in 1..(Len(m) + 2 - 1) /\ \A i \in (Len(m) + 2)..(Len(m) + 1) : FALSE
    BY <1>1
  <2>2. LastAsked(new, Len(m) + 2, Len(m) + 1)
    BY <1>1, <1>4, <2>1 DEF LastAsked
  <2> QED BY <1>1, <1>4, <2>1, <2>2 DEF Answers
<1> QED BY <1>1, <1>2, <1>3, <1>4 DEF new

\* A message that is no tool message, or answers what was asked last, may follow.
LEMMA AppendAllAnswered ==
  ASSUME NEW m \in Seq(Messages), NEW msg \in Messages, AllAnswered(m),
         msg.role = "tool" => Answers(m, Len(m) + 1, msg.turn, msg.ids)
  PROVE  AllAnswered(Append(m, msg))
<1> DEFINE new == Append(m, msg)
<1>1. /\ Len(m) \in Nat /\ DOMAIN new = 1..(Len(m) + 1) /\ DOMAIN m = 1..Len(m)
      /\ new[Len(m) + 1] = msg /\ \A i \in 1..Len(m) : new[i] = m[i]
  BY AppendProperties
<1>2. \A k \in 1..(Len(m) + 1) : \A turn, ids : Answers(m, k, turn, ids) => Answers(new, k, turn, ids)
  BY AppendAnswers
<1> HIDE DEF new
<1>3. ASSUME NEW k \in 1..(Len(m) + 1), new[k].role = "tool"
      PROVE  Answers(new, k, new[k].turn, new[k].ids)
  <2>1. CASE k \in 1..Len(m)
    BY <1>1, <1>2, <1>3, <2>1 DEF AllAnswered
  <2>2. CASE k = Len(m) + 1
    BY <1>1, <1>2, <1>3, <2>2
  <2> QED BY <1>1, <2>1, <2>2
<1> QED BY <1>1, <1>3 DEF AllAnswered, new

\* Leaving ids out leaves an answer.
LEMMA FewerAnswers ==
  ASSUME NEW m \in Seq(Messages), NEW turn, NEW ids \in Seq(CallIds), NEW fewer \in Seq(CallIds),
         IsSubSeq(fewer, ids), Answers(m, Len(m) + 1, turn, ids)
  PROVE  Answers(m, Len(m) + 1, turn, fewer)
<1>1. ASSUME NEW a \in 1..Len(m), IsSubSeq(ids, m[a].ids)
      PROVE  IsSubSeq(fewer, m[a].ids)
  <2>1. m[a].ids \in Seq(CallIds)
    <3>1. m[a] \in Messages
      BY ElementOfSeq
    <3> QED BY <3>1 DEF Messages
  <2> QED BY <1>1, <2>1, SubSeqTransitive
<1>2. Len(m) + 1 - 1 = Len(m)
  BY LenProperties
<1> QED BY <1>1, <1>2 DEF Answers

-----------------------------------------------------------------------------
(* The invariant of the answers. *)

\* What a turn may do to its history: what it says is no tool message, or
\* answers what was asked last.
LEMMA SayAnswered ==
  ASSUME NEW h \in [SessionIds -> Seq(Messages)], NEW s \in SessionIds, NEW turn \in Inputs,
         NEW role \in {"user", "assistant", "tool", "warning"}, NEW ids \in Seq(CallIds),
         \A t \in SessionIds : AllAnswered(h[t]),
         role = "tool" => Answers(h[s], Len(h[s]) + 1, turn, ids)
  PROVE  /\ \A t \in SessionIds : AllAnswered(Say(h, s, turn, role, ids)[t])
         /\ role # "assistant" => \A of, kept :
               Answers(h[s], Len(h[s]) + 1, of, kept) =>
               Answers(Say(h, s, turn, role, ids)[s], Len(Say(h, s, turn, role, ids)[s]) + 1, of, kept)
         /\ role = "assistant" =>
               Answers(Say(h, s, turn, role, ids)[s], Len(Say(h, s, turn, role, ids)[s]) + 1, turn, ids)
<1> DEFINE msg == [turn |-> turn, role |-> role, ids |-> ids]
           new == Say(h, s, turn, role, ids)
<1>1. msg \in Messages /\ msg.role = role /\ msg.turn = turn /\ msg.ids = ids
  BY DEF Messages
<1>2. h[s] \in Seq(Messages) /\ Len(h[s]) \in Nat
  BY LenProperties
<1>3. new[s] = Append(h[s], msg) /\ \A t \in SessionIds : t # s => new[t] = h[t]
  BY DEF Say
<1> HIDE DEF msg, new
<1>4. AllAnswered(new[s])
  BY <1>1, <1>2, <1>3, AppendAllAnswered
<1>5. Len(new[s]) = Len(h[s]) + 1 /\ Len(new[s]) + 1 = Len(h[s]) + 2
  BY <1>1, <1>2, <1>3, AppendAnswers
<1>6. role # "assistant" => \A of, kept :
        Answers(h[s], Len(h[s]) + 1, of, kept) => Answers(new[s], Len(new[s]) + 1, of, kept)
  BY <1>1, <1>2, <1>3, <1>5, AppendAnswers
<1>7. role = "assistant" => Answers(new[s], Len(new[s]) + 1, turn, ids)
  BY <1>1, <1>2, <1>3, <1>5, AppendAnswers, SubSeqReflexive
<1> QED BY <1>3, <1>4, <1>6, <1>7 DEF new

LEMMA AnswerInvInit == Init => AnswerInv
  BY LoopAssumption DEF Init, AnswerInv, AllAnswered

\* A call is disposed of: with its result or without, the results and the calls
\* that are left answer the same message.
LEMMA NextCallAnswers ==
  ASSUME IInv, pc \in {"deciding", "confirming", "executing"},
         NEW h \in [SessionIds -> Seq(Messages)], NEW m \in Counters, NEW res \in Seq(CallIds),
         \A s \in SessionIds : AllAnswered(h[s]),
         Answers(h[target], Len(h[target]) + 1, cur, res \o Tail(calls)),
         NextCall(h, m, res)
  PROVE  AnswerInv'
<1>1. /\ TypeOK /\ calls # <<>> /\ calls \in Seq(CallIds) /\ cur \in Inputs /\ target \in SessionIds
  BY DEF IInv, TypeOK, Bookkeeping, InTurn
<1>2. /\ cur' = cur /\ target' = target /\ pc' \in {"deciding", "ready", "persona"}
      /\ calls' = Tail(calls)
  BY <1>1, NextCallType DEF NextCall
<1>3. CASE Len(calls) > 1
  <2>1. results' = res /\ history' = h /\ pc' = "deciding"
    BY <1>1, <1>3, LenProperties DEF NextCall
  <2> QED BY <1>2, <2>1 DEF AnswerInv
<1>4. CASE ~(Len(calls) > 1)
  <2>1. results' = <<>> /\ FinishTools(h, m, res)
    BY <1>4 DEF NextCall
  <2>2. pc' \in {"ready", "persona"}
    BY <2>1 DEF FinishTools, EnterRound, EndTurn
  <2>3. res \o Tail(calls) = res
    <3>1. Len(calls) = 1
      BY <1>4 DEF NextCall
    <3>2. Tail(calls) \in Seq(CallIds) /\ Len(Tail(calls)) = 0
      BY <1>1, <3>1, HeadTailProperties
    <3>3. Tail(calls) = <<>>
      BY <3>2, EmptySeq
    <3> QED BY <3>3, ConcatEmptySeq
  <2>4. \A s \in SessionIds : AllAnswered(history'[s])
    <3>1. history' = Say(h, target, cur, "tool", res)
      BY <2>1 DEF FinishTools, ToolMessage
    <3> QED BY <1>1, <2>3, <3>1, SayAnswered
  <2> QED BY <2>1, <2>2, <2>4 DEF AnswerInv
<1> QED BY <1>3, <1>4

\* A step of a turn keeps the answers.
LEMMA AnswerInvInTurn ==
  ASSUME IInv, AnswerInv,
         TurnStep \/ \E n \in Nonces, approved \in BOOLEAN : Respond(n, approved) /\ Heard(n)
  PROVE  AnswerInv'
<1>0. /\ TypeOK /\ history \in [SessionIds -> Seq(Messages)] /\ target \in SessionIds
      /\ calls \in Seq(CallIds) /\ results \in Seq(CallIds) /\ monitor \in Counters
      /\ \A s \in SessionIds : AllAnswered(history[s])
      /\ history[target] \in Seq(Messages)
  BY DEF IInv, TypeOK, AnswerInv
<1>1. ASSUME pc' \in {"ready", "crashed"}, history' = history PROVE AnswerInv'
  BY <1>1 DEF AnswerInv
<1>2. CASE OverBudget \/ NoModel \/ Crash \/ \E tokens \in 0..MaxTokensPerCall : StreamThrows(tokens)
  BY <1>1, <1>2 DEF OverBudget, NoModel, Crash, StreamThrows, EndTurn, sessionVars
<1>3. CASE CallLLM
  BY <1>3 DEF CallLLM, AnswerInv, sessionVars, turnVars
<1>4. ASSUME NEW tokens \in 0..MaxTokensPerCall, NEW n \in 0..MaxCalls,
             NEW text \in BOOLEAN, NEW err \in BOOLEAN, NEW stopReason,
             StreamEnds(n, text, stopReason, err, tokens)
      PROVE  AnswerInv'
  <2> DEFINE ids == [k \in 1..n |-> <<round + 1, k>>]
             said == Say(history, target, cur, "assistant", ids)
  <2>1. cur \in Inputs /\ round <= MaxToolRounds /\ round \in Nat /\ results = <<>>
    BY <1>0, <1>4, LoopAssumption DEF IInv, Bookkeeping, InTurn, StreamEnds, AnswerInv, TypeOK
  <2>2. ids \in Seq(CallIds)
    <3>1. round + 1 \in 1..(MaxToolRounds + 1) /\ n \in Nat
      BY <2>1, LoopAssumption
    <3>2. \A k \in 1..n : k \in 1..MaxCalls
      BY <3>1, LoopAssumption
    <3>3. ids \in [1..n -> CallIds]
      BY <3>1, <3>2 DEF CallIds
    <3> QED BY <3>1, <3>3, SeqDef
  <2>3. /\ UNCHANGED <<cur, target, results>>
        /\ history' = IF text \/ n > 0 THEN said ELSE history
        /\ \/ n > 0 /\ calls' = ids /\ pc' = "planning"
           \/ pc' = "ready"
    BY <1>4 DEF StreamEnds, EndTurn
  <2> HIDE DEF ids, said
  <2>4. /\ \A s \in SessionIds : AllAnswered(said[s])
        /\ Answers(said[target], Len(said[target]) + 1, cur, ids)
    BY <1>0, <2>1, <2>2, SayAnswered DEF said
  <2>5. \A s \in SessionIds : AllAnswered(history'[s])
    BY <1>0, <2>3, <2>4
  <2>6. CASE pc' = "ready"
    BY <2>3, <2>5, <2>6 DEF AnswerInv
  <2>7. CASE n > 0 /\ calls' = ids /\ pc' = "planning"
    <3>1. history' = said /\ results' = <<>> /\ <<>> \o ids = ids
      BY <2>1, <2>2, <2>3, <2>7, ConcatEmptySeq
    <3> QED BY <2>3, <2>4, <2>5, <2>7, <3>1 DEF AnswerInv
  <2> QED BY <2>3, <2>6, <2>7
<1>5. ASSUME NEW kept \in Thinnings(calls), Deliberate(kept) PROVE AnswerInv'
  <2>1. /\ UNCHANGED <<cur, target, results, history>> /\ calls' = kept /\ results = <<>>
        /\ pc = "planning" /\ pc' \in {"deciding", "ready"}
    BY <1>5 DEF Deliberate, sessionVars, EndTurn, AnswerInv
  <2>2. kept \in Seq(CallIds) /\ IsSubSeq(kept, calls)
    BY <1>0, ThinningType DEF Thinnings
  <2>3. <<>> \o calls = calls /\ <<>> \o kept = kept
    BY <1>0, <2>2, ConcatEmptySeq
  <2>4. Answers(history[target], Len(history[target]) + 1, cur, calls)
    BY <2>1, <2>3 DEF AnswerInv
  <2>5. Answers(history[target], Len(history[target]) + 1, cur, kept)
    BY <1>0, <2>2, <2>4, FewerAnswers
  <2> QED BY <1>0, <2>1, <2>3, <2>5 DEF AnswerInv
<1>6. CASE Approve \/ AskUser
  BY <1>6 DEF Approve, AskUser, AnswerInv, sessionVars, turnVars
<1>7. ASSUME pc \in {"deciding", "confirming", "executing"}
      PROVE  /\ cur \in Inputs /\ calls # <<>> /\ Tail(calls) \in Seq(CallIds)
             /\ Answers(history[target], Len(history[target]) + 1, cur, results \o Tail(calls))
             /\ Answers(history[target], Len(history[target]) + 1, cur, Recorded \o Tail(calls))
             /\ Recorded \in Seq(CallIds)
  <2>1. cur \in Inputs /\ calls # <<>> /\ Tail(calls) \in Seq(CallIds) /\ Head(calls) \in CallIds
    BY <1>0, <1>7, HeadTailProperties DEF IInv, Bookkeeping, InTurn
  <2>2. Answers(history[target], Len(history[target]) + 1, cur, results \o calls)
    BY <1>7 DEF AnswerInv
  <2>3. results \o Tail(calls) \in Seq(CallIds) /\ results \o calls \in Seq(CallIds)
    BY <1>0, <2>1, ConcatProperties
  <2>4. IsSubSeq(results \o Tail(calls), results \o calls) /\ Recorded \o Tail(calls) = results \o calls
    BY <1>0, <2>1, SubSeqOfRest DEF Recorded
  <2> QED BY <1>0, <2>1, <2>2, <2>3, <2>4, FewerAnswers, AppendProperties DEF Recorded
<1>8. CASE \/ Block \/ ConfirmationTimeout
           \/ \E n \in Nonces, approved \in BOOLEAN : Respond(n, approved) /\ Heard(n) /\ ~approved
  <2>1. pc \in {"deciding", "confirming", "executing"} /\ NextCall(history, monitor, results)
    BY <1>8 DEF Block, ConfirmationTimeout, Respond, Heard
  <2> QED BY <1>0, <1>7, <2>1, NextCallAnswers
<1>9. ASSUME NEW n \in Nonces, Respond(n, TRUE), Heard(n) PROVE AnswerInv'
  BY <1>9 DEF Respond, Heard, AnswerInv, turnVars
<1>10. ASSUME NEW fp \in Prints, NEW isError \in BOOLEAN, ToolDone(fp, isError) PROVE AnswerInv'
  <2> DEFINE m == RecordExecution(monitor, fp, isError)
             warned == Say(history, target, cur, "warning", <<>>)
             res == Recorded
  <2>1. /\ pc = "executing"
        /\ \/ history' = history /\ pc' = "ready"
           \/ NextCall(warned, m, res)
           \/ NextCall(history, m, res)
    BY <1>10 DEF ToolDone, EndTurn
  <2>2. m \in Counters
    BY <1>0, MonitorTypes
  <2>3. /\ warned \in [SessionIds -> Seq(Messages)]
        /\ \A s \in SessionIds : AllAnswered(warned[s])
        /\ Answers(warned[target], Len(warned[target]) + 1, cur, res \o Tail(calls))
    <3>1. cur \in Inputs /\ <<>> \in Seq(CallIds)
      BY <1>7, <2>1, EmptySeq
    <3>2. warned \in [SessionIds -> Seq(Messages)]
      BY <1>0, <3>1, SayType
    <3>3. /\ \A s \in SessionIds : AllAnswered(warned[s])
          /\ \A of, ids : Answers(history[target], Len(history[target]) + 1, of, ids)
                          => Answers(warned[target], Len(warned[target]) + 1, of, ids)
      BY <1>0, <3>1, SayAnswered
    <3> QED BY <1>7, <2>1, <3>2, <3>3
  <2>4. /\ res \in Seq(CallIds)
        /\ Answers(history[target], Len(history[target]) + 1, cur, res \o Tail(calls))
    BY <1>7, <2>1
  <2> HIDE DEF m, warned, res
  <2> QED BY <1>0, <1>1, <2>1, <2>2, <2>3, <2>4, NextCallAnswers
<1> QED BY <1>2, <1>3, <1>4, <1>5, <1>6, <1>8, <1>9, <1>10 DEF TurnStep

LEMMA AnswerInvInductive == IInv /\ AnswerInv /\ [Next]_vars => AnswerInv'
<1> SUFFICES ASSUME IInv, AnswerInv, [Next]_vars PROVE AnswerInv'
  OBVIOUS
<1>0. /\ history \in [SessionIds -> Seq(Messages)] /\ target \in SessionIds
      /\ \A s \in SessionIds : AllAnswered(history[s])
  BY DEF IInv, TypeOK, AnswerInv
<1>1. CASE /\ UNCHANGED <<cur, target, calls, results, history>>
           /\ pc' = pc \/ pc' \in {"ready", "pulling", "stopped"}
  BY <1>1 DEF AnswerInv
<1>2. CASE LoopStep
  <2>1. CASE Pull
    BY <1>1, <2>1 DEF Pull, sessionVars, turnVars
  <2>2. ASSUME NEW e, ReceiveStopped(e) \/ ReceiveLocked(e) PROVE AnswerInv'
    BY <1>1, <2>2 DEF ReceiveStopped, ReceiveLocked, turnVars
  <2>3. ASSUME NEW e \in {Shutdown} \cup Inputs, BeginTurn(e) PROVE AnswerInv'
    <3>1. /\ results' = <<>> /\ pc' \in {"ready", "persona"} /\ e \in Inputs
          /\ history' = Say(history, target', e, "user", <<>>)
      BY <2>3 DEF BeginTurn, EnterRound, EndTurn
    <3>2. target' \in SessionIds /\ <<>> \in Seq(CallIds)
      <4>1. IInv'
        BY LoopInductive
      <4> QED BY <4>1, EmptySeq DEF IInv, TypeOK
    <3>3. \A s \in SessionIds : AllAnswered(history'[s])
      BY <1>0, <3>1, <3>2, SayAnswered
    <3> QED BY <3>1, <3>3 DEF AnswerInv
  <2> QED BY <1>2, <2>1, <2>2, <2>3, AnswerInvInTurn DEF LoopStep
<1>3. CASE EnvStep
  <2>1. CASE Start \/ Stop \/ \E s \in SessionIds : PushInput(s) \/ CreateSession(s)
    BY <1>1, <2>1 DEF Start, Stop, PushInput, CreateSession, loopVars, sessionVars, turnVars
  <2>2. CASE Reset \/ \E s \in SessionIds : DestroySession(s)
    <3>1. PICK s \in SessionIds : history' = [history EXCEPT ![s] = <<>>]
      BY <2>2, LoopAssumption DEF Reset, DestroySession
    <3>2. UNCHANGED <<cur, target, calls, results, pc>>
      BY <2>2 DEF Reset, DestroySession, turnVars, loopVars
    <3>3. AllAnswered(<<>>) /\ \A turn, ids : Answers(<<>>, Len(<<>>) + 1, turn, ids)
      BY EmptySeq DEF AllAnswered, Answers, NeverAsked
    <3>4. /\ \A t \in SessionIds : history'[t] = IF t = s THEN <<>> ELSE history[t]
      BY <1>0, <3>1
    <3> QED BY <1>0, <3>2, <3>3, <3>4 DEF AnswerInv
  <2>3. ASSUME NEW n \in Nonces, NEW approved \in BOOLEAN, Respond(n, approved) PROVE AnswerInv'
    <3>1. CASE ~Heard(n)
      BY <1>1, <2>3, <3>1 DEF Respond, turnVars
    <3> QED BY <2>3, <3>1, AnswerInvInTurn
  <2> QED BY <1>3, <2>1, <2>2, <2>3 DEF EnvStep
<1>4. CASE UNCHANGED vars
  BY <1>1, <1>4 DEF vars, loopVars, sessionVars, turnVars
<1> QED BY <1>2, <1>3, <1>4 DEF Next

\* A tool message answers calls of the latest assistant message of its session,
\* of its own turn, in their order and each at most once: vetoed and denied calls
\* are left out, warnings come between, and a history cleared during the turn is
\* the only one that has results without the message that asked for them.
THEOREM LoopResultsAnswer == Spec => []ResultsAnswerCalls
<1>1. IInv /\ AnswerInv => ResultsAnswerCalls
  <2> SUFFICES ASSUME IInv, AnswerInv, NEW s \in SessionIds, NEW k \in DOMAIN history[s],
                      history[s][k].role = "tool", Asking(s, k) # 0
               PROVE  /\ history[s][Asking(s, k)].turn = history[s][k].turn
                      /\ IsSubSeq(history[s][k].ids, history[s][Asking(s, k)].ids)
    BY DEF ResultsAnswerCalls
  <2>1. Answers(history[s], k, history[s][k].turn, history[s][k].ids)
    BY DEF AnswerInv, AllAnswered
  <2>2. k \in Nat
    <3>1. history[s] \in Seq(Messages)
      BY DEF IInv, TypeOK
    <3>2. DOMAIN history[s] \subseteq Nat
      BY <3>1, LenProperties
    <3> QED BY <3>2
  <2> QED BY <2>1, <2>2, AskingIsLast
<1> QED BY <1>1, LoopInit, LoopInductive, AnswerInvInit, AnswerInvInductive, PTL DEF Spec
=============================================================================
