--------------------------- MODULE ChannelProofs ----------------------------
(***************************************************************************)
(* Theorems of the components ChannelParts composes.                        *)
(***************************************************************************)
EXTENDS ChannelParts, FiniteSetTheorems, SequenceTheorems, WellFoundedInduction, TLAPS


\* The instances count, and compare the places of a sequence, as the library does.
LEMMA SameCounts ==
    ASSUME NEW S
    PROVE  /\ Limiters!Cardinality(S) = Cardinality(S)
           /\ Composite!Cardinality(S) = Cardinality(S)
           /\ Hub!Cardinality(S) = Cardinality(S)
BY DEF Limiters!Cardinality, Composite!Cardinality, Hub!Cardinality, Cardinality,
       Limiters!IsFiniteSet, Composite!IsFiniteSet, Hub!IsFiniteSet, IsFiniteSet

LEMMA SameInjections == ASSUME NEW f PROVE Cluster!IsInjective(f) <=> IsInjective(f)
BY DEF Cluster!IsInjective, IsInjective

\* A process is something.
ForkedBounds == NoOne \notin ForkIds

ForkedMessages == [event : Nat, heard : BOOLEAN]
HeardMessages == [event : Nat, heard : {TRUE}]

ForkedTyped ==
  /\ child \in ForkIds \cup {NoOne} /\ ready \in BOOLEAN /\ outlived \in BOOLEAN
  /\ waiting \subseteq ForkIds /\ heard \subseteq ForkIds
  /\ DOMAIN forks = ForkIds
  /\ \A p \in ForkIds :
       forks[p] \in [life : {"none", "running", "gone"}, said : BOOLEAN,
                     connected : BOOLEAN, signalled : BOOLEAN]
  /\ events \in Nat

\* Unless ready outlived the child that said it, it is the child's, and whatever is on
\* its way or was received was written to a process that had been heard.
ForkedInv ==
  /\ ForkedTyped
  /\ pipe \in [ForkIds -> Seq(ForkedMessages)] /\ got \in [ForkIds -> Seq(ForkedMessages)]
  /\ ~outlived => /\ ready => child # NoOne /\ child \in heard
                  /\ pipe \in [ForkIds -> Seq(HeardMessages)] /\ got \in [ForkIds -> Seq(HeardMessages)]

LEMMA ForkedBegins == Forked!Init => ForkedInv
<1> SUFFICES ASSUME Forked!Init PROVE ForkedInv
  OBVIOUS
<1>1. ForkedTyped
  BY DEF Forked!Init, ForkedTyped, Forked!Fresh
<1>2. <<>> \in Seq(ForkedMessages) /\ <<>> \in Seq(HeardMessages)
  OBVIOUS
<1> QED
  BY <1>1, <1>2 DEF Forked!Init, ForkedInv

LEMMA ForkedStays == ForkedTyped /\ [Forked!Next]_Forked!vars => ForkedTyped'
<1> SUFFICES ASSUME ForkedTyped, [Forked!Next]_Forked!vars PROVE ForkedTyped'
  OBVIOUS
<1> USE DEF ForkedTyped
<1>1. CASE UNCHANGED Forked!vars
  BY <1>1 DEF Forked!vars
<1>2. ASSUME NEW p \in ForkIds, Forked!Start(p) PROVE ForkedTyped'
  BY <1>2 DEF Forked!Start
<1>3. ASSUME NEW p \in ForkIds, Forked!SayReady(p) PROVE ForkedTyped'
  BY <1>3 DEF Forked!SayReady
<1>4. ASSUME NEW p \in ForkIds, Forked!HearReady(p) PROVE ForkedTyped'
  BY <1>4 DEF Forked!HearReady
<1>5. ASSUME NEW p \in ForkIds, Forked!GiveUp(p) PROVE ForkedTyped'
  BY <1>5 DEF Forked!GiveUp
<1>6. ASSUME NEW p \in ForkIds, Forked!Exit(p) PROVE ForkedTyped'
  BY <1>6 DEF Forked!Exit
<1>7. ASSUME NEW p \in ForkIds, Forked!Disconnect(p) PROVE ForkedTyped'
  BY <1>7 DEF Forked!Disconnect
<1>8. ASSUME NEW p \in ForkIds, Forked!Receive(p) PROVE ForkedTyped'
  BY <1>8 DEF Forked!Receive
<1>9. CASE Forked!SendEvent
  BY <1>9 DEF Forked!SendEvent
<1>10. CASE Forked!Terminate
  <2>1. CASE child = NoOne
    BY <1>10, <2>1 DEF Forked!Terminate
  <2>2. CASE child # NoOne
    BY <1>10, <2>2 DEF Forked!Terminate
  <2> QED
    BY <2>1, <2>2
<1> QED
  BY <1>1, <1>2, <1>3, <1>4, <1>5, <1>6, <1>7, <1>8, <1>9, <1>10 DEF Forked!Next

LEMMA ForkedGoesOn == ForkedBounds /\ ForkedInv /\ [Forked!Next]_Forked!vars => ForkedInv'
<1> SUFFICES ASSUME ForkedBounds, ForkedInv, [Forked!Next]_Forked!vars PROVE ForkedInv'
  OBVIOUS
<1>0. ForkedTyped'
  BY ForkedStays DEF ForkedInv
<1>1. CASE UNCHANGED <<child, ready, heard, outlived, pipe, got>>
  BY <1>0, <1>1 DEF ForkedInv
<1>2. ASSUME NEW p \in ForkIds, Forked!Start(p) PROVE ForkedInv'
  BY <1>0, <1>2 DEF ForkedInv, Forked!Start
<1>3. ASSUME NEW p \in ForkIds, Forked!HearReady(p) PROVE ForkedInv'
  <2>1. ~outlived' => child' # NoOne /\ child' \in heard'
    <3>1. ~outlived' => child' = p /\ heard' = heard \cup {p} /\ p \in waiting
      BY <1>3 DEF Forked!HearReady
    <3>2. ~outlived' => ~outlived /\ forks[p].said
      BY <1>3 DEF Forked!HearReady
    <3>3. p \in ForkIds /\ (child' = p => child' # NoOne)
      BY DEF ForkedBounds
    <3> QED
      BY <3>1, <3>3
  <2> QED
    BY <1>0, <1>3, <2>1 DEF ForkedInv, Forked!HearReady
<1>4. ASSUME NEW p \in ForkIds, Forked!Exit(p) PROVE ForkedInv'
  <2>1. <<>> \in Seq(ForkedMessages) /\ <<>> \in Seq(HeardMessages)
    OBVIOUS
  <2> QED
    BY <1>0, <1>4, <2>1 DEF ForkedInv, Forked!Exit
<1>5. ASSUME NEW p \in ForkIds, Forked!Receive(p) PROVE ForkedInv'
  <2>1. pipe[p] \in Seq(ForkedMessages) /\ got[p] \in Seq(ForkedMessages) /\ pipe[p] # <<>>
    BY <1>5 DEF ForkedInv, Forked!Receive
  <2>2. Tail(pipe[p]) \in Seq(ForkedMessages) /\ Append(got[p], Head(pipe[p])) \in Seq(ForkedMessages)
    BY <2>1, HeadTailProperties, AppendProperties
  <2>3. ~outlived =>
           Tail(pipe[p]) \in Seq(HeardMessages) /\ Append(got[p], Head(pipe[p])) \in Seq(HeardMessages)
    BY <2>1, HeadTailProperties, AppendProperties DEF ForkedInv
  <2> QED
    BY <1>0, <1>5, <2>2, <2>3 DEF ForkedInv, Forked!Receive
<1>6. CASE Forked!SendEvent
  <2>1. CASE Forked!Open /\ Forked!Running(child)
    <3>0. PICK isHeard \in BOOLEAN : isHeard <=> child \in heard
      <4>1. CASE child \in heard
        BY <4>1
      <4>2. CASE child \notin heard
        BY <4>2
      <4> QED
        BY <4>1, <4>2
    <3> DEFINE m == [event |-> events + 1, heard |-> isHeard]
    <3>1. child \in ForkIds /\ ready
      BY <2>1 DEF Forked!Open, ForkedInv, ForkedTyped
    <3>2. m \in ForkedMessages
      BY DEF ForkedMessages, ForkedInv, ForkedTyped
    <3>3. ~outlived => m \in HeardMessages
      <4>1. ~outlived => isHeard = TRUE
        BY <3>0, <3>1 DEF ForkedInv
      <4> QED
        BY <4>1 DEF HeardMessages, ForkedInv, ForkedTyped
    <3>4. pipe' = [pipe EXCEPT ![child] = Append(@, m)] /\ UNCHANGED <<child, ready, heard, outlived, got>>
      BY <1>6, <2>1, <3>0 DEF Forked!SendEvent
    <3> HIDE DEF m
    <3>5. Append(pipe[child], m) \in Seq(ForkedMessages)
      BY <3>1, <3>2, AppendProperties DEF ForkedInv
    <3>6. ~outlived => Append(pipe[child], m) \in Seq(HeardMessages)
      BY <3>1, <3>3, AppendProperties DEF ForkedInv
    <3> QED
      BY <1>0, <3>1, <3>4, <3>5, <3>6 DEF ForkedInv
  <2>2. CASE ~(Forked!Open /\ Forked!Running(child))
    BY <1>1, <1>6, <2>2 DEF Forked!SendEvent
  <2> QED
    BY <2>1, <2>2
<1>7. CASE Forked!Terminate
  BY <1>0, <1>7 DEF ForkedInv, Forked!Terminate
<1> QED
  BY <1>1, <1>2, <1>3, <1>4, <1>5, <1>6, <1>7
     DEF Forked!Next, Forked!vars, Forked!SayReady, Forked!GiveUp, Forked!Disconnect

\* A channel process gets no event before the daemon has taken its READY line, unless
\* ready was left over (start, send of channel-ipc.ts): with any number of processes.
THEOREM ForkedReadyComesFirst ==
    ASSUME ForkedBounds PROVE Forked!Spec => [](Forked!TypeOK /\ Forked!ReadyComesFirst)
<1>1. Forked!Init => ForkedInv
  BY ForkedBegins
<1>2. ForkedInv /\ [Forked!Next]_Forked!vars => ForkedInv'
  BY ForkedGoesOn
<1>3. ForkedInv => Forked!TypeOK /\ Forked!ReadyComesFirst
  <2> SUFFICES ASSUME ForkedInv PROVE Forked!TypeOK /\ Forked!ReadyComesFirst
    OBVIOUS
  <2>1. Forked!TypeOK
    BY DEF ForkedInv, ForkedTyped, Forked!TypeOK
  <2>2. ASSUME ~outlived, NEW p \in ForkIds PROVE Forked!Written(p) \in Seq(HeardMessages)
    BY <2>2, ConcatProperties DEF ForkedInv, Forked!Written
  <2>3. ASSUME ~outlived, NEW p \in ForkIds, NEW i \in DOMAIN Forked!Written(p)
        PROVE  Forked!Written(p)[i].heard
    <3>1. Forked!Written(p)[i] \in HeardMessages
      BY <2>2, <2>3, ElementOfSeq
    <3> QED
      BY <3>1 DEF HeardMessages
  <2> QED
    BY <2>1, <2>3 DEF Forked!ReadyComesFirst
<1> QED
  BY <1>1, <1>2, <1>3, PTL DEF Forked!Spec


\* The constructor refuses a composite without children.
CompositeBounds == Kids \in Nat \ {0} /\ MaxSends \in Nat

SendRecords ==
  [asked : SUBSET Composite!Children, refused : SUBSET Composite!Children,
   verdict : {"open", "resolved", "rejected"}]

CompositeTyped ==
  /\ strategy \in Composite!Strategies
  /\ status \in {"disconnected", "connecting", "connected", "draining", "error"}
  /\ kids \in [Composite!Children -> {"disconnected", "connected", "error"}]
  /\ call \in [{"connect", "disconnect"} -> [open : BOOLEAN, waits : SUBSET Composite!Children]]
  /\ overlap \in BOOLEAN
  /\ sends \in Seq(SendRecords) /\ Len(sends) <= MaxSends
  /\ took \in [Composite!Children -> SUBSET (DOMAIN sends)]

\* How far a send has come by its strategy: a fallback has failed with every child before
\* the one it asks, a pipeline has delivered through every child before it, a broadcast has
\* asked them all.
FallbackAt(s) ==
  \/ /\ sends[s].verdict = "open" /\ Composite!Takers(s) = {}
     /\ \E m \in Composite!Children : sends[s].asked = 1 .. m /\ sends[s].refused = 1 .. (m - 1)
  \/ sends[s].verdict = "resolved" /\ \E m \in Composite!Children : Composite!Takers(s) = {m}
  \/ sends[s].verdict = "rejected" /\ Composite!Takers(s) = {}

PipelineAt(s) ==
  \/ /\ sends[s].verdict = "open" /\ sends[s].refused = {}
     /\ \E m \in Composite!Children : sends[s].asked = 1 .. m /\ Composite!Takers(s) = 1 .. (m - 1)
  \/ sends[s].verdict = "resolved" /\ Composite!Takers(s) = Composite!Children
  \/ sends[s].verdict = "rejected" /\ \E m \in Composite!Children : Composite!Takers(s) = 1 .. (m - 1)

BroadcastAt(s) ==
  /\ sends[s].asked = Composite!Children
  /\ Composite!Takers(s) \cap sends[s].refused = {}
  /\ sends[s].verdict = "resolved" => Composite!Takers(s) # {}
  /\ sends[s].verdict = "rejected" => Composite!Takers(s) = {}

SendAt(s) ==
  CASE strategy = "fallback" -> FallbackAt(s)
    [] strategy = "pipeline" -> PipelineAt(s)
    [] strategy = "broadcast" -> BroadcastAt(s)

SendsGoOn ==
  \A s \in DOMAIN sends : sends[s].refused \subseteq sends[s].asked /\ SendAt(s)

\* Unless connects and disconnects overlapped, one of them at most has children that it
\* waits for, and what a connect no longer waits for is connected.
CallsTakeTurns ==
  ~overlap =>
    /\ call["connect"].waits = {} \/ call["disconnect"].waits = {}
    /\ \A c \in {"connect", "disconnect"} : call[c].open => call[c].waits # {}
    /\ status = "connected" =>
         /\ call["connect"].waits = {} /\ call["disconnect"].waits = {}
         /\ \A k \in Composite!Children : kids[k] = "connected"
    /\ call["connect"].open =>
         \A k \in Composite!Children \ call["connect"].waits : kids[k] = "connected"

CompositeInv == CompositeTyped /\ SendsGoOn /\ CallsTakeTurns

LEMMA CompositeBegins == CompositeBounds /\ Composite!Init => CompositeInv
<1> SUFFICES ASSUME CompositeBounds, Composite!Init PROVE CompositeInv
  OBVIOUS
<1>1. sends \in Seq(SendRecords) /\ Len(sends) = 0 /\ DOMAIN sends = {}
  BY DEF Composite!Init
<1>2. CompositeTyped
  <2>1. took \in [Composite!Children -> SUBSET (DOMAIN sends)] /\ Len(sends) <= MaxSends
    BY <1>1 DEF Composite!Init, CompositeBounds
  <2>2. Composite!Resting \in [open : BOOLEAN, waits : SUBSET Composite!Children]
    BY DEF Composite!Resting
  <2>3. call \in [{"connect", "disconnect"} -> [open : BOOLEAN, waits : SUBSET Composite!Children]]
    BY <2>2 DEF Composite!Init
  <2> QED
    BY <1>1, <2>1, <2>3 DEF Composite!Init, CompositeTyped
<1> QED
  BY <1>1, <1>2 DEF Composite!Init, CompositeInv, SendsGoOn, CallsTakeTurns, Composite!Resting

-----------------------------------------------------------------------------
(* connect and disconnect. *)

LEMMA CompositeConnects ==
  ASSUME CompositeBounds, CompositeTyped, CallsTakeTurns,
         \/ \E c \in {"connect", "disconnect"} : Composite!Begin(c)
         \/ \E k \in Composite!Children : Composite!KidConnects(k) \/ Composite!KidFails(k)
                                \/ \E gone \in BOOLEAN : Composite!KidDisconnects(k, gone)
  PROVE  CompositeTyped' /\ CallsTakeTurns' /\ Composite!UnchangedSends
<1> USE DEF CompositeTyped
<1>1. ASSUME NEW c \in {"connect", "disconnect"}, Composite!Begin(c)
      PROVE  CompositeTyped' /\ CallsTakeTurns' /\ Composite!UnchangedSends
  <2>1. Composite!Children # {}
    <3>1. 1 \in Composite!Children
      BY DEF CompositeBounds, Composite!Children
    <3> QED
      BY <3>1
  <2>2. Composite!UnchangedSends /\ kids' = kids /\ overlap' \in BOOLEAN
    BY <1>1 DEF Composite!Begin
  <2>3. call' = [call EXCEPT ![c] = [open |-> TRUE, waits |-> Composite!Children]]
    BY <1>1 DEF Composite!Begin
  <2>4. status' \in {"connecting", "draining"}
    BY <1>1 DEF Composite!Begin
  <2>5. CompositeTyped'
    BY <2>2, <2>3, <2>4 DEF Composite!UnchangedSends
  <2>6. ~overlap' => ~overlap /\ call[Composite!Other(c)].waits = {} /\ ~call[Composite!Other(c)].open
    BY <1>1 DEF Composite!Begin
  <2>7. CallsTakeTurns'
    BY <2>1, <2>2, <2>3, <2>4, <2>6 DEF CallsTakeTurns, Composite!Other
  <2> QED
    BY <2>2, <2>5, <2>7
<1>2. ASSUME NEW k \in Composite!Children, Composite!KidConnects(k)
      PROVE  CompositeTyped' /\ CallsTakeTurns' /\ Composite!UnchangedSends
  <2> DEFINE rest == call["connect"].waits \ {k}
             done == call["connect"].open /\ rest = {}
  <2>1. /\ k \in call["connect"].waits /\ overlap' = overlap /\ Composite!UnchangedSends
        /\ kids' = [kids EXCEPT ![k] = "connected"]
        /\ call' = [call EXCEPT !["connect"] =
                      [open |-> call["connect"].open /\ ~done, waits |-> rest]]
        /\ status' = IF done THEN "connected" ELSE status
    BY <1>2 DEF Composite!KidConnects
  <2>2. CompositeTyped'
    BY <2>1 DEF Composite!UnchangedSends
  <2>3. /\ call'["connect"].waits = rest /\ call'["disconnect"] = call["disconnect"]
        /\ call'["connect"].open <=> call["connect"].open /\ rest # {}
    BY <2>1
  <2>4. \A j \in Composite!Children : kids'[j] = IF j = k THEN "connected" ELSE kids[j]
    BY <2>1
  <2>5. CallsTakeTurns'
    BY <2>1, <2>3, <2>4 DEF CallsTakeTurns
  <2> QED
    BY <2>1, <2>2, <2>5
<1>3. ASSUME NEW k \in Composite!Children, Composite!KidFails(k)
      PROVE  CompositeTyped' /\ CallsTakeTurns' /\ Composite!UnchangedSends
  <2>1. /\ k \in call["connect"].waits /\ overlap' = overlap /\ Composite!UnchangedSends
        /\ kids' = [kids EXCEPT ![k] = "error"]
        /\ call' = [call EXCEPT !["connect"] =
                      [open |-> FALSE, waits |-> call["connect"].waits \ {k}]]
        /\ status' = IF call["connect"].open THEN "error" ELSE status
    BY <1>3 DEF Composite!KidFails
  <2>2. CompositeTyped'
    BY <2>1 DEF Composite!UnchangedSends
  <2>3. /\ call'["connect"].waits = call["connect"].waits \ {k}
        /\ ~call'["connect"].open /\ call'["disconnect"] = call["disconnect"]
    BY <2>1
  <2>4. CallsTakeTurns'
    BY <2>1, <2>3 DEF CallsTakeTurns
  <2> QED
    BY <2>1, <2>2, <2>4
<1>4. ASSUME NEW k \in Composite!Children, NEW gone \in BOOLEAN, Composite!KidDisconnects(k, gone)
      PROVE  CompositeTyped' /\ CallsTakeTurns' /\ Composite!UnchangedSends
  <2> DEFINE rest == call["disconnect"].waits \ {k}
  <2>1. /\ k \in call["disconnect"].waits /\ overlap' = overlap /\ Composite!UnchangedSends
        /\ kids' = [kids EXCEPT ![k] = IF gone THEN "disconnected" ELSE kids[k]]
        /\ call' = [call EXCEPT !["disconnect"] = [open |-> rest # {}, waits |-> rest]]
        /\ status' = IF rest = {} THEN "disconnected" ELSE status
    BY <1>4 DEF Composite!KidDisconnects
  <2>2. CompositeTyped'
    BY <2>1 DEF Composite!UnchangedSends
  <2>3. /\ call'["disconnect"].waits = rest /\ call'["connect"] = call["connect"]
        /\ call'["disconnect"].open <=> rest # {}
    BY <2>1
  <2>4. CallsTakeTurns'
    BY <2>1, <2>3 DEF CallsTakeTurns
  <2> QED
    BY <2>1, <2>2, <2>4
<1> QED
  BY <1>1, <1>2, <1>3, <1>4

-----------------------------------------------------------------------------
(* send. *)

\* What an answer leaves alone, and what it makes of its own send.
LEMMA CompositeAnswers ==
  ASSUME CompositeTyped, NEW s \in DOMAIN sends, NEW k \in Composite!Children,
         Composite!Delivers(s, k) \/ Composite!Refuses(s, k)
  PROVE  /\ strategy' = strategy /\ UNCHANGED <<status, kids, call, overlap>>
         /\ DOMAIN sends' = DOMAIN sends /\ Len(sends') = Len(sends)
         /\ \A r \in DOMAIN sends : r # s => sends'[r] = sends[r] /\ Composite!Takers(r)' = Composite!Takers(r)
         /\ Composite!Delivers(s, k) => Composite!Takers(s)' = Composite!Takers(s) \cup {k}
         /\ ~Composite!Delivers(s, k) => Composite!Takers(s)' = Composite!Takers(s) /\ took' = took
         /\ took' \in [Composite!Children -> SUBSET (DOMAIN sends)]
<1>1. strategy' = strategy /\ UNCHANGED <<status, kids, call, overlap>>
  BY DEF Composite!Delivers, Composite!Refuses
<1>2. \E record : sends' = [sends EXCEPT ![s] = record]
  BY DEF Composite!Delivers, Composite!Refuses, Composite!Answered, Composite!Ended, CompositeTyped, Composite!Strategies
<1>3. /\ DOMAIN sends' = DOMAIN sends /\ \A r \in DOMAIN sends : r # s => sends'[r] = sends[r]
  BY <1>2
<1>4. sends \in Seq(SendRecords)
  BY DEF CompositeTyped
<1>5. Len(sends') = Len(sends)
  <2>1. PICK record : sends' = [sends EXCEPT ![s] = record]
    BY <1>2
  <2> QED
    BY <1>4, <2>1
<1>6. CASE Composite!Delivers(s, k)
  <2>1. took' = [took EXCEPT ![k] = @ \cup {s}]
    BY <1>6 DEF Composite!Delivers
  <2>2. \A j \in Composite!Children : took'[j] = IF j = k THEN took[j] \cup {s} ELSE took[j]
    BY <2>1 DEF CompositeTyped
  <2>3. took' \in [Composite!Children -> SUBSET (DOMAIN sends)]
    BY <2>1 DEF CompositeTyped
  <2> QED
    BY <1>1, <1>3, <1>5, <1>6, <2>2, <2>3 DEF Composite!Takers
<1>7. CASE ~Composite!Delivers(s, k)
  <2>1. took' = took
    BY <1>7 DEF Composite!Refuses
  <2> QED
    BY <1>1, <1>3, <1>5, <1>7, <2>1 DEF Composite!Takers, CompositeTyped
<1> QED
  BY <1>6, <1>7

\* The record that an answer leaves.
LEMMA CompositeDelivered ==
  ASSUME CompositeTyped, NEW s \in DOMAIN sends, NEW k \in Composite!Children, Composite!Delivers(s, k)
  PROVE  /\ sends'[s].refused = sends[s].refused
         /\ strategy = "fallback" =>
              sends'[s] = [asked |-> sends[s].asked, refused |-> sends[s].refused,
                           verdict |-> "resolved"]
         /\ strategy = "pipeline" =>
              sends'[s] = [asked |-> IF k < Kids THEN sends[s].asked \cup {k + 1}
                                     ELSE sends[s].asked,
                           refused |-> sends[s].refused,
                           verdict |-> IF k < Kids THEN "open" ELSE "resolved"]
         /\ strategy = "broadcast" =>
              sends'[s] = [asked |-> sends[s].asked, refused |-> sends[s].refused,
                           verdict |-> IF Composite!Out(s) # {k} THEN "open"
                                       ELSE IF sends[s].refused = Composite!Children THEN "rejected"
                                       ELSE "resolved"]
<1>1. Composite!Answered(s, k, TRUE) /\ sends[s].refused \cup {} = sends[s].refused
  BY DEF Composite!Delivers
<1>2. CASE strategy = "fallback"
  BY <1>1, <1>2 DEF Composite!Answered, Composite!Ended
<1>3. CASE strategy = "pipeline"
  BY <1>1, <1>3 DEF Composite!Answered, Composite!Ended
<1>4. CASE strategy = "broadcast"
  BY <1>1, <1>4 DEF Composite!Answered, Composite!Ended
<1> QED
  BY <1>2, <1>3, <1>4 DEF CompositeTyped, Composite!Strategies

LEMMA CompositeRefused ==
  ASSUME CompositeTyped, NEW s \in DOMAIN sends, NEW k \in Composite!Children, Composite!Refuses(s, k)
  PROVE  /\ sends'[s].refused = sends[s].refused \cup {k}
         /\ strategy = "fallback" =>
              sends'[s] = [asked |-> IF k < Kids THEN sends[s].asked \cup {k + 1}
                                     ELSE sends[s].asked,
                           refused |-> sends[s].refused \cup {k},
                           verdict |-> IF k < Kids THEN "open" ELSE "rejected"]
         /\ strategy = "pipeline" =>
              sends'[s] = [asked |-> sends[s].asked, refused |-> sends[s].refused \cup {k},
                           verdict |-> "rejected"]
         /\ strategy = "broadcast" =>
              sends'[s] = [asked |-> sends[s].asked, refused |-> sends[s].refused \cup {k},
                           verdict |-> IF Composite!Out(s) # {k} THEN "open"
                                       ELSE IF sends[s].refused \cup {k} = Composite!Children
                                            THEN "rejected" ELSE "resolved"]
<1>1. Composite!Answered(s, k, FALSE)
  BY DEF Composite!Refuses
<1>2. CASE strategy = "fallback"
  BY <1>1, <1>2 DEF Composite!Answered, Composite!Ended
<1>3. CASE strategy = "pipeline"
  BY <1>1, <1>3 DEF Composite!Answered, Composite!Ended
<1>4. CASE strategy = "broadcast"
  BY <1>1, <1>4 DEF Composite!Answered, Composite!Ended
<1> QED
  BY <1>2, <1>3, <1>4 DEF CompositeTyped, Composite!Strategies

LEMMA CompositeSends ==
  ASSUME CompositeBounds, CompositeInv, Composite!Send
  PROVE  CompositeInv'
<1> DEFINE new == [asked |-> IF strategy = "broadcast" THEN Composite!Children ELSE {1},
                   refused |-> {}, verdict |-> "open"]
<1>0. PICK n \in Nat : n = Len(sends) /\ DOMAIN sends = 1 .. n
  BY DEF CompositeInv, CompositeTyped
<1>1. /\ sends' = Append(sends, new) /\ Len(sends) + 1 <= MaxSends
      /\ UNCHANGED <<strategy, status, kids, call, overlap, took>>
  BY DEF Composite!Send, Composite!New
<1>2. 1 \in Composite!Children /\ new \in SendRecords
  BY DEF CompositeBounds, Composite!Children, SendRecords
<1>3. sends \in Seq(SendRecords) /\ n \in Nat /\ DOMAIN sends = 1 .. n
  BY <1>0 DEF CompositeInv, CompositeTyped
<1>4. /\ sends' \in Seq(SendRecords) /\ Len(sends') = n + 1 /\ DOMAIN sends' = 1 .. (n + 1)
      /\ \A r \in DOMAIN sends : sends'[r] = sends[r]
      /\ sends'[n + 1] = new
  BY <1>0, <1>1, <1>2, <1>3, AppendProperties
<1>5. DOMAIN sends \subseteq DOMAIN sends' /\ DOMAIN sends' = DOMAIN sends \cup {n + 1}
      /\ n + 1 \notin DOMAIN sends
  BY <1>3, <1>4
<1>6. \A r : Composite!Takers(r)' = Composite!Takers(r)
  BY <1>1 DEF Composite!Takers
<1>7. Composite!Takers(n + 1) = {}
  BY <1>5 DEF Composite!Takers, CompositeInv, CompositeTyped
<1>8. CompositeTyped'
  BY <1>0, <1>1, <1>4, <1>5 DEF CompositeInv, CompositeTyped
<1>9. \A r \in DOMAIN sends : SendAt(r)' <=> SendAt(r)
  BY <1>1, <1>4, <1>6 DEF SendAt, FallbackAt, PipelineAt, BroadcastAt
<1>10. SendAt(n + 1)'
  <2>1. /\ sends'[n + 1].verdict = "open" /\ sends'[n + 1].refused = {}
        /\ sends'[n + 1].asked = IF strategy = "broadcast" THEN Composite!Children ELSE {1}
        /\ Composite!Takers(n + 1)' = {} /\ strategy' = strategy
    BY <1>1, <1>4, <1>6, <1>7
  <2>2. {1} = 1 .. 1 /\ 1 .. (1 - 1) = {}
    OBVIOUS
  <2>3. CASE strategy = "fallback"
    BY <1>2, <2>1, <2>2, <2>3 DEF SendAt, FallbackAt
  <2>4. CASE strategy = "pipeline"
    BY <1>2, <2>1, <2>2, <2>4 DEF SendAt, PipelineAt
  <2>5. CASE strategy = "broadcast"
    BY <1>2, <2>1, <2>2, <2>5 DEF SendAt, BroadcastAt
  <2> QED
    BY <2>3, <2>4, <2>5 DEF CompositeInv, CompositeTyped, Composite!Strategies
<1>11. SendsGoOn'
  <2>1. ASSUME NEW r \in DOMAIN sends
        PROVE  sends'[r].refused \subseteq sends'[r].asked /\ SendAt(r)'
    BY <1>4, <1>9 DEF SendsGoOn, CompositeInv
  <2>2. sends'[n + 1].refused \subseteq sends'[n + 1].asked
    BY <1>4
  <2> QED
    BY <1>5, <1>10, <2>1, <2>2 DEF SendsGoOn
<1>12. CallsTakeTurns'
  BY <1>1 DEF CompositeInv, CallsTakeTurns
<1> QED
  BY <1>8, <1>11, <1>12 DEF CompositeInv

LEMMA CompositeAnswered ==
  ASSUME CompositeBounds, CompositeInv, NEW s \in DOMAIN sends, NEW k \in Composite!Children,
         Composite!Delivers(s, k) \/ Composite!Refuses(s, k)
  PROVE  CompositeInv'
<1>0. PICK sentTo, refused : sentTo = sends[s].asked /\ refused = sends[s].refused
  OBVIOUS
<1>1. CompositeTyped /\ SendAt(s) /\ refused \subseteq sentTo /\ Kids \in Nat
  BY <1>0 DEF CompositeInv, SendsGoOn, CompositeBounds
<1>2. /\ strategy' = strategy /\ UNCHANGED <<status, kids, call, overlap>>
      /\ DOMAIN sends' = DOMAIN sends /\ Len(sends') = Len(sends)
      /\ \A r \in DOMAIN sends : r # s => sends'[r] = sends[r] /\ Composite!Takers(r)' = Composite!Takers(r)
      /\ Composite!Delivers(s, k) => Composite!Takers(s)' = Composite!Takers(s) \cup {k}
      /\ ~Composite!Delivers(s, k) => Composite!Takers(s)' = Composite!Takers(s) /\ took' = took
      /\ took' \in [Composite!Children -> SUBSET (DOMAIN sends)]
  BY <1>1, CompositeAnswers
<1>4. sends[s].verdict = "open" /\ k \in Composite!Out(s)
  BY DEF Composite!Delivers, Composite!Refuses, Composite!Goes
<1>5. k \in sentTo /\ k \notin refused /\ k \notin Composite!Takers(s)
  BY <1>0, <1>4 DEF Composite!Out, Composite!Takers
<1>6. sends[s] \in SendRecords
  BY <1>1 DEF CompositeTyped
<1>7. k \in Nat /\ 1 <= k /\ k <= Kids /\ (k < Kids => k + 1 \in Composite!Children)
  BY <1>1 DEF Composite!Children
<1>8. sentTo \subseteq Composite!Children /\ refused \subseteq Composite!Children
  BY <1>0, <1>6 DEF SendRecords
<1>13. Composite!Out(s) = {j \in sentTo : j \notin refused /\ j \notin Composite!Takers(s)}
  BY <1>0, <1>8 DEF Composite!Out, Composite!Takers
<1>15. /\ sends'[s] \in SendRecords /\ sends'[s].refused \subseteq sends'[s].asked
       /\ SendAt(s)'
  <2>1. CASE strategy = "fallback"
    <3>1. FallbackAt(s)
      BY <1>1, <2>1 DEF SendAt
    <3>2. PICK m \in Composite!Children : sentTo = 1 .. m /\ refused = 1 .. (m - 1) /\ Composite!Takers(s) = {}
      BY <1>0, <1>4, <3>1 DEF FallbackAt
    <3>3. m = k
      BY <1>1, <1>5, <1>7, <3>2 DEF Composite!Children
    <3>4. sentTo = 1 .. k /\ refused = 1 .. (k - 1)
      BY <3>2, <3>3
    <3>6. CASE Composite!Delivers(s, k)
      <4>1. sends'[s] = [asked |-> sentTo, refused |-> refused, verdict |-> "resolved"]
        BY <1>0, <1>1, <2>1, <3>6, CompositeDelivered
      <4>2. Composite!Takers(s)' = {k}
        BY <1>2, <3>2, <3>6
      <4> QED
        BY <1>1, <1>2, <1>8, <2>1, <4>1, <4>2 DEF SendAt, FallbackAt, SendRecords
    <3>7. CASE ~Composite!Delivers(s, k)
      <4>1. sends'[s] = [asked |-> IF k < Kids THEN sentTo \cup {k + 1} ELSE sentTo,
                         refused |-> refused \cup {k},
                         verdict |-> IF k < Kids THEN "open" ELSE "rejected"]
        BY <1>0, <1>1, <2>1, <3>7, CompositeRefused
      <4>2. refused \cup {k} = 1 .. k /\ Composite!Takers(s)' = {}
        BY <1>2, <1>7, <3>2, <3>4, <3>7
      <4>3. CASE k < Kids
        <5>1. sentTo \cup {k + 1} = 1 .. (k + 1) /\ (k + 1) - 1 = k /\ k + 1 \in Composite!Children
          BY <1>7, <3>4, <4>3
        <5>2. sends'[s] = [asked |-> 1 .. (k + 1), refused |-> 1 .. ((k + 1) - 1),
                           verdict |-> "open"]
          BY <4>1, <4>2, <4>3, <5>1
        <5>3. 1 .. (k + 1) \subseteq Composite!Children /\ 1 .. ((k + 1) - 1) \subseteq 1 .. (k + 1)
          BY <1>1, <1>7, <4>3 DEF Composite!Children
        <5>4. FallbackAt(s)'
          BY <4>2, <5>1, <5>2 DEF FallbackAt
        <5> QED
          BY <1>2, <2>1, <5>2, <5>3, <5>4 DEF SendAt, SendRecords
      <4>4. CASE ~(k < Kids)
        <5>1. sends'[s] = [asked |-> sentTo, refused |-> refused \cup {k},
                           verdict |-> "rejected"]
          BY <4>1, <4>4
        <5> QED
          BY <1>1, <1>2, <1>5, <1>8, <2>1, <4>2, <5>1 DEF SendAt, FallbackAt, SendRecords
      <4> QED
        BY <4>3, <4>4
    <3> QED
      BY <3>6, <3>7
  <2>2. CASE strategy = "pipeline"
    <3>1. PipelineAt(s)
      BY <1>1, <2>2 DEF SendAt
    <3>2. PICK m \in Composite!Children : sentTo = 1 .. m /\ refused = {} /\ Composite!Takers(s) = 1 .. (m - 1)
      BY <1>0, <1>4, <3>1 DEF PipelineAt
    <3>3. m = k
      BY <1>1, <1>5, <1>7, <3>2 DEF Composite!Children
    <3>4. sentTo = 1 .. k /\ Composite!Takers(s) = 1 .. (k - 1) /\ refused = {}
      BY <3>2, <3>3
    <3>6. CASE ~Composite!Delivers(s, k)
      <4>1. sends'[s] = [asked |-> sentTo, refused |-> refused \cup {k}, verdict |-> "rejected"]
        BY <1>0, <1>1, <2>2, <3>6, CompositeRefused
      <4>2. PipelineAt(s)'
        BY <1>2, <3>4, <3>6, <4>1 DEF PipelineAt
      <4> QED
        BY <1>1, <1>2, <1>5, <1>8, <2>2, <4>1, <4>2 DEF SendAt, SendRecords
    <3>7. CASE Composite!Delivers(s, k)
      <4>1. sends'[s] = [asked |-> IF k < Kids THEN sentTo \cup {k + 1} ELSE sentTo,
                         refused |-> refused,
                         verdict |-> IF k < Kids THEN "open" ELSE "resolved"]
        BY <1>0, <1>1, <2>2, <3>7, CompositeDelivered
      <4>2. Composite!Takers(s)' = 1 .. k
        <5>1. (1 .. (k - 1)) \cup {k} = 1 .. k
          BY <1>7
        <5> QED
          BY <1>2, <3>4, <3>7, <5>1
      <4>3. CASE k < Kids
        <5>1. sentTo \cup {k + 1} = 1 .. (k + 1) /\ (k + 1) - 1 = k /\ k + 1 \in Composite!Children
          BY <1>7, <3>4, <4>3
        <5>2. sends'[s] = [asked |-> 1 .. (k + 1), refused |-> {}, verdict |-> "open"]
          BY <3>4, <4>1, <4>3, <5>1
        <5>3. 1 .. (k + 1) \subseteq Composite!Children
          BY <1>1, <1>7, <4>3 DEF Composite!Children
        <5>4. PipelineAt(s)'
          BY <4>2, <5>1, <5>2 DEF PipelineAt
        <5> QED
          BY <1>2, <2>2, <5>2, <5>3, <5>4 DEF SendAt, SendRecords
      <4>4. CASE ~(k < Kids)
        <5>1. sends'[s] = [asked |-> sentTo, refused |-> refused, verdict |-> "resolved"]
          BY <4>1, <4>4
        <5>2. Composite!Takers(s)' = Composite!Children
          BY <1>1, <1>7, <4>2, <4>4 DEF Composite!Children
        <5>3. PipelineAt(s)'
          BY <5>1, <5>2 DEF PipelineAt
        <5> QED
          BY <1>1, <1>2, <1>8, <2>2, <5>1, <5>3 DEF SendAt, SendRecords
      <4> QED
        BY <4>3, <4>4
    <3> QED
      BY <3>6, <3>7
  <2>3. CASE strategy = "broadcast"
    <3>1. BroadcastAt(s)
      BY <1>1, <2>3 DEF SendAt
    <3>2. sentTo = Composite!Children /\ Composite!Takers(s) \cap refused = {} /\ Composite!Takers(s) \subseteq Composite!Children
      BY <1>0, <3>1 DEF BroadcastAt, Composite!Takers
    <3>3. CASE Composite!Delivers(s, k)
      <4>1. sends'[s] = [asked |-> sentTo, refused |-> refused,
                         verdict |-> IF Composite!Out(s) # {k} THEN "open"
                                     ELSE IF refused = Composite!Children THEN "rejected"
                                     ELSE "resolved"]
        BY <1>0, <1>1, <2>3, <3>3, CompositeDelivered
      <4>2. Composite!Takers(s)' = Composite!Takers(s) \cup {k} /\ refused # Composite!Children
        BY <1>2, <1>5, <3>3
      <4>3. /\ sends'[s].asked = Composite!Children /\ sends'[s].refused = refused
            /\ sends'[s].verdict \in {"open", "resolved"}
        BY <3>2, <4>1, <4>2
      <4>4. BroadcastAt(s)'
        BY <1>5, <3>2, <4>2, <4>3 DEF BroadcastAt
      <4>5. sends'[s] \in SendRecords
        BY <1>8, <4>1 DEF SendRecords
      <4> QED
        BY <1>1, <1>2, <2>3, <3>2, <4>3, <4>4, <4>5 DEF SendAt
    <3>4. CASE ~Composite!Delivers(s, k)
      <4>1. sends'[s] = [asked |-> sentTo, refused |-> refused \cup {k},
                         verdict |-> IF Composite!Out(s) # {k} THEN "open"
                                     ELSE IF refused \cup {k} = Composite!Children THEN "rejected"
                                     ELSE "resolved"]
        BY <1>0, <1>1, <2>3, <3>4, CompositeRefused
      <4>2. Composite!Takers(s)' = Composite!Takers(s)
        BY <1>2, <3>4
      <4>3. /\ sends'[s].asked = Composite!Children /\ sends'[s].refused = refused \cup {k}
            /\ sends'[s].verdict = "rejected" => refused \cup {k} = Composite!Children
            /\ sends'[s].verdict = "resolved" => Composite!Out(s) = {k} /\ refused \cup {k} # Composite!Children
        BY <3>2, <4>1
      <4>4. refused \cup {k} = Composite!Children => Composite!Takers(s) = {}
        BY <1>5, <3>2
      <4>5. Composite!Out(s) = {k} /\ refused \cup {k} # Composite!Children => Composite!Takers(s) # {}
        <5> SUFFICES ASSUME Composite!Out(s) = {k}, refused \cup {k} # Composite!Children
                     PROVE  Composite!Takers(s) # {}
          OBVIOUS
        <5>1. PICK j \in Composite!Children : j \notin refused \cup {k}
          BY <1>8, <1>5, <3>2
        <5>2. j \in Composite!Takers(s)
          BY <1>13, <3>2, <5>1
        <5> QED
          BY <5>2
      <4>6. BroadcastAt(s)'
        BY <1>5, <3>2, <4>2, <4>3, <4>4, <4>5 DEF BroadcastAt
      <4>7. sends'[s] \in SendRecords
        BY <1>5, <1>8, <4>1 DEF SendRecords
      <4> QED
        BY <1>1, <1>2, <1>5, <2>3, <3>2, <4>3, <4>6, <4>7 DEF SendAt
    <3> QED
      BY <3>3, <3>4
  <2> QED
    BY <1>1, <2>1, <2>2, <2>3 DEF CompositeTyped, Composite!Strategies
<1>16. \A r \in DOMAIN sends : r # s => (SendAt(r)' <=> SendAt(r))
  BY <1>2 DEF SendAt, FallbackAt, PipelineAt, BroadcastAt
<1>17. SendsGoOn'
  BY <1>2, <1>15, <1>16 DEF SendsGoOn, CompositeInv
<1>18. sends' \in Seq(SendRecords)
  <2>1. \A r \in DOMAIN sends : sends'[r] \in SendRecords
    BY <1>1, <1>2, <1>15 DEF CompositeTyped
  <2>2. PICK record : sends' = [sends EXCEPT ![s] = record]
    BY <1>1 DEF Composite!Delivers, Composite!Refuses, Composite!Answered, Composite!Ended, CompositeTyped, Composite!Strategies
  <2>3. record \in SendRecords
    BY <1>1, <2>1, <2>2 DEF CompositeTyped
  <2> QED
    BY <1>1, <2>2, <2>3 DEF CompositeTyped
<1>19. CompositeTyped'
  BY <1>1, <1>2, <1>18 DEF CompositeTyped
<1>20. CallsTakeTurns'
  BY <1>2 DEF CompositeInv, CallsTakeTurns
<1> QED
  BY <1>17, <1>19, <1>20 DEF CompositeInv

LEMMA CompositeGoesOn == CompositeBounds /\ CompositeInv /\ [Composite!Next]_Composite!vars => CompositeInv'
<1> SUFFICES ASSUME CompositeBounds, CompositeInv, [Composite!Next]_Composite!vars PROVE CompositeInv'
  OBVIOUS
<1>1. CASE UNCHANGED Composite!vars
  <2>1. SendsGoOn' <=> SendsGoOn
    BY <1>1 DEF Composite!vars, SendsGoOn, SendAt, FallbackAt, PipelineAt, BroadcastAt, Composite!Takers
  <2> QED
    BY <1>1, <2>1 DEF Composite!vars, CompositeInv, CompositeTyped, CallsTakeTurns
<1>2. CASE \/ \E c \in {"connect", "disconnect"} : Composite!Begin(c)
           \/ \E k \in Composite!Children : Composite!KidConnects(k) \/ Composite!KidFails(k)
                                  \/ \E gone \in BOOLEAN : Composite!KidDisconnects(k, gone)
  <2>1. CompositeTyped' /\ CallsTakeTurns' /\ Composite!UnchangedSends
    BY <1>2, CompositeConnects DEF CompositeInv
  <2>2. SendsGoOn' <=> SendsGoOn
    BY <2>1 DEF Composite!UnchangedSends, SendsGoOn, SendAt, FallbackAt, PipelineAt, BroadcastAt, Composite!Takers
  <2> QED
    BY <2>1, <2>2 DEF CompositeInv
<1>3. CASE Composite!Send
  BY <1>3, CompositeSends
<1>4. ASSUME NEW s \in DOMAIN sends, NEW k \in Composite!Children, Composite!Delivers(s, k) \/ Composite!Refuses(s, k)
      PROVE  CompositeInv'
  BY <1>4, CompositeAnswered
<1> QED
  BY <1>1, <1>2, <1>3, <1>4 DEF Composite!Next

LEMMA CompositeSaysTrue == CompositeBounds /\ CompositeInv => Composite!TypeOK /\ Composite!CompositeIsTrue
<1> SUFFICES ASSUME CompositeBounds, CompositeInv PROVE Composite!TypeOK /\ Composite!CompositeIsTrue
  OBVIOUS
<1>1. Composite!TypeOK
  <2>1. \A s \in DOMAIN sends : sends[s] \in SendRecords
    BY DEF CompositeInv, CompositeTyped
  <2>2. DOMAIN sends \subseteq 1 .. MaxSends
    BY DEF CompositeInv, CompositeTyped, CompositeBounds
  <2>3. took \in [Composite!Children -> SUBSET (1 .. MaxSends)]
    BY <2>2 DEF CompositeInv, CompositeTyped
  <2> QED
    BY <2>1, <2>3 DEF CompositeInv, CompositeTyped, SendsGoOn, SendRecords, Composite!TypeOK
<1>2. Composite!ConnectedMeansAll
  BY DEF CompositeInv, CallsTakeTurns, Composite!ConnectedMeansAll
<1>3. Composite!VerdictsAreTrue
  <2> SUFFICES ASSUME NEW s \in DOMAIN sends
               PROVE  /\ strategy = "fallback" =>
                           /\ Cardinality(Composite!Takers(s)) <= 1
                           /\ sends[s].verdict = "resolved" <=> Composite!Takers(s) # {}
                      /\ strategy = "pipeline" =>
                           /\ \A k \in Composite!Takers(s), j \in Composite!Children : j < k => j \in Composite!Takers(s)
                           /\ sends[s].verdict = "resolved" <=> Composite!Takers(s) = Composite!Children
                      /\ strategy = "broadcast" =>
                           /\ sends[s].verdict = "resolved" => Composite!Takers(s) # {}
                           /\ sends[s].verdict = "rejected" => Composite!Takers(s) = {}
    BY SameCounts
       DEF Composite!VerdictsAreTrue, CompositeInv, CompositeTyped, Composite!Strategies
  <2>1. SendAt(s)
    BY DEF CompositeInv, SendsGoOn
  <2>2. CASE strategy = "fallback"
    <3>1. FallbackAt(s)
      BY <2>1, <2>2 DEF SendAt
    <3>2. sends[s].verdict = "resolved" <=> Composite!Takers(s) # {}
      BY <3>1 DEF FallbackAt
    <3>3. Composite!Takers(s) = {} \/ \E m : Composite!Takers(s) = {m}
      BY <3>1 DEF FallbackAt
    <3>4. Cardinality(Composite!Takers(s)) <= 1
      <4>1. CASE Composite!Takers(s) = {}
        BY <4>1, FS_EmptySet
      <4>2. ASSUME NEW m, Composite!Takers(s) = {m} PROVE Cardinality(Composite!Takers(s)) <= 1
        <5>1. Cardinality({m}) = 1
          BY FS_Singleton
        <5> QED
          BY <4>2, <5>1
      <4> QED
        BY <3>3, <4>1, <4>2
    <3> QED
      BY <2>2, <3>2, <3>4
  <2>3. CASE strategy = "pipeline"
    <3>1. PipelineAt(s)
      BY <2>1, <2>3 DEF SendAt
    <3>2. Kids \in Nat /\ Composite!Children = 1 .. Kids
      BY DEF CompositeBounds, Composite!Children
    <3>3. \A m \in Composite!Children : 1 .. (m - 1) # Composite!Children
      <4> SUFFICES ASSUME NEW m \in Composite!Children PROVE m \notin 1 .. (m - 1)
        OBVIOUS
      <4> QED
        BY <3>2
    <3>4. sends[s].verdict = "resolved" <=> Composite!Takers(s) = Composite!Children
      BY <3>1, <3>3 DEF PipelineAt
    <3>5. Composite!Takers(s) = Composite!Children \/ \E m \in Composite!Children : Composite!Takers(s) = 1 .. (m - 1)
      BY <3>1 DEF PipelineAt
    <3>6. \A k \in Composite!Takers(s), j \in Composite!Children : j < k => j \in Composite!Takers(s)
      BY <3>2, <3>5
    <3> QED
      BY <2>3, <3>4, <3>6
  <2>4. CASE strategy = "broadcast"
    BY <2>1, <2>4 DEF SendAt, BroadcastAt
  <2> QED
    BY <2>2, <2>3, <2>4
<1> QED
  BY <1>1, <1>2, <1>3 DEF Composite!CompositeIsTrue

\* What a send through a composite says is what became of the message, and a composite that
\* says it is connected has all its children connected (composite-channel.ts): of any number
\* of children, sends, connects and refusals.
THEOREM CompositeTellsTruth ==
    ASSUME CompositeBounds PROVE Composite!Spec => [](Composite!TypeOK /\ Composite!CompositeIsTrue)
<1>1. Composite!Init => CompositeInv
  BY CompositeBegins
<1>2. CompositeInv /\ [Composite!Next]_Composite!vars => CompositeInv'
  BY CompositeGoesOn
<1>3. CompositeInv => Composite!TypeOK /\ Composite!CompositeIsTrue
  BY CompositeSaysTrue
<1> QED
  BY <1>1, <1>2, <1>3, PTL DEF Composite!Spec


\* A window lasts and the limits are numbers; the agent is none of its targets.
LimitBounds ==
    /\ AgentLimit \in Nat /\ TargetLimit \in Nat /\ LimitWindow \in Nat \ {0} /\ MaxNow \in Nat
    /\ Limiters!Whole \notin Targets

Checks == [at : Nat, target : Targets, ok : BOOLEAN]

\* Every set of numbers that is not empty has a smallest one.
LEMMA LeastNumber ==
    ASSUME NEW T \in SUBSET Nat, T # {}
    PROVE  \E n \in T : \A m \in T : n <= m
<1> DEFINE R == {ss \in Nat \X Nat : ss[1] < ss[2]}
<1>1. \A m, n \in Nat : <<m, n>> \in R <=> m < n
  OBVIOUS
<1>2. IsWellFoundedOn(R, Nat)
  BY NatLessThanWellFounded DEF OpToRel
<1> HIDE DEF R
<1>3. PICK n \in T : \A m \in T : ~(<<m, n>> \in R)
  BY <1>2, WFMin
<1>4. ASSUME NEW m \in T PROVE n <= m
  <2>1. m \in Nat /\ n \in Nat
    OBVIOUS
  <2>2. ~(m < n)
    BY <1>1, <1>3, <2>1
  <2> QED
    BY <2>1, <2>2
<1> QED
  BY <1>4

LEMMA LimitIsNumber == ASSUME LimitBounds, NEW key \in Limiters!Keys PROVE Limiters!Limit(key) \in Nat
BY DEF LimitBounds, Limiters!Limit

-----------------------------------------------------------------------------
(* What is counted in a log. *)

\* The counted checks are finitely many.
LEMMA CountedIsFinite ==
    ASSUME NEW log, NEW n \in Nat, NEW key, NEW since
    PROVE  /\ IsFiniteSet(Limiters!Counted(log, n, key, since))
           /\ Cardinality(Limiters!Counted(log, n, key, since)) \in Nat
<1>1. Limiters!Counted(log, n, key, since) \in SUBSET (1..n)
  BY DEF Limiters!Counted
<1>2. IsFiniteSet(1..n)
  BY FS_Interval
<1>3. IsFiniteSet(Limiters!Counted(log, n, key, since))
  BY <1>1, <1>2, FS_Subset
<1> QED
  BY <1>3, FS_CardinalityType

\* A check adds itself to what is counted, if it was accepted, for its agent and target.
LEMMA CountedAppend ==
    ASSUME NEW log \in Seq(Checks), NEW c \in Checks, NEW key, NEW since \in Int
    PROVE  /\ \A n \in 0..Len(log) :
                 Limiters!Counted(Append(log, c), n, key, since) = Limiters!Counted(log, n, key, since)
           /\ Cardinality(Limiters!Counted(Append(log, c), Len(log) + 1, key, since)) =
                 Cardinality(Limiters!Counted(log, Len(log), key, since))
                 + (IF c.ok /\ c.at > since /\ key \in {Limiters!Whole, c.target} THEN 1 ELSE 0)
<1>1. PICK len \in Nat : len = Len(log)
  OBVIOUS
<1>2. PICK new : new = Append(log, c)
  OBVIOUS
<1>3. new[len + 1] = c /\ \A i \in 1..len : new[i] = log[i]
  BY <1>1, <1>2, AppendProperties
<1>4. ASSUME NEW n \in 0..len PROVE Limiters!Counted(new, n, key, since) = Limiters!Counted(log, n, key, since)
  <2>1. \A k \in 1..n : k \in 1..len
    BY <1>1
  <2> QED
    BY <1>3, <2>1 DEF Limiters!Counted
<1>5. Limiters!Counted(new, len + 1, key, since) =
         Limiters!Counted(log, len, key, since)
         \cup (IF c.ok /\ c.at > since /\ key \in {Limiters!Whole, c.target} THEN {len + 1} ELSE {})
  <2>1. 1..(len + 1) = 1..len \cup {len + 1} /\ len + 1 \notin 1..len
    BY <1>1
  <2> QED
    BY <1>3, <2>1 DEF Limiters!Counted
<1>6. len + 1 \notin Limiters!Counted(log, len, key, since)
  <2>1. len + 1 \notin 1..len
    BY <1>1
  <2> QED
    BY <2>1 DEF Limiters!Counted
<1>7. /\ IsFiniteSet(Limiters!Counted(log, len, key, since))
      /\ Cardinality(Limiters!Counted(log, len, key, since)) \in Nat
  BY <1>1, CountedIsFinite
<1>8. CASE c.ok /\ c.at > since /\ key \in {Limiters!Whole, c.target}
  <2>1. Cardinality(Limiters!Counted(new, len + 1, key, since)) =
           Cardinality(Limiters!Counted(log, len, key, since)) + 1
    BY <1>5, <1>6, <1>7, <1>8, FS_AddElement
  <2> QED
    BY <1>1, <1>2, <1>4, <1>8, <2>1
<1>9. CASE ~(c.ok /\ c.at > since /\ key \in {Limiters!Whole, c.target})
  <2>1. Limiters!Counted(new, len + 1, key, since) = Limiters!Counted(log, len, key, since)
    BY <1>5, <1>9
  <2> QED
    BY <1>1, <1>2, <1>4, <1>7, <1>9, <2>1
<1> QED
  BY <1>8, <1>9

\* What was counted stays so.
LEMMA CountedBefore ==
    ASSUME NEW log \in Seq(Checks), NEW c \in Checks, NEW n \in 0..Len(log), NEW key, NEW since
    PROVE  Limiters!Counted(Append(log, c), n, key, since) = Limiters!Counted(log, n, key, since)
<1>1. \A k \in 1..n : k \in 1..Len(log) /\ Append(log, c)[k] = log[k]
  BY AppendProperties
<1> QED
  BY <1>1 DEF Limiters!Counted

-----------------------------------------------------------------------------
(* The sliding windows. *)

\* The stamps later than a time.
Since(s, t) == {i \in DOMAIN s : s[i] > t}

Ascending(s) == \A i, j \in DOMAIN s : i <= j => s[i] <= s[j]

LEMMA SinceIsFinite ==
    ASSUME NEW s \in Seq(Nat), NEW t
    PROVE  IsFiniteSet(Since(s, t)) /\ Cardinality(Since(s, t)) \in Nat
<1>1. Len(s) \in Nat /\ Since(s, t) \in SUBSET (1..Len(s))
  BY DEF Since
<1>2. IsFiniteSet(1..Len(s))
  BY <1>1, FS_Interval
<1>3. IsFiniteSet(Since(s, t))
  BY <1>1, <1>2, FS_Subset
<1> QED
  BY <1>3, FS_CardinalityType

\* What is trimmed off has expired, and what is left has not.
LEMMA TrimmedKeeps ==
    ASSUME NEW s \in Seq(Nat), Ascending(s), now \in Nat, LimitBounds
    PROVE  \E n \in 0..Len(s) :
              /\ Limiters!Trimmed(s) = SubSeq(s, n + 1, Len(s))
              /\ \A i \in 1..n : s[i] <= now - LimitWindow
              /\ \A i \in (n + 1)..Len(s) : s[i] > now - LimitWindow
<1>1. PICK len \in Nat : len = Len(s) /\ DOMAIN s = 1..len
  OBVIOUS
<1> DEFINE kept == {k \in 1..(len + 1) : k = len + 1 \/ ~Limiters!Expired(s[k])}
           first == CHOOSE k \in kept : \A j \in kept : k <= j
<1>2. kept \in SUBSET Nat /\ len + 1 \in kept
  OBVIOUS
<1>3. \E k \in kept : \A j \in kept : k <= j
  BY <1>2, LeastNumber
<1>4. first \in kept /\ \A j \in kept : first <= j
  BY <1>3
<1>5. Limiters!Trimmed(s) = SubSeq(s, first, len)
  BY <1>1 DEF Limiters!Trimmed
<1>6. PICK m \in 1..(len + 1) : m = first
  BY <1>4
<1>7. m - 1 \in 0..len /\ (m - 1) + 1 = m
  OBVIOUS
<1>8. \A i \in 1..len : s[i] \in Nat
  BY <1>1, ElementOfSeq
<1>9. ASSUME NEW i \in 1..(m - 1) PROVE s[i] <= now - LimitWindow
  <2>1. i \notin kept /\ i \in 1..len
    <3>1. i \in Nat /\ i < m /\ i \in 1..len
      OBVIOUS
    <3>2. \A j \in kept : m <= j
      BY <1>4, <1>6
    <3> QED
      BY <3>1, <3>2
  <2>2. Limiters!Expired(s[i])
    <3>1. i \in 1..(len + 1)
      BY <2>1
    <3> QED
      BY <2>1, <3>1
  <2> QED
    BY <2>2 DEF Limiters!Expired
<1>10. ASSUME NEW i \in m..len PROVE s[i] > now - LimitWindow
  <2>1. m \in 1..len /\ i \in 1..len /\ m # len + 1
    OBVIOUS
  <2>2. ~Limiters!Expired(s[m])
    BY <1>4, <1>6, <2>1
  <2>3. s[m] <= s[i]
    BY <1>1, <2>1 DEF Ascending
  <2>4. s[m] \in Nat /\ s[i] \in Nat /\ now - LimitWindow \in Int
    BY <1>8, <2>1 DEF LimitBounds
  <2> QED
    BY <2>2, <2>3, <2>4 DEF Limiters!Expired
<1> QED
  BY <1>1, <1>5, <1>6, <1>7, <1>9, <1>10

\* Trimming is invisible to counts in the window, and counts what is in it.
LEMMA TrimmedCounts ==
    ASSUME NEW s \in Seq(Nat), Ascending(s), now \in Nat, LimitBounds
    PROVE  /\ Limiters!Trimmed(s) \in Seq(Nat) /\ Ascending(Limiters!Trimmed(s))
           /\ \A i \in DOMAIN Limiters!Trimmed(s) : \E j \in DOMAIN s : Limiters!Trimmed(s)[i] = s[j]
           /\ Len(Limiters!Trimmed(s)) = Cardinality(Since(s, now - LimitWindow))
           /\ \A t \in Int : t >= now - LimitWindow =>
                 Cardinality(Since(Limiters!Trimmed(s), t)) = Cardinality(Since(s, t))
<1>1. PICK len \in Nat : len = Len(s) /\ DOMAIN s = 1..len
  OBVIOUS
<1>2. PICK n \in 0..len :
              /\ Limiters!Trimmed(s) = SubSeq(s, n + 1, len)
              /\ \A i \in 1..n : s[i] <= now - LimitWindow
              /\ \A i \in (n + 1)..len : s[i] > now - LimitWindow
  BY <1>1, TrimmedKeeps
<1>3. \A i \in 1..len : s[i] \in Nat
  BY <1>1, ElementOfSeq
<1>4. PICK trim : trim = Limiters!Trimmed(s)
  OBVIOUS
<1>5. \A i \in (n + 1)..len : s[i] \in Nat
  BY <1>3
<1>6. /\ trim \in Seq(Nat) /\ Len(trim) = IF n + 1 <= len THEN len - (n + 1) + 1 ELSE 0
      /\ \A i \in 1..(len - (n + 1) + 1) : trim[i] = s[(n + 1) + i - 1]
  BY <1>2, <1>4, <1>5, SubSeqProperties
<1>7. len - (n + 1) + 1 = len - n /\ Len(trim) = len - n
  BY <1>6
<1>8. DOMAIN trim = 1..(len - n)
  BY <1>6, <1>7
<1>9. \A i \in 1..(len - n) : trim[i] = s[n + i] /\ n + i \in 1..len
  <2>1. \A i \in 1..(len - n) : (n + 1) + i - 1 = n + i
    OBVIOUS
  <2> QED
    BY <1>6, <1>7, <2>1
<1>10. Ascending(trim)
  <2> SUFFICES ASSUME NEW i \in DOMAIN trim, NEW j \in DOMAIN trim, i <= j
               PROVE  trim[i] <= trim[j]
    BY DEF Ascending
  <2>1. i \in 1..(len - n) /\ j \in 1..(len - n) /\ n + i <= n + j
    BY <1>8
  <2> QED
    BY <1>1, <1>9, <2>1 DEF Ascending
<1>11. ASSUME NEW t \in Int, t >= now - LimitWindow
       PROVE  Cardinality(Since(trim, t)) = Cardinality(Since(s, t))
  <2> DEFINE f == [i \in Since(trim, t) |-> n + i]
  <2>1. \A i \in Since(trim, t) : i \in 1..(len - n) /\ n + i \in Since(s, t)
    BY <1>1, <1>8, <1>9 DEF Since
  <2>2. \A j \in Since(s, t) : j - n \in Since(trim, t) /\ n + (j - n) = j
    <3> SUFFICES ASSUME NEW j \in Since(s, t)
                 PROVE  j - n \in Since(trim, t) /\ n + (j - n) = j
      OBVIOUS
    <3>1. j \in 1..len /\ s[j] > t /\ s[j] \in Nat
      BY <1>1, <1>3 DEF Since
    <3>2. j \notin 1..n
      BY <1>2, <1>11, <3>1 DEF LimitBounds
    <3>3. j - n \in 1..(len - n) /\ n + (j - n) = j
      BY <3>1, <3>2
    <3> QED
      BY <1>8, <1>9, <3>1, <3>3 DEF Since
  <2>3. f \in Bijection(Since(trim, t), Since(s, t))
    <3>1. f \in [Since(trim, t) -> Since(s, t)]
      BY <2>1
    <3>2. \A a, b \in Since(trim, t) : f[a] = f[b] => a = b
      BY <2>1
    <3>3. \A j \in Since(s, t) : \E i \in Since(trim, t) : f[i] = j
      BY <2>2
    <3> QED
      BY <3>1, <3>2, <3>3 DEF Bijection, Injection, Surjection, IsInjective
  <2>4. ExistsBijection(Since(trim, t), Since(s, t))
    BY <2>3 DEF ExistsBijection
  <2>5. IsFiniteSet(Since(trim, t))
    BY <1>6, SinceIsFinite
  <2> QED
    BY <2>4, <2>5, FS_Bijection
<1>12. Len(trim) = Cardinality(Since(s, now - LimitWindow))
  <2>1. now - LimitWindow \in Int
    BY DEF LimitBounds
  <2>2. Since(trim, now - LimitWindow) = 1..(len - n)
    <3>1. \A i \in 1..(len - n) : n + i \in (n + 1)..len
      OBVIOUS
    <3> QED
      BY <1>2, <1>8, <1>9, <3>1 DEF Since
  <2>3. Cardinality(1..(len - n)) = len - n
    BY FS_Interval
  <2> QED
    BY <1>7, <1>11, <2>1, <2>2, <2>3
<1> QED
  BY <1>1, <1>4, <1>6, <1>8, <1>9, <1>10, <1>11, <1>12

\* A stamp of the present time is counted with the others.
LEMMA StampCounts ==
    ASSUME NEW s \in Seq(Nat), Ascending(s), now \in Nat, \A i \in DOMAIN s : s[i] <= now
    PROVE  /\ Append(s, now) \in Seq(Nat) /\ Ascending(Append(s, now))
           /\ \A i \in DOMAIN Append(s, now) : Append(s, now)[i] <= now
           /\ \A t \in Int : Cardinality(Since(Append(s, now), t)) =
                 Cardinality(Since(s, t)) + (IF now > t THEN 1 ELSE 0)
<1>1. PICK len \in Nat : len = Len(s) /\ DOMAIN s = 1..len
  OBVIOUS
<1>2. PICK new : new = Append(s, now)
  OBVIOUS
<1>3. /\ new \in Seq(Nat) /\ Len(new) = len + 1 /\ new[len + 1] = now
      /\ \A i \in 1..len : new[i] = s[i]
  BY <1>1, <1>2, AppendProperties
<1>4. DOMAIN new = 1..(len + 1) /\ 1..(len + 1) = 1..len \cup {len + 1} /\ len + 1 \notin 1..len
  BY <1>3
<1>5. \A i \in 1..len : s[i] \in Nat
  BY <1>1, ElementOfSeq
<1>6. \A i \in DOMAIN new : new[i] <= now
  BY <1>1, <1>3, <1>4
<1>7. Ascending(new)
  <2> SUFFICES ASSUME NEW i \in DOMAIN new, NEW j \in DOMAIN new, i <= j
               PROVE  new[i] <= new[j]
    BY DEF Ascending
  <2>1. CASE j = len + 1
    BY <1>3, <1>6, <2>1
  <2>2. CASE j # len + 1
    <3>1. j \in 1..len /\ i \in 1..len
      BY <1>4, <2>2
    <3> QED
      BY <1>1, <1>3, <3>1 DEF Ascending
  <2> QED
    BY <2>1, <2>2
<1>8. ASSUME NEW t \in Int
      PROVE  Cardinality(Since(new, t)) = Cardinality(Since(s, t)) + (IF now > t THEN 1 ELSE 0)
  <2>1. IsFiniteSet(Since(s, t)) /\ Cardinality(Since(s, t)) \in Nat
    BY SinceIsFinite
  <2>2. len + 1 \notin Since(s, t)
    BY <1>1, <1>4 DEF Since
  <2>3. CASE now > t
    <3>1. Since(new, t) = Since(s, t) \cup {len + 1}
      BY <1>1, <1>3, <1>4, <2>3 DEF Since
    <3> QED
      BY <2>1, <2>2, <2>3, <3>1, FS_AddElement
  <2>4. CASE ~(now > t)
    <3>1. Since(new, t) = Since(s, t)
      BY <1>1, <1>3, <1>4, <2>4 DEF Since
    <3> QED
      BY <2>1, <2>4, <3>1
  <2> QED
    BY <2>3, <2>4
<1> QED
  BY <1>2, <1>3, <1>6, <1>7, <1>8

-----------------------------------------------------------------------------
(* The daemon's inputs. *)

\* A key's stamps are the times at which the log accepted inputs that count for it, but
\* for some that have left the window; and the log is exact.
StampsFollow(key) ==
    /\ stamps[key] \in Seq(Nat) /\ Ascending(stamps[key])
    /\ \A i \in DOMAIN stamps[key] : stamps[key][i] <= now
    /\ \A t \in Int : t >= now - LimitWindow =>
          Cardinality(Since(stamps[key], t)) =
             Cardinality(Limiters!Counted(inputs, Len(inputs), key, t))

SlidingInv ==
    /\ now \in Nat /\ inputs \in Seq(Checks) /\ DOMAIN stamps = Limiters!Keys
    /\ \A key \in Limiters!Keys : StampsFollow(key)
    /\ Limiters!SlidingIsExact

\* Before the first one nothing is stamped and nothing counted.
LEMMA NothingCounted ==
    /\ <<>> \in Seq(Nat) /\ Ascending(<<>>) /\ DOMAIN <<>> = {} /\ Len(<<>>) = 0
    /\ \A t : Since(<<>>, t) = {} /\ \A key : Limiters!Counted(<<>>, 0, key, t) = {}
BY DEF Since, Limiters!Counted, Ascending

\* A key's stamps after an input that counts for it.
StampsOf(key, accepted) ==
    IF accepted THEN Append(Limiters!Trimmed(stamps[key]), now) ELSE Limiters!Trimmed(stamps[key])

LEMMA StampsGoOn ==
    ASSUME LimitBounds, SlidingInv, NEW target \in Targets, NEW accepted \in BOOLEAN,
           NEW check, check = [at |-> now, target |-> target, ok |-> accepted],
           inputs' = Append(inputs, check), now' = now,
           NEW key \in Limiters!Keys,
           \/ key \in {Limiters!Whole, target} /\ stamps'[key] = StampsOf(key, accepted)
           \/ key = target /\ ~accepted /\ stamps'[key] = stamps[key]
           \/ key \notin {Limiters!Whole, target} /\ stamps'[key] = stamps[key]
    PROVE  StampsFollow(key)'
<1>1. /\ now \in Nat /\ now - LimitWindow \in Int /\ check \in Checks /\ inputs \in Seq(Checks)
      /\ now > now - LimitWindow
  BY DEF SlidingInv, LimitBounds, Checks
<1>2. PICK s : s = stamps[key]
  OBVIOUS
<1>3. /\ s \in Seq(Nat) /\ Ascending(s) /\ \A i \in DOMAIN s : s[i] <= now
      /\ \A t \in Int : t >= now - LimitWindow =>
            Cardinality(Since(s, t)) = Cardinality(Limiters!Counted(inputs, Len(inputs), key, t))
  BY <1>2 DEF SlidingInv, StampsFollow
<1>4. /\ Len(inputs') = Len(inputs) + 1
      /\ \A t \in Int :
            Cardinality(Limiters!Counted(inputs', Len(inputs'), key, t)) =
               Cardinality(Limiters!Counted(inputs, Len(inputs), key, t))
               + (IF accepted /\ now > t /\ key \in {Limiters!Whole, target} THEN 1 ELSE 0)
  BY <1>1, CountedAppend, AppendProperties
<1>5. CASE stamps'[key] = s /\ (key \notin {Limiters!Whole, target} \/ ~accepted)
  <2>1. \A t \in Int : Cardinality(Limiters!Counted(inputs, Len(inputs), key, t)) \in Nat
    BY <1>1, CountedIsFinite
  <2>2. \A t \in Int : Cardinality(Limiters!Counted(inputs', Len(inputs'), key, t)) =
                           Cardinality(Limiters!Counted(inputs, Len(inputs), key, t))
    <3> TAKE t \in Int
    <3>1. PICK c \in Nat : c = Cardinality(Limiters!Counted(inputs, Len(inputs), key, t))
      BY <2>1
    <3>2. Cardinality(Limiters!Counted(inputs', Len(inputs'), key, t)) = c + 0
      BY <1>4, <1>5, <3>1
    <3> QED
      BY <3>1, <3>2
  <2> QED
    BY <1>3, <1>5, <2>2 DEF StampsFollow
<1>6. CASE stamps'[key] = StampsOf(key, accepted) /\ key \in {Limiters!Whole, target}
  <2>1. PICK trim : trim = Limiters!Trimmed(s)
    OBVIOUS
  <2>2. /\ trim \in Seq(Nat) /\ Ascending(trim)
        /\ \A i \in DOMAIN trim : \E j \in DOMAIN s : trim[i] = s[j]
        /\ \A t \in Int : t >= now - LimitWindow =>
              Cardinality(Since(trim, t)) = Cardinality(Since(s, t))
    BY <1>1, <1>3, <2>1, TrimmedCounts
  <2>3. \A i \in DOMAIN trim : trim[i] <= now
    BY <1>3, <2>2
  <2>4. CASE accepted
    <3>1. /\ Append(trim, now) \in Seq(Nat) /\ Ascending(Append(trim, now))
          /\ \A i \in DOMAIN Append(trim, now) : Append(trim, now)[i] <= now
          /\ \A t \in Int : Cardinality(Since(Append(trim, now), t)) =
                Cardinality(Since(trim, t)) + (IF now > t THEN 1 ELSE 0)
      BY <1>1, <2>2, <2>3, StampCounts
    <3>2. \A t \in Int : Cardinality(Limiters!Counted(inputs', Len(inputs'), key, t)) =
                Cardinality(Limiters!Counted(inputs, Len(inputs), key, t)) + (IF now > t THEN 1 ELSE 0)
      BY <1>4, <1>6, <2>4
    <3>3. stamps'[key] = Append(trim, now)
      BY <1>2, <1>6, <2>1, <2>4 DEF StampsOf
    <3>4. \A t \in Int : t >= now - LimitWindow =>
            Cardinality(Since(Append(trim, now), t)) =
               Cardinality(Limiters!Counted(inputs', Len(inputs'), key, t))
      BY <1>3, <2>2, <3>1, <3>2
    <3> QED
      BY <3>1, <3>3, <3>4 DEF StampsFollow
  <2>5. CASE ~accepted
    <3>1. stamps'[key] = trim
      BY <1>2, <1>6, <2>1, <2>5 DEF StampsOf
    <3>2. \A t \in Int : Cardinality(Limiters!Counted(inputs, Len(inputs), key, t)) \in Nat
      BY <1>1, CountedIsFinite
    <3>3. \A t \in Int : Cardinality(Limiters!Counted(inputs', Len(inputs'), key, t)) =
                             Cardinality(Limiters!Counted(inputs, Len(inputs), key, t))
      BY <1>4, <2>5, <3>2
    <3> QED
      BY <1>3, <2>2, <2>3, <3>1, <3>3 DEF StampsFollow
  <2> QED
    BY <2>4, <2>5
<1> QED
  BY <1>2, <1>5, <1>6

LEMMA InputKeeps ==
    ASSUME LimitBounds, SlidingInv, NEW target \in Targets, Limiters!Input(target)
    PROVE  SlidingInv'
<1>0. PICK whole, own : whole = Limiters!Trimmed(stamps[Limiters!Whole]) /\ own = Limiters!Trimmed(stamps[target])
  OBVIOUS
<1>1. PICK ofAgent \in BOOLEAN : ofAgent <=> Len(whole) < AgentLimit
  <2>1. CASE Len(whole) < AgentLimit
    BY <2>1
  <2>2. CASE ~(Len(whole) < AgentLimit)
    BY <2>2
  <2> QED
    BY <2>1, <2>2
<1>2. PICK accepted \in BOOLEAN : accepted <=> ofAgent /\ Len(own) < TargetLimit
  <2>1. CASE ofAgent /\ Len(own) < TargetLimit
    BY <2>1
  <2>2. CASE ~(ofAgent /\ Len(own) < TargetLimit)
    BY <2>2
  <2> QED
    BY <2>1, <2>2
<1>3. PICK check : check = [at |-> now, target |-> target, ok |-> accepted]
  OBVIOUS
<1>4. Limiters!Whole \in Limiters!Keys /\ target \in Limiters!Keys /\ target # Limiters!Whole
  BY DEF Limiters!Keys, LimitBounds
<1>5. /\ stamps' = [stamps EXCEPT ![Limiters!Whole] = IF accepted THEN Append(whole, now) ELSE whole,
                                  ![target] = IF accepted THEN Append(own, now)
                                              ELSE IF ofAgent THEN own ELSE stamps[target]]
      /\ inputs' = Append(inputs, check) /\ now' = now
  BY <1>0, <1>1, <1>2, <1>3, <1>4 DEF Limiters!Input, SlidingInv
<1>6. DOMAIN stamps = Limiters!Keys /\ now \in Nat /\ inputs \in Seq(Checks) /\ check \in Checks
  BY <1>3 DEF SlidingInv, Checks
<1>7. /\ stamps'[Limiters!Whole] = StampsOf(Limiters!Whole, accepted)
      /\ \/ stamps'[target] = StampsOf(target, accepted)
         \/ ~accepted /\ stamps'[target] = stamps[target]
      /\ \A key \in Limiters!Keys : key \notin {Limiters!Whole, target} => stamps'[key] = stamps[key]
      /\ DOMAIN stamps' = Limiters!Keys
  <2>1. CASE accepted
    BY <1>0, <1>4, <1>5, <1>6, <2>1 DEF StampsOf
  <2>2. CASE ~accepted
    BY <1>0, <1>4, <1>5, <1>6, <2>2 DEF StampsOf
  <2> QED
    BY <2>1, <2>2
<1>8. ASSUME NEW key \in Limiters!Keys PROVE StampsFollow(key)'
  BY <1>3, <1>5, <1>7, StampsGoOn
<1>9. ASSUME NEW key \in Limiters!Keys
      PROVE  Len(Limiters!Trimmed(stamps[key])) =
                Cardinality(Limiters!Counted(inputs, Len(inputs), key, now - LimitWindow))
  <2>1. now - LimitWindow \in Int /\ now - LimitWindow >= now - LimitWindow
    BY <1>6 DEF LimitBounds
  <2>2. StampsFollow(key)
    BY DEF SlidingInv
  <2> QED
    BY <1>6, <2>1, <2>2, TrimmedCounts DEF StampsFollow
<1>10. PICK len \in Nat : len = Len(inputs)
  BY <1>6
<1>11. /\ inputs' \in Seq(Checks) /\ Len(inputs') = len + 1 /\ inputs'[len + 1] = check
       /\ \A n \in 1..len : inputs'[n] = inputs[n]
  BY <1>5, <1>6, <1>10, AppendProperties
<1>12. DOMAIN inputs' = 1..len \cup {len + 1} /\ DOMAIN inputs = 1..len
  BY <1>6, <1>10, <1>11
<1>13. ASSUME NEW n \in DOMAIN inputs'
       PROVE  inputs'[n].ok <=>
                /\ Cardinality(Limiters!Counted(inputs', n - 1, Limiters!Whole, inputs'[n].at - LimitWindow)) < AgentLimit
                /\ Cardinality(Limiters!Counted(inputs', n - 1, inputs'[n].target, inputs'[n].at - LimitWindow))
                      < TargetLimit
  <2>1. ASSUME NEW key
        PROVE  Limiters!Counted(inputs', n - 1, key, inputs'[n].at - LimitWindow) =
                  Limiters!Counted(inputs, n - 1, key, inputs'[n].at - LimitWindow)
    <3>1. n - 1 \in 0..len /\ inputs'[n] \in Checks
      BY <1>6, <1>11, <1>12, ElementOfSeq
    <3>2. inputs'[n].at - LimitWindow \in Int
      BY <3>1 DEF Checks, LimitBounds
    <3>3. \A t \in Int : Limiters!Counted(Append(inputs, check), n - 1, key, t) = Limiters!Counted(inputs, n - 1, key, t)
      <4>1. PICK m \in 0..Len(inputs) : m = n - 1
        BY <1>10, <3>1
      <4>2. inputs \in Seq(Checks) /\ check \in Checks
        BY <1>6
      <4>3. \A t \in Int : Limiters!Counted(Append(inputs, check), m, key, t) = Limiters!Counted(inputs, m, key, t)
        BY <4>2, CountedBefore
      <4> QED
        BY <4>1, <4>3
    <3>4. PICK t \in Int : t = inputs'[n].at - LimitWindow
      BY <3>2
    <3> QED
      BY <1>5, <3>3, <3>4
  <2>2. CASE n \in 1..len
    BY <1>11, <1>12, <2>1, <2>2, SameCounts DEF SlidingInv, Limiters!SlidingIsExact
  <2>3. CASE n = len + 1
    <3>1. n - 1 = len /\ inputs'[n] = check /\ check.at = now /\ check.target = target
          /\ check.ok = accepted
      BY <1>3, <1>11, <2>3
    <3>2. /\ Len(whole) = Cardinality(Limiters!Counted(inputs, len, Limiters!Whole, now - LimitWindow))
          /\ Len(own) = Cardinality(Limiters!Counted(inputs, len, target, now - LimitWindow))
      BY <1>0, <1>4, <1>9, <1>10
    <3>3. \A key : Limiters!Counted(inputs', n - 1, key, now - LimitWindow) =
                      Limiters!Counted(inputs, len, key, now - LimitWindow)
      BY <2>1, <3>1
    <3>4. accepted <=> Len(whole) < AgentLimit /\ Len(own) < TargetLimit
      BY <1>1, <1>2
    <3> QED
      BY <3>1, <3>2, <3>3, <3>4
  <2> QED
    BY <1>12, <2>2, <2>3
<1>14. Limiters!SlidingIsExact'
  BY <1>13, SameCounts DEF Limiters!SlidingIsExact
<1> QED
  BY <1>5, <1>6, <1>7, <1>8, <1>11, <1>14 DEF SlidingInv

LEMMA SlidingGoesOn ==
    ASSUME LimitBounds, SlidingInv, [Limiters!Next]_Limiters!vars
    PROVE  SlidingInv'
<1>1. ASSUME NEW key \in Limiters!Keys, UNCHANGED Limiters!slidingVars, now' \in Nat, now <= now'
      PROVE  StampsFollow(key)'
  <2>1. StampsFollow(key) /\ now \in Nat
    BY DEF SlidingInv
  <2>2. \A t \in Int : t >= now' - LimitWindow => t >= now - LimitWindow
    <3>1. PICK before \in Nat, after \in Nat : before = now /\ after = now'
      BY <1>1, <2>1
    <3>2. before <= after /\ LimitWindow \in Nat
      BY <1>1, <3>1 DEF LimitBounds
    <3>3. \A t \in Int : t >= after - LimitWindow => t >= before - LimitWindow
      BY <3>2
    <3> QED
      BY <3>1, <3>3
  <2>3. \A i \in DOMAIN stamps[key] : stamps[key][i] \in Nat
    BY <2>1 DEF StampsFollow
  <2> QED
    BY <1>1, <2>1, <2>2, <2>3 DEF StampsFollow, Limiters!slidingVars
<1>2. ASSUME UNCHANGED Limiters!slidingVars, now' \in Nat, now <= now' PROVE SlidingInv'
  <2>1. Limiters!SlidingIsExact' <=> Limiters!SlidingIsExact
    BY <1>2 DEF Limiters!slidingVars, Limiters!SlidingIsExact
  <2> QED
    BY <1>1, <1>2, <2>1 DEF SlidingInv, Limiters!slidingVars
<1>3. CASE Limiters!Clock
  BY <1>2, <1>3 DEF Limiters!Clock, SlidingInv, LimitBounds
<1>4. ASSUME NEW target \in Targets, Limiters!Input(target) PROVE SlidingInv'
  BY <1>4, InputKeeps
<1>5. CASE Limiters!ClearAgent \/ (\E target \in Targets : Limiters!Message(target)) \/ UNCHANGED Limiters!vars
  <2>1. UNCHANGED <<now, Limiters!slidingVars>>
    BY <1>5 DEF Limiters!ClearAgent, Limiters!Message, Limiters!vars
  <2> QED
    BY <1>2, <2>1 DEF SlidingInv
<1>6. CASE Limiters!RemoveAgent
  <2>1. /\ stamps' = [key \in Limiters!Keys |-> <<>>] /\ inputs' = <<>> /\ now' = now
    BY <1>6 DEF Limiters!RemoveAgent
  <2>3. ASSUME NEW key \in Limiters!Keys PROVE StampsFollow(key)'
    BY <2>1, NothingCounted DEF StampsFollow
  <2> QED
    BY <2>1, <2>3 DEF SlidingInv, Limiters!SlidingIsExact
<1> QED
  BY <1>3, <1>4, <1>5, <1>6 DEF Limiters!Next

LEMMA SlidingBegins == Limiters!Init => SlidingInv
<1> SUFFICES ASSUME Limiters!Init PROVE SlidingInv
  OBVIOUS
<1>2. ASSUME NEW key \in Limiters!Keys PROVE StampsFollow(key)
  BY NothingCounted DEF Limiters!Init, StampsFollow
<1> QED
  BY <1>2 DEF Limiters!Init, SlidingInv, Limiters!SlidingIsExact

-----------------------------------------------------------------------------
(* The buckets of a channel. *)

Filling == [tokens : Nat, refilled : Nat]

\* What went for a key: all of it, since its last refill, and in the window before that.
Passed(key) == {k \in DOMAIN messages : messages[k].ok /\ key \in {Limiters!Whole, messages[k].target}}
AfterRefill(key) == {k \in Passed(key) : messages[k].at >= buckets[key].refilled}
BeforeRefill(key) ==
    {k \in Passed(key) : /\ messages[k].at < buckets[key].refilled
                         /\ messages[k].at > buckets[key].refilled - LimitWindow}

\* A bucket that is not made has let nothing through.  What another let through since its
\* last refill and what it has left is not more than its limit, the window before that had
\* no more, and nothing went a window after that refill.
BucketHolds(key) ==
    IF buckets[key] = Limiters!Unmade THEN Passed(key) = {}
    ELSE /\ buckets[key] \in Filling /\ buckets[key].refilled <= now
         /\ Cardinality(AfterRefill(key)) + buckets[key].tokens <= Limiters!Limit(key)
         /\ Cardinality(BeforeRefill(key)) <= Limiters!Limit(key)
         /\ \A k \in Passed(key) : messages[k].at < buckets[key].refilled + LimitWindow

BucketsInv ==
    /\ now \in Nat /\ messages \in Seq(Checks) /\ DOMAIN buckets = Limiters!Keys
    /\ \A k \in DOMAIN messages : messages[k].at <= now
    /\ \A key \in Limiters!Keys : BucketHolds(key)

\* The window that ends now.
LastWindow ==
    \A key \in Limiters!Keys :
        Cardinality({k \in Passed(key) : messages[k].at > now - LimitWindow}) <= 2 * Limiters!Limit(key)

LEMMA PassedIsFinite ==
    ASSUME messages \in Seq(Checks), NEW key, NEW set \in SUBSET Passed(key)
    PROVE  IsFiniteSet(set) /\ Cardinality(set) \in Nat
<1>1. Len(messages) \in Nat /\ set \in SUBSET (1..Len(messages))
  BY DEF Passed
<1>2. IsFiniteSet(1..Len(messages))
  BY <1>1, FS_Interval
<1>3. IsFiniteSet(set)
  BY <1>1, <1>2, FS_Subset
<1> QED
  BY <1>3, FS_CardinalityType

\* In no window that ends now has more gone than twice the limit.
LEMMA WindowIsBounded ==
    ASSUME LimitBounds, now \in Nat, messages \in Seq(Checks), NEW key \in Limiters!Keys,
           BucketHolds(key)
    PROVE  Cardinality({k \in Passed(key) : messages[k].at > now - LimitWindow}) <= 2 * Limiters!Limit(key)
<1>1. PICK recent : recent = {k \in Passed(key) : messages[k].at > now - LimitWindow}
  OBVIOUS
<1>2. Limiters!Limit(key) \in Nat /\ LimitWindow \in Nat
  BY LimitIsNumber DEF LimitBounds
<1>3. CASE buckets[key] = Limiters!Unmade
  <2>1. recent = {}
    BY <1>1, <1>3 DEF BucketHolds
  <2>2. Cardinality(recent) = 0
    BY <2>1, FS_EmptySet
  <2> QED
    BY <1>1, <1>2, <2>2
<1>4. CASE buckets[key] # Limiters!Unmade
  <2>1. PICK r \in Nat, tokens \in Nat : r = buckets[key].refilled /\ tokens = buckets[key].tokens
    BY <1>4 DEF BucketHolds, Filling
  <2>2. \A k \in Passed(key) : messages[k].at \in Nat
    <3>1. \A k \in DOMAIN messages : messages[k] \in Checks
      OBVIOUS
    <3> QED
      BY <3>1 DEF Passed, Checks
  <2>3. recent \subseteq AfterRefill(key) \cup BeforeRefill(key)
    <3> SUFFICES ASSUME NEW k \in recent PROVE k \in AfterRefill(key) \cup BeforeRefill(key)
      OBVIOUS
    <3>1. PICK t \in Nat : t = messages[k].at
      BY <1>1, <2>2
    <3>2. t > now - LimitWindow /\ k \in Passed(key) /\ r <= now
      BY <1>1, <1>4, <2>1, <3>1 DEF BucketHolds
    <3>3. t >= r \/ (t < r /\ t > r - LimitWindow)
      BY <1>2, <3>2
    <3> QED
      BY <2>1, <3>1, <3>2, <3>3 DEF AfterRefill, BeforeRefill
  <2>4. PICK a, b : a = AfterRefill(key) /\ b = BeforeRefill(key)
    OBVIOUS
  <2>5. a \in SUBSET Passed(key) /\ b \in SUBSET Passed(key) /\ a \cap b \in SUBSET Passed(key)
    BY <2>4 DEF AfterRefill, BeforeRefill
  <2>6. /\ IsFiniteSet(a) /\ Cardinality(a) \in Nat
        /\ IsFiniteSet(b) /\ Cardinality(b) \in Nat /\ Cardinality(a \cap b) \in Nat
    BY <2>5, PassedIsFinite
  <2>7. /\ IsFiniteSet(a \cup b)
        /\ Cardinality(a \cup b) = Cardinality(a) + Cardinality(b) - Cardinality(a \cap b)
    BY <2>6, FS_Union
  <2>8. recent \in SUBSET (a \cup b)
    BY <2>3, <2>4
  <2>9. Cardinality(recent) <= Cardinality(a \cup b)
    BY <2>7, <2>8, FS_Subset
  <2>10. Cardinality(recent) \in Nat
    <3>1. recent \in SUBSET Passed(key)
      BY <1>1
    <3> QED
      BY <3>1, PassedIsFinite
  <2>11. Cardinality(a) + tokens <= Limiters!Limit(key) /\ Cardinality(b) <= Limiters!Limit(key)
    BY <1>4, <2>1, <2>4 DEF BucketHolds
  <2> QED
    BY <1>1, <1>2, <2>1, <2>6, <2>7, <2>9, <2>10, <2>11
<1> QED
  BY <1>3, <1>4

\* The bucket as a message finds it: the log is as it was, the bucket is made and full
\* enough, and filled within the window.
LEMMA BucketIsFilled ==
    ASSUME LimitBounds, now \in Nat, messages \in Seq(Checks), NEW key \in Limiters!Keys,
           BucketHolds(key), \A k \in DOMAIN messages : messages[k].at <= now,
           NEW b, b = Limiters!Bucket(key)
    PROVE  /\ b \in Filling /\ b # Limiters!Unmade /\ b.refilled <= now /\ now < b.refilled + LimitWindow
           /\ Cardinality({k \in Passed(key) : messages[k].at >= b.refilled}) + b.tokens
                <= Limiters!Limit(key)
           /\ Cardinality({k \in Passed(key) : /\ messages[k].at < b.refilled
                                               /\ messages[k].at > b.refilled - LimitWindow})
                <= Limiters!Limit(key)
           /\ \A k \in Passed(key) : messages[k].at < b.refilled + LimitWindow
<1>1. Limiters!Limit(key) \in Nat /\ LimitWindow \in Nat /\ LimitWindow > 0
  BY LimitIsNumber DEF LimitBounds
<1>2. \A k \in Passed(key) : messages[k].at \in Nat /\ messages[k].at <= now
  <2>1. \A k \in DOMAIN messages : messages[k] \in Checks
    OBVIOUS
  <2> QED
    BY <2>1 DEF Passed, Checks
<1>3. ASSUME NEW full, full = [tokens |-> Limiters!Limit(key), refilled |-> now]
      PROVE  full \in Filling /\ full # Limiters!Unmade /\ full.refilled = now /\ full.tokens = Limiters!Limit(key)
  BY <1>1, <1>3 DEF Filling, Limiters!Unmade
<1>4. CASE buckets[key] = Limiters!Unmade
  <2>1. b = [tokens |-> Limiters!Limit(key), refilled |-> now] /\ Passed(key) = {}
    BY <1>4 DEF Limiters!Bucket, BucketHolds
  <2>2. /\ {k \in Passed(key) : messages[k].at >= b.refilled} = {}
        /\ {k \in Passed(key) : /\ messages[k].at < b.refilled
                                 /\ messages[k].at > b.refilled - LimitWindow} = {}
    BY <2>1
  <2>3. b \in Filling /\ b # Limiters!Unmade /\ b.refilled = now /\ b.tokens = Limiters!Limit(key)
    BY <1>3, <2>1
  <2> QED
    BY <1>1, <2>1, <2>2, <2>3, FS_EmptySet
<1>5. CASE buckets[key] # Limiters!Unmade
  <2>1. PICK r \in Nat : r = buckets[key].refilled
    BY <1>5 DEF BucketHolds, Filling
  <2>2. buckets[key] \in Filling /\ r <= now
    BY <1>5, <2>1 DEF BucketHolds
  <2>3. \A k \in Passed(key) : messages[k].at < r + LimitWindow
    BY <1>5, <2>1 DEF BucketHolds
  <2>4. CASE now - r < LimitWindow
    <3>1. b = buckets[key]
      BY <1>5, <2>1, <2>4 DEF Limiters!Bucket, Limiters!Filled
    <3>2. now < r + LimitWindow
      BY <1>1, <2>4
    <3> QED
      BY <1>5, <2>1, <2>2, <2>3, <3>1, <3>2 DEF BucketHolds, AfterRefill, BeforeRefill
  <2>5. CASE ~(now - r < LimitWindow)
    <3>1. b = [tokens |-> Limiters!Limit(key), refilled |-> now]
      BY <1>5, <2>1, <2>5 DEF Limiters!Bucket, Limiters!Filled
    <3>2. b \in Filling /\ b # Limiters!Unmade /\ b.refilled = now /\ b.tokens = Limiters!Limit(key)
      BY <1>3, <3>1
    <3>3. \A k \in Passed(key) : messages[k].at < now
      BY <1>1, <1>2, <2>3, <2>5
    <3>4. {k \in Passed(key) : messages[k].at >= b.refilled} = {}
      BY <1>2, <3>2, <3>3
    <3>5. PICK late : late = {k \in Passed(key) : /\ messages[k].at < now
                                                  /\ messages[k].at > now - LimitWindow}
      OBVIOUS
    <3>6. late \in SUBSET AfterRefill(key)
      BY <1>1, <1>2, <2>1, <2>5, <3>5 DEF AfterRefill
    <3>7. AfterRefill(key) \in SUBSET Passed(key)
      BY DEF AfterRefill
    <3>8. /\ IsFiniteSet(AfterRefill(key)) /\ Cardinality(AfterRefill(key)) \in Nat
          /\ Cardinality(late) \in Nat
      <4>1. late \in SUBSET Passed(key)
        BY <3>5
      <4> QED
        BY <3>7, <4>1, PassedIsFinite
    <3>9. Cardinality(late) <= Cardinality(AfterRefill(key))
      BY <3>6, <3>8, FS_Subset
    <3>10. Cardinality(AfterRefill(key)) <= Limiters!Limit(key)
      <4>1. PICK tokens \in Nat : tokens = buckets[key].tokens
        BY <2>2 DEF Filling
      <4>2. Cardinality(AfterRefill(key)) + tokens <= Limiters!Limit(key)
        BY <1>5, <4>1 DEF BucketHolds
      <4> QED
        BY <1>1, <3>8, <4>2
    <3>11. Cardinality(late) <= Limiters!Limit(key)
      BY <1>1, <3>8, <3>9, <3>10
    <3>12. now < now + LimitWindow /\ \A k \in Passed(key) : messages[k].at < now + LimitWindow
      BY <1>1, <1>2, <3>3
    <3>13. 0 + Limiters!Limit(key) <= Limiters!Limit(key) /\ now <= now
      BY <1>1
    <3> QED
      BY <3>2, <3>4, <3>5, <3>11, <3>12, <3>13, FS_EmptySet
  <2> QED
    BY <1>1, <2>1, <2>4, <2>5
<1> QED
  BY <1>4, <1>5

\* What a message adds to the log.
LEMMA PassedAppend ==
    ASSUME messages \in Seq(Checks), NEW check \in Checks, messages' = Append(messages, check),
           NEW len \in Nat, len = Len(messages), NEW key
    PROVE  /\ messages' \in Seq(Checks) /\ Len(messages') = len + 1
           /\ DOMAIN messages = 1..len /\ DOMAIN messages' = DOMAIN messages \cup {len + 1}
           /\ len + 1 \notin DOMAIN messages /\ messages'[len + 1] = check
           /\ \A k \in DOMAIN messages : messages'[k] = messages[k]
           /\ Passed(key)' = Passed(key) \cup
                 (IF check.ok /\ key \in {Limiters!Whole, check.target} THEN {len + 1} ELSE {})
<1>1. /\ messages' \in Seq(Checks) /\ Len(messages') = len + 1 /\ messages'[len + 1] = check
      /\ \A k \in 1..len : messages'[k] = messages[k]
  BY AppendProperties
<1>2. DOMAIN messages = 1..len /\ DOMAIN messages' = 1..(len + 1)
  BY <1>1
<1>3. 1..(len + 1) = 1..len \cup {len + 1} /\ len + 1 \notin 1..len
  OBVIOUS
<1>4. Passed(key)' = Passed(key) \cup
                 (IF check.ok /\ key \in {Limiters!Whole, check.target} THEN {len + 1} ELSE {})
  BY <1>1, <1>2, <1>3 DEF Passed
<1> QED
  BY <1>1, <1>2, <1>3, <1>4

\* A key whose bucket a message uses.
LEMMA BucketIsUsed ==
    ASSUME LimitBounds, BucketsInv, NEW target \in Targets, NEW accepted \in BOOLEAN,
           NEW check, check = [at |-> now, target |-> target, ok |-> accepted],
           messages' = Append(messages, check), now' = now,
           NEW key \in Limiters!Keys, key \in {Limiters!Whole, target},
           buckets'[key] = Limiters!Consumed(Limiters!Bucket(key)), accepted => Limiters!Bucket(key).tokens >= 1
    PROVE  BucketHolds(key)'
<1>1. Limiters!Limit(key) \in Nat /\ LimitWindow \in Nat /\ LimitWindow > 0
  BY LimitIsNumber DEF LimitBounds
<1>2. PICK len \in Nat : len = Len(messages)
  BY DEF BucketsInv
<1>3. check \in Checks /\ check.at = now /\ check.target = target /\ check.ok = accepted
  BY DEF Checks, BucketsInv
<1>4. /\ DOMAIN messages' = DOMAIN messages \cup {len + 1} /\ len + 1 \notin DOMAIN messages
      /\ messages'[len + 1] = check /\ \A k \in DOMAIN messages : messages'[k] = messages[k]
      /\ Passed(key)' = Passed(key) \cup (IF accepted THEN {len + 1} ELSE {})
  BY <1>2, <1>3, PassedAppend DEF BucketsInv
<1>5. PICK b : b = Limiters!Bucket(key)
  OBVIOUS
<1>6. /\ b \in Filling /\ b # Limiters!Unmade /\ b.refilled <= now /\ now < b.refilled + LimitWindow
      /\ Cardinality({k \in Passed(key) : messages[k].at >= b.refilled}) + b.tokens
           <= Limiters!Limit(key)
      /\ Cardinality({k \in Passed(key) : /\ messages[k].at < b.refilled
                                          /\ messages[k].at > b.refilled - LimitWindow})
           <= Limiters!Limit(key)
      /\ \A k \in Passed(key) : messages[k].at < b.refilled + LimitWindow
  BY <1>5, BucketIsFilled DEF BucketsInv
<1>7. PICK r \in Nat, tokens \in Nat : r = b.refilled /\ tokens = b.tokens
  BY <1>6 DEF Filling
<1>8. b = [tokens |-> tokens, refilled |-> r]
  BY <1>6, <1>7 DEF Filling
<1>9. PICK left \in Nat : /\ buckets'[key] = [tokens |-> left, refilled |-> r]
                          /\ left <= tokens /\ (accepted => left + 1 = tokens)
  <2>1. CASE tokens >= 1
    <3>1. buckets'[key] = [tokens |-> tokens - 1, refilled |-> r]
      BY <1>5, <1>8, <2>1 DEF Limiters!Consumed
    <3>2. tokens - 1 \in Nat /\ tokens - 1 <= tokens /\ (tokens - 1) + 1 = tokens
      BY <2>1
    <3> QED
      BY <3>1, <3>2
  <2>2. CASE ~(tokens >= 1)
    <3>1. buckets'[key] = [tokens |-> tokens, refilled |-> r] /\ ~accepted
      BY <1>5, <1>7, <1>8, <2>2 DEF Limiters!Consumed
    <3> QED
      BY <3>1
  <2> QED
    BY <2>1, <2>2
<1>10. /\ buckets'[key].refilled = r /\ buckets'[key].tokens = left
       /\ buckets'[key] \in Filling /\ buckets'[key] # Limiters!Unmade
  BY <1>9 DEF Filling, Limiters!Unmade
<1>11. PICK after, before :
          /\ after = {k \in Passed(key) : messages[k].at >= r}
          /\ before = {k \in Passed(key) : messages[k].at < r /\ messages[k].at > r - LimitWindow}
  OBVIOUS
<1>12. \A k \in Passed(key) : k \in DOMAIN messages /\ messages'[k] = messages[k]
  BY <1>4 DEF Passed
<1>13. now \in Nat /\ r <= now /\ now < r + LimitWindow
  BY <1>6, <1>7 DEF BucketsInv
<1>14. AfterRefill(key)' = after \cup (IF accepted THEN {len + 1} ELSE {})
  BY <1>3, <1>4, <1>10, <1>11, <1>12, <1>13 DEF AfterRefill
<1>15. BeforeRefill(key)' = before
  BY <1>3, <1>4, <1>10, <1>11, <1>12, <1>13 DEF BeforeRefill
<1>16. \A k \in Passed(key)' : messages'[k].at < r + LimitWindow
  BY <1>3, <1>4, <1>6, <1>7, <1>12, <1>13
<1>17. IsFiniteSet(after) /\ Cardinality(after) \in Nat /\ len + 1 \notin after
  <2>1. after \in SUBSET Passed(key)
    BY <1>11
  <2>2. Passed(key) \subseteq DOMAIN messages
    BY DEF Passed
  <2> QED
    BY <1>4, <2>1, <2>2, PassedIsFinite DEF BucketsInv
<1>18. Cardinality(after) + tokens <= Limiters!Limit(key) /\ Cardinality(before) <= Limiters!Limit(key)
  BY <1>6, <1>7, <1>11
<1>19. Cardinality(AfterRefill(key)') + left <= Limiters!Limit(key)
  <2>1. CASE accepted
    <3>1. Cardinality(AfterRefill(key)') = Cardinality(after) + 1
      BY <1>14, <1>17, <2>1, FS_AddElement
    <3> QED
      BY <1>1, <1>9, <1>17, <1>18, <2>1, <3>1
  <2>2. CASE ~accepted
    <3>1. AfterRefill(key)' = after
      BY <1>14, <2>2
    <3> QED
      BY <1>1, <1>9, <1>17, <1>18, <3>1
  <2> QED
    BY <2>1, <2>2
<1>20. Limiters!Limit(key)' = Limiters!Limit(key)
  BY DEF Limiters!Limit
<1> QED
  BY <1>10, <1>13, <1>15, <1>16, <1>18, <1>19, <1>20 DEF BucketHolds

\* A key whose bucket a message does not use.
LEMMA BucketIsLeft ==
    ASSUME LimitBounds, BucketsInv, NEW target \in Targets, NEW accepted \in BOOLEAN,
           NEW check, check = [at |-> now, target |-> target, ok |-> accepted],
           messages' = Append(messages, check), now' = now,
           NEW key \in Limiters!Keys, buckets'[key] = buckets[key],
           ~accepted \/ key \notin {Limiters!Whole, target}
    PROVE  BucketHolds(key)'
<1>2. PICK len \in Nat : len = Len(messages)
  BY DEF BucketsInv
<1>3. check \in Checks /\ check.target = target /\ check.ok = accepted
  BY DEF Checks, BucketsInv
<1>4. /\ \A k \in DOMAIN messages : messages'[k] = messages[k]
      /\ Passed(key)' = Passed(key)
  <2>1. ~(check.ok /\ key \in {Limiters!Whole, check.target})
    BY <1>3
  <2> QED
    <3>1. messages \in Seq(Checks)
      BY DEF BucketsInv
    <3>2. /\ \A k \in DOMAIN messages : messages'[k] = messages[k]
          /\ Passed(key)' = Passed(key) \cup
                (IF check.ok /\ key \in {Limiters!Whole, check.target} THEN {len + 1} ELSE {})
      BY <1>2, <1>3, <3>1, PassedAppend
    <3> QED
      BY <2>1, <3>2
<1>5. \A k \in Passed(key) : messages'[k] = messages[k]
  BY <1>4 DEF Passed
<1>6. AfterRefill(key)' = AfterRefill(key) /\ BeforeRefill(key)' = BeforeRefill(key)
  BY <1>4, <1>5 DEF AfterRefill, BeforeRefill
<1>7. BucketHolds(key)
  BY DEF BucketsInv
<1> QED
  BY <1>4, <1>5, <1>6, <1>7 DEF BucketHolds

LEMMA MessageKeeps ==
    ASSUME LimitBounds, BucketsInv, NEW target \in Targets, Limiters!Message(target)
    PROVE  BucketsInv'
<1>1. PICK ofAgent \in BOOLEAN : ofAgent <=> Limiters!Bucket(Limiters!Whole).tokens >= 1
  <2>1. CASE Limiters!Bucket(Limiters!Whole).tokens >= 1
    BY <2>1
  <2>2. CASE ~(Limiters!Bucket(Limiters!Whole).tokens >= 1)
    BY <2>2
  <2> QED
    BY <2>1, <2>2
<1>2. PICK accepted \in BOOLEAN : accepted <=> ofAgent /\ Limiters!Bucket(target).tokens >= 1
  <2>1. CASE ofAgent /\ Limiters!Bucket(target).tokens >= 1
    BY <2>1
  <2>2. CASE ~(ofAgent /\ Limiters!Bucket(target).tokens >= 1)
    BY <2>2
  <2> QED
    BY <2>1, <2>2
<1>3. PICK check : check = [at |-> now, target |-> target, ok |-> accepted]
  OBVIOUS
<1>4. Limiters!Whole \in Limiters!Keys /\ target \in Limiters!Keys /\ target # Limiters!Whole /\ DOMAIN buckets = Limiters!Keys
  BY DEF Limiters!Keys, LimitBounds, BucketsInv
<1>5. /\ buckets' = [buckets EXCEPT ![Limiters!Whole] = Limiters!Consumed(Limiters!Bucket(Limiters!Whole)),
                                    ![target] = IF ofAgent THEN Limiters!Consumed(Limiters!Bucket(target))
                                                ELSE buckets[target]]
      /\ messages' = Append(messages, check) /\ now' = now
  BY <1>1, <1>2, <1>3, <1>4 DEF Limiters!Message
<1>6. /\ buckets'[Limiters!Whole] = Limiters!Consumed(Limiters!Bucket(Limiters!Whole))
      /\ buckets'[target] = IF ofAgent THEN Limiters!Consumed(Limiters!Bucket(target)) ELSE buckets[target]
      /\ \A key \in Limiters!Keys : key \notin {Limiters!Whole, target} => buckets'[key] = buckets[key]
      /\ DOMAIN buckets' = Limiters!Keys
  BY <1>4, <1>5
<1>7. ASSUME NEW key \in Limiters!Keys PROVE BucketHolds(key)'
  <2>1. CASE key = Limiters!Whole
    BY <1>1, <1>2, <1>3, <1>5, <1>6, <2>1, BucketIsUsed
  <2>2. CASE key = target /\ ofAgent
    BY <1>2, <1>3, <1>5, <1>6, <2>2, BucketIsUsed
  <2>3. CASE (key = target /\ ~ofAgent) \/ key \notin {Limiters!Whole, target}
    <3>1. buckets'[key] = buckets[key] /\ (~accepted \/ key \notin {Limiters!Whole, target})
      BY <1>2, <1>6, <2>3
    <3> QED
      BY <1>3, <1>5, <3>1, BucketIsLeft
  <2> QED
    BY <2>1, <2>2, <2>3
<1>8. PICK len \in Nat : len = Len(messages)
  BY DEF BucketsInv
<1>9. check \in Checks /\ check.at = now
  BY <1>3 DEF Checks, BucketsInv
<1>10. /\ messages' \in Seq(Checks) /\ DOMAIN messages' = DOMAIN messages \cup {len + 1}
       /\ messages'[len + 1] = check /\ \A k \in DOMAIN messages : messages'[k] = messages[k]
  BY <1>5, <1>8, <1>9, PassedAppend DEF BucketsInv
<1>11. \A k \in DOMAIN messages' : messages'[k].at <= now'
  BY <1>5, <1>9, <1>10 DEF BucketsInv
<1> QED
  BY <1>5, <1>6, <1>7, <1>10, <1>11 DEF BucketsInv

LEMMA BucketsGoOn ==
    ASSUME LimitBounds, BucketsInv, [Limiters!Next]_Limiters!vars
    PROVE  BucketsInv'
<1>1. ASSUME UNCHANGED Limiters!bucketVars, now' \in Nat, now <= now' PROVE BucketsInv'
  <2>1. PICK before \in Nat, after \in Nat : before = now /\ after = now' /\ before <= after
    BY <1>1 DEF BucketsInv
  <2>2. ASSUME NEW key \in Limiters!Keys PROVE BucketHolds(key)'
    <3>1. BucketHolds(key)
      BY DEF BucketsInv
    <3>2. /\ Passed(key)' = Passed(key) /\ AfterRefill(key)' = AfterRefill(key)
          /\ BeforeRefill(key)' = BeforeRefill(key) /\ UNCHANGED <<buckets, messages>>
      BY <1>1 DEF Limiters!bucketVars, Passed, AfterRefill, BeforeRefill
    <3>3. buckets[key] # Limiters!Unmade => buckets[key].refilled <= now'
      <4>1. buckets[key] # Limiters!Unmade => buckets[key].refilled \in Nat /\ buckets[key].refilled <= before
        BY <2>1, <3>1 DEF BucketHolds, Filling
      <4> QED
        BY <2>1, <4>1
    <3> QED
      BY <3>1, <3>2, <3>3 DEF BucketHolds
  <2>3. \A k \in DOMAIN messages : messages[k].at <= now'
    <3>1. \A k \in DOMAIN messages : messages[k] \in Checks /\ messages[k].at <= before
      BY <2>1 DEF BucketsInv
    <3>2. \A k \in DOMAIN messages : messages[k].at \in Nat
      BY <3>1 DEF Checks
    <3> QED
      BY <2>1, <3>1, <3>2
  <2> QED
    BY <1>1, <2>2, <2>3 DEF BucketsInv, Limiters!bucketVars
<1>2. CASE Limiters!Clock
  <2>1. UNCHANGED Limiters!bucketVars /\ now' \in Nat /\ now <= now'
    BY <1>2 DEF Limiters!Clock, BucketsInv, LimitBounds
  <2> QED
    BY <1>1, <2>1
<1>3. ASSUME NEW target \in Targets, Limiters!Message(target) PROVE BucketsInv'
  BY <1>3, MessageKeeps
<1>4. CASE Limiters!RemoveAgent \/ (\E target \in Targets : Limiters!Input(target)) \/ UNCHANGED Limiters!vars
  <2>1. UNCHANGED <<now, Limiters!bucketVars>>
    BY <1>4 DEF Limiters!RemoveAgent, Limiters!Input, Limiters!vars
  <2> QED
    BY <1>1, <2>1 DEF BucketsInv
<1>5. CASE Limiters!ClearAgent
  <2>1. buckets' = [key \in Limiters!Keys |-> Limiters!Unmade] /\ messages' = <<>> /\ now' = now
    BY <1>5 DEF Limiters!ClearAgent
  <2>2. messages' \in Seq(Checks) /\ DOMAIN messages' = {}
    BY <2>1
  <2>3. \A key \in Limiters!Keys : BucketHolds(key)'
    BY <2>1, <2>2 DEF BucketHolds, Passed
  <2> QED
    BY <2>1, <2>2, <2>3 DEF BucketsInv
<1> QED
  BY <1>2, <1>3, <1>4, <1>5 DEF Limiters!Next

LEMMA BucketsBegin == Limiters!Init => BucketsInv /\ Limiters!BucketsAreBounded
<1> SUFFICES ASSUME Limiters!Init PROVE BucketsInv /\ Limiters!BucketsAreBounded
  OBVIOUS
<1>1. messages \in Seq(Checks) /\ DOMAIN messages = {}
  BY DEF Limiters!Init
<1>2. \A key \in Limiters!Keys : BucketHolds(key)
  BY <1>1 DEF Limiters!Init, BucketHolds, Passed
<1> QED
  BY <1>1, <1>2 DEF Limiters!Init, BucketsInv, Limiters!BucketsAreBounded

\* A message makes the last window; the others are as they were.
LEMMA WindowsGoOn ==
    ASSUME LimitBounds, BucketsInv, Limiters!BucketsAreBounded, [Limiters!Next]_Limiters!vars, LastWindow'
    PROVE  Limiters!BucketsAreBounded'
<1>1. CASE messages' = messages
  BY <1>1 DEF Limiters!BucketsAreBounded
<1>2. CASE messages' = <<>>
  BY <1>2 DEF Limiters!BucketsAreBounded
<1>3. ASSUME NEW target \in Targets, Limiters!Message(target) PROVE Limiters!BucketsAreBounded'
  <2>1. PICK len \in Nat : len = Len(messages)
    BY DEF BucketsInv
  <2>2. PICK check \in Checks : messages' = Append(messages, check) /\ check.at = now /\ now' = now
    <3>1. PICK accepted \in BOOLEAN :
              messages' = Append(messages, [at |-> now, target |-> target, ok |-> accepted])
      <4> DEFINE granted == Limiters!Bucket(Limiters!Whole).tokens >= 1 /\ Limiters!Bucket(target).tokens >= 1
      <4>1. granted \in BOOLEAN
        OBVIOUS
      <4>2. messages' = Append(messages, [at |-> now, target |-> target, ok |-> granted])
        BY <1>3 DEF Limiters!Message
      <4> QED
        BY <4>1, <4>2
    <3>2. [at |-> now, target |-> target, ok |-> accepted] \in Checks
      BY DEF Checks, BucketsInv
    <3> QED
      BY <1>3, <3>1, <3>2 DEF Limiters!Message
  <2>3. /\ messages' \in Seq(Checks) /\ Len(messages') = len + 1
        /\ DOMAIN messages = 1..len /\ DOMAIN messages' = DOMAIN messages \cup {len + 1}
        /\ messages'[len + 1] = check
        /\ \A k \in DOMAIN messages : messages'[k] = messages[k]
    BY <2>1, <2>2, PassedAppend DEF BucketsInv
  <2>4. ASSUME NEW n \in DOMAIN messages', NEW key \in Limiters!Keys
        PROVE  Cardinality(Limiters!Counted(messages', n, key, messages'[n].at - LimitWindow)) <= 2 * Limiters!Limit(key)
    <3>1. CASE n \in DOMAIN messages
      <4>1. PICK t \in Int : t = messages[n].at - LimitWindow
        <5>1. messages[n] \in Checks
          BY <3>1 DEF BucketsInv
        <5> QED
          BY <5>1 DEF Checks, LimitBounds
      <4>2. Limiters!Counted(messages', n, key, t) = Limiters!Counted(messages, n, key, t)
        <5>1. n \in 0..Len(messages)
          BY <2>1, <2>3, <3>1
        <5>2. messages \in Seq(Checks)
          BY DEF BucketsInv
        <5>3. Limiters!Counted(Append(messages, check), n, key, t) = Limiters!Counted(messages, n, key, t)
          BY <5>1, <5>2, CountedBefore
        <5> QED
          BY <2>2, <5>1, <5>3
      <4> QED
        BY <2>3, <3>1, <4>1, <4>2, SameCounts DEF Limiters!BucketsAreBounded
    <3>2. CASE n = len + 1
      <4>1. messages'[n].at = now /\ DOMAIN messages' = 1..n
        BY <2>2, <2>3, <3>2
      <4>2. Limiters!Counted(messages', n, key, now - LimitWindow)
              = {k \in Passed(key)' : messages'[k].at > now - LimitWindow}
        BY <4>1 DEF Limiters!Counted, Passed
      <4> QED
        BY <2>2, <4>1, <4>2 DEF LastWindow, Limiters!Limit
    <3> QED
      BY <2>3, <3>1, <3>2
  <2> QED
    BY <2>4, SameCounts DEF Limiters!BucketsAreBounded, Limiters!Limit
<1> QED
  BY <1>1, <1>2, <1>3
     DEF Limiters!Next, Limiters!Clock, Limiters!Input, Limiters!RemoveAgent, Limiters!ClearAgent, Limiters!vars, Limiters!slidingVars, Limiters!bucketVars

-----------------------------------------------------------------------------
\* The sliding windows of a daemon refuse exactly what is over a limit, and the token buckets
\* of a channel let through no more than twice a limit in any window (rate-limiter.ts of the
\* daemon and of the channel): for any targets, limits, windows and times.
THEOREM LimitersHold ==
    ASSUME LimitBounds PROVE Limiters!Spec => [](Limiters!SlidingIsExact /\ Limiters!BucketsAreBounded)
<1>1. Limiters!Init => SlidingInv /\ BucketsInv /\ Limiters!BucketsAreBounded
  BY SlidingBegins, BucketsBegin
<1>2. SlidingInv /\ BucketsInv /\ [Limiters!Next]_Limiters!vars => SlidingInv' /\ BucketsInv'
  BY SlidingGoesOn, BucketsGoOn
<1>3. BucketsInv => LastWindow
  BY WindowIsBounded DEF BucketsInv, LastWindow
<1>4. BucketsInv /\ Limiters!BucketsAreBounded /\ [Limiters!Next]_Limiters!vars /\ LastWindow' => Limiters!BucketsAreBounded'
  BY WindowsGoOn
<1>5. SlidingInv => Limiters!SlidingIsExact
  BY DEF SlidingInv
<1> QED
  BY <1>1, <1>2, <1>3, <1>4, <1>5, PTL DEF Limiters!Spec


-----------------------------------------------------------------------------
(* The daemons of a cluster (ClusterEvents). *)

ClusterBounds == InboxMax \in Nat

EventRecords == [type : EventTypes, agent : Members, n : Nat]
EventCalls == [kind : {"event"}, to : Members, event : EventRecords]
SubscribeCalls ==
    [kind : {"subscribe"}, to : Members, from : Members, types : SUBSET EventTypes, n : Nat]
RegisterCalls == [kind : {"register"}, to : Members, from : Members, name : Services, n : Nat]

ClusterTyped ==
    /\ subscriptions \in [Members -> [EventTypes -> SUBSET Members]]
    /\ whitelists \in [Members -> [Members -> SUBSET EventTypes]]
    /\ services \in [Members -> [Services -> SUBSET [agent : Members, n : Nat]]]
    /\ wire \subseteq EventCalls \cup SubscribeCalls \cup RegisterCalls
    /\ coordinationInbox \in [Members -> Seq(EventRecords)]
    /\ made \in Nat

\* An event that was published goes to another daemon than the one it is of, and while it is
\* on its way to a daemon it is not in that one's inbox.
OnTheirWay ==
    \A request \in wire :
        request.kind = "event" =>
            /\ request.event.n < made /\ request.to # request.event.agent
            /\ \A k \in DOMAIN coordinationInbox[request.to] :
                  coordinationInbox[request.to][k] # request.event

InboxHolds(d) ==
    /\ \A k \in DOMAIN coordinationInbox[d] :
          coordinationInbox[d][k].n < made /\ coordinationInbox[d][k].agent # d
    /\ IsInjective(coordinationInbox[d]) /\ Len(coordinationInbox[d]) <= InboxMax

ClusterInv ==
    /\ ClusterTyped /\ OnTheirWay /\ \A d \in Members : InboxHolds(d)
    /\ Cluster!DeregisteredAreForgotten /\ Cluster!ProvidersAreDistinct

LEMMA CallsAreOfAKind ==
    ASSUME ClusterTyped, NEW request \in wire
    PROVE  /\ request.kind \in {"event", "subscribe", "register"}
           /\ request.kind = "event" => request \in EventCalls
           /\ request.kind = "subscribe" => request \in SubscribeCalls
           /\ request.kind = "register" => request \in RegisterCalls
BY DEF ClusterTyped, EventCalls, SubscribeCalls, RegisterCalls

LEMMA ClusterBegins == ClusterBounds /\ Cluster!Init => ClusterInv
<1> SUFFICES ASSUME ClusterBounds, Cluster!Init PROVE ClusterInv
  OBVIOUS
<1>1. <<>> \in Seq(EventRecords) /\ DOMAIN <<>> = {} /\ Len(<<>>) = 0
  OBVIOUS
<1>2. ClusterTyped
  <2>1. coordinationInbox \in [Members -> Seq(EventRecords)]
    BY <1>1 DEF Cluster!Init
  <2> QED
    BY <2>1 DEF Cluster!Init, ClusterTyped
<1>3. ASSUME NEW d \in Members PROVE InboxHolds(d)
  BY <1>1 DEF Cluster!Init, InboxHolds, IsInjective, ClusterBounds
<1>4. Cluster!DeregisteredAreForgotten /\ Cluster!ProvidersAreDistinct
  BY DEF Cluster!Init, Cluster!DeregisteredAreForgotten, Cluster!ProvidersAreDistinct
<1> QED
  BY <1>2, <1>3, <1>4 DEF Cluster!Init, ClusterInv, OnTheirWay

-----------------------------------------------------------------------------
(* What keeps the events apart. *)

\* A new event in an inbox: it and some of those before, each once.
LEMMA KeptIsApart ==
    ASSUME ClusterBounds, NEW s \in Seq(EventRecords), NEW e \in EventRecords,
           IsInjective(s), \A k \in DOMAIN s : s[k] # e, NEW t, t = Cluster!Kept(Append(s, e))
    PROVE  /\ t \in Seq(EventRecords) /\ IsInjective(t) /\ Len(t) <= InboxMax
           /\ \A k \in DOMAIN t : t[k] = e \/ \E j \in DOMAIN s : t[k] = s[j]
<1>1. PICK len \in Nat : len = Len(s) /\ DOMAIN s = 1..len
  OBVIOUS
<1>2. PICK new : new = Append(s, e)
  OBVIOUS
<1>3. /\ new \in Seq(EventRecords) /\ Len(new) = len + 1 /\ new[len + 1] = e
      /\ \A k \in 1..len : new[k] = s[k]
  BY <1>1, <1>2, AppendProperties
<1>4. DOMAIN new = 1..(len + 1) /\ 1..(len + 1) = 1..len \cup {len + 1} /\ len + 1 \notin 1..len
  BY <1>3
<1>5. ASSUME NEW i \in 1..(len + 1), NEW j \in 1..(len + 1), new[i] = new[j] PROVE i = j
  <2>1. CASE i \in 1..len /\ j \in 1..len
    BY <1>1, <1>3, <1>5, <2>1 DEF IsInjective
  <2>2. CASE i \notin 1..len \/ j \notin 1..len
    BY <1>1, <1>3, <1>4, <1>5, <2>2
  <2> QED
    BY <2>1, <2>2
<1>6. \A k \in 1..(len + 1) : new[k] = e \/ \E j \in DOMAIN s : new[k] = s[j]
  BY <1>1, <1>3, <1>4
<1>7. InboxMax \in Nat
  BY DEF ClusterBounds
<1>8. CASE ~(len + 1 > InboxMax)
  <2>1. t = new
    BY <1>2, <1>3, <1>8 DEF Cluster!Kept
  <2> QED
    BY <1>3, <1>4, <1>5, <1>6, <1>7, <1>8, <2>1 DEF IsInjective
<1>9. CASE len + 1 > InboxMax
  <2>1. PICK m \in Nat : m = len + 1 - InboxMax
    BY <1>7, <1>9
  <2>2. t = SubSeq(new, m + 1, len + 1)
    <3>1. Len(new) > InboxMax /\ (Len(new) - InboxMax) + 1 = m + 1 /\ Len(new) = len + 1
      <4>1. Len(new) = len + 1
        BY <1>3
      <4>2. ((len + 1) - InboxMax) + 1 = m + 1
        BY <1>7, <2>1
      <4> QED
        BY <1>9, <4>1, <4>2
    <3>2. t = SubSeq(new, (Len(new) - InboxMax) + 1, Len(new))
      BY <1>2, <3>1 DEF Cluster!Kept
    <3> QED
      BY <3>1, <3>2
  <2>3. m >= 1 /\ m <= len + 1 /\ len + 1 - m = InboxMax
    BY <1>7, <1>9, <2>1
  <2>4. \A i \in (m + 1)..(len + 1) : new[i] \in EventRecords
    <3>1. \A i \in (m + 1)..(len + 1) : i \in 1..Len(new)
      BY <1>3
    <3> QED
      BY <1>3, <3>1, ElementOfSeq
  <2>5. /\ t \in Seq(EventRecords)
        /\ Len(t) = IF m + 1 <= len + 1 THEN (len + 1) - (m + 1) + 1 ELSE 0
        /\ \A i \in 1..((len + 1) - (m + 1) + 1) : t[i] = new[(m + 1) + i - 1]
    BY <2>2, <2>4, SubSeqProperties
  <2>6. (len + 1) - (m + 1) + 1 = InboxMax /\ \A i \in Nat : (m + 1) + i - 1 = m + i
    BY <1>7, <2>3
  <2>7. Len(t) = InboxMax
    BY <1>7, <2>3, <2>5, <2>6
  <2>8. DOMAIN t = 1..InboxMax
    BY <2>5, <2>7
  <2>9. \A i \in 1..InboxMax : t[i] = new[m + i] /\ m + i \in 1..(len + 1)
    BY <1>7, <2>3, <2>5, <2>6
  <2>10. IsInjective(t)
    <3> SUFFICES ASSUME NEW i \in 1..InboxMax, NEW j \in 1..InboxMax, t[i] = t[j]
                 PROVE  i = j
      BY <2>8 DEF IsInjective
    <3>1. m + i = m + j
      BY <1>5, <2>9
    <3> QED
      BY <1>7, <3>1
  <2> QED
    BY <1>6, <1>7, <2>5, <2>7, <2>8, <2>9, <2>10
<1> QED
  BY <1>1, <1>3, <1>8, <1>9

LEMMA DeliverKeeps ==
    ASSUME ClusterBounds, ClusterInv, NEW request \in wire, Cluster!Handle(request), Cluster!Deliver(request)
    PROVE  ClusterInv'
<1>1. /\ request.kind = "event" /\ wire' = wire \ {request} /\ made' = made
      /\ coordinationInbox' =
            [coordinationInbox EXCEPT ![request.to] = Cluster!Kept(Append(coordinationInbox[request.to], request.event))]
      /\ UNCHANGED <<Cluster!bridgeVars, services>>
  BY DEF Cluster!Handle, Cluster!Deliver
<1>2. request \in EventCalls
  BY <1>1, CallsAreOfAKind DEF ClusterInv
<1>3. PICK d \in Members, e \in EventRecords : d = request.to /\ e = request.event
  BY <1>2 DEF EventCalls
<1>4. PICK s, t : s = coordinationInbox[d] /\ t = Cluster!Kept(Append(s, e))
  OBVIOUS
<1>5. s \in Seq(EventRecords) /\ IsInjective(s) /\ \A k \in DOMAIN s : s[k] # e
  BY <1>1, <1>3, <1>4 DEF ClusterInv, ClusterTyped, InboxHolds, OnTheirWay
<1>6. /\ t \in Seq(EventRecords) /\ IsInjective(t) /\ Len(t) <= InboxMax
      /\ \A k \in DOMAIN t : t[k] = e \/ \E j \in DOMAIN s : t[k] = s[j]
  BY <1>4, <1>5, KeptIsApart
<1>7. /\ coordinationInbox'[d] = t
      /\ \A c \in Members : c # d => coordinationInbox'[c] = coordinationInbox[c]
      /\ coordinationInbox' \in [Members -> Seq(EventRecords)]
  BY <1>1, <1>3, <1>4, <1>6 DEF ClusterInv, ClusterTyped
<1>8. ClusterTyped'
  BY <1>1, <1>7 DEF ClusterInv, ClusterTyped, Cluster!bridgeVars
<1>9. ASSUME NEW c \in Members PROVE InboxHolds(c)'
  <2>1. CASE c = d
    <3>1. \A k \in DOMAIN t : t[k].n < made /\ t[k].agent # d
      BY <1>1, <1>3, <1>4, <1>6 DEF ClusterInv, InboxHolds, OnTheirWay
    <3> QED
      BY <1>1, <1>6, <1>7, <2>1, <3>1 DEF InboxHolds
  <2>2. CASE c # d
    BY <1>1, <1>7, <2>2 DEF ClusterInv, InboxHolds
  <2> QED
    BY <2>1, <2>2
<1>10. ASSUME NEW other \in wire', other.kind = "event"
       PROVE  /\ other.event.n < made' /\ other.to # other.event.agent
              /\ \A k \in DOMAIN coordinationInbox'[other.to] :
                    coordinationInbox'[other.to][k] # other.event
  <2>1. other \in wire /\ other # request /\ other \in EventCalls
    BY <1>1, <1>10, CallsAreOfAKind DEF ClusterInv
  <2>2. other.to = d => other.event # e
    BY <1>2, <1>3, <2>1 DEF EventCalls
  <2>3. /\ other.event.n < made /\ other.to # other.event.agent
        /\ \A k \in DOMAIN coordinationInbox[other.to] :
                    coordinationInbox[other.to][k] # other.event
    BY <1>10, <2>1 DEF ClusterInv, OnTheirWay
  <2>4. CASE other.to = d
    BY <1>1, <1>4, <1>6, <1>7, <2>2, <2>3, <2>4
  <2>5. CASE other.to # d
    <3>1. other.to \in Members
      BY <2>1 DEF EventCalls
    <3> QED
      BY <1>1, <1>7, <2>3, <2>5, <3>1
  <2> QED
    BY <2>4, <2>5
<1>11. (Cluster!DeregisteredAreForgotten' <=> Cluster!DeregisteredAreForgotten)
       /\ (Cluster!ProvidersAreDistinct' <=> Cluster!ProvidersAreDistinct)
  BY <1>1 DEF Cluster!bridgeVars, Cluster!DeregisteredAreForgotten, Cluster!ProvidersAreDistinct
<1> QED
  BY <1>8, <1>9, <1>10, <1>11 DEF ClusterInv, OnTheirWay

\* Calls that are made.
LEMMA StartKeeps ==
    ASSUME ClusterBounds, ClusterInv, NEW requests, Cluster!Start(requests),
           UNCHANGED <<Cluster!bridgeVars, services, coordinationInbox>>,
           requests \subseteq EventCalls \cup SubscribeCalls \cup RegisterCalls,
           \A request \in requests : request.kind = "event" =>
              request.event.n = made /\ request.to # request.event.agent /\ request \in EventCalls
    PROVE  ClusterInv'
<1>1. made' = made + 1 /\ wire' = wire \cup requests /\ made \in Nat
  BY DEF Cluster!Start, ClusterInv, ClusterTyped
<1>2. ClusterTyped'
  BY <1>1 DEF ClusterInv, ClusterTyped, Cluster!bridgeVars
<1>3. ASSUME NEW d \in Members PROVE InboxHolds(d)'
  <2>1. InboxHolds(d) /\ \A k \in DOMAIN coordinationInbox[d] : coordinationInbox[d][k].n \in Nat
    <3>1. coordinationInbox[d] \in Seq(EventRecords)
      BY DEF ClusterInv, ClusterTyped
    <3>2. \A k \in DOMAIN coordinationInbox[d] : coordinationInbox[d][k] \in EventRecords
      BY <3>1
    <3> QED
      BY <3>2 DEF ClusterInv, EventRecords
  <2>2. \A n \in Nat : n < made => n < made'
    BY <1>1
  <2> QED
    BY <2>1, <2>2 DEF InboxHolds
<1>4. ASSUME NEW request \in wire', request.kind = "event"
      PROVE  /\ request.event.n < made' /\ request.to # request.event.agent
             /\ \A k \in DOMAIN coordinationInbox'[request.to] :
                   coordinationInbox'[request.to][k] # request.event
  <2>1. CASE request \in wire
    <3>1. request \in EventCalls
      BY <1>4, <2>1, CallsAreOfAKind DEF ClusterInv
    <3>2. request.event.n \in Nat
      BY <3>1 DEF EventCalls, EventRecords
    <3> QED
      BY <1>1, <1>4, <2>1, <3>2 DEF ClusterInv, OnTheirWay
  <2>2. CASE request \in requests
    <3>1. request.event.n = made /\ request.to # request.event.agent /\ request.to \in Members
      BY <1>4, <2>2 DEF EventCalls
    <3>2. \A k \in DOMAIN coordinationInbox[request.to] : coordinationInbox[request.to][k].n < made
      BY <3>1 DEF ClusterInv, InboxHolds
    <3> QED
      BY <1>1, <3>1, <3>2
  <2> QED
    BY <1>1, <2>1, <2>2
<1>5. (Cluster!DeregisteredAreForgotten' <=> Cluster!DeregisteredAreForgotten)
      /\ (Cluster!ProvidersAreDistinct' <=> Cluster!ProvidersAreDistinct)
  BY DEF Cluster!bridgeVars, Cluster!DeregisteredAreForgotten, Cluster!ProvidersAreDistinct
<1> QED
  BY <1>2, <1>3, <1>4, <1>5 DEF ClusterInv, OnTheirWay

-----------------------------------------------------------------------------
(* Subscriptions and services. *)

\* What changes no event.
LEMMA EventsStay ==
    ASSUME ClusterInv, wire' \subseteq wire, UNCHANGED <<made, coordinationInbox>>
    PROVE  OnTheirWay' /\ (\A d \in Members : InboxHolds(d))'
<1>1. \A request \in wire' : request \in wire
  OBVIOUS
<1>2. OnTheirWay'
  BY <1>1 DEF ClusterInv, OnTheirWay
<1>3. (\A d \in Members : InboxHolds(d))'
  BY DEF ClusterInv, InboxHolds
<1> QED
  BY <1>2, <1>3

LEMMA SubscribeKeeps ==
    ASSUME ClusterInv, NEW request \in wire, Cluster!Handle(request), Cluster!Subscribe(request)
    PROVE  ClusterInv'
<1>1. request \in SubscribeCalls
  BY CallsAreOfAKind DEF ClusterInv, Cluster!Subscribe
<1>2. PICK d \in Members, a \in Members, types \in SUBSET EventTypes :
         d = request.to /\ a = request.from /\ types = request.types
  BY <1>1 DEF SubscribeCalls
<1>3. /\ whitelists' = [whitelists EXCEPT ![d][a] = types]
      /\ subscriptions' = [subscriptions EXCEPT ![d] =
            [type \in EventTypes |-> IF type \in types THEN subscriptions[d][type] \cup {a}
                                     ELSE subscriptions[d][type]]]
      /\ asked' = asked \cup [d : {d}, a : {a}, type : types]
      /\ narrowed' = IF whitelists[d][a] \subseteq types THEN narrowed
                     ELSE narrowed \cup {<<d, a>>}
      /\ UNCHANGED <<services, coordinationInbox, made>> /\ wire' = wire \ {request}
  BY <1>2 DEF Cluster!Subscribe, Cluster!Handle, Cluster!RegisterAgent, ClusterInv, ClusterTyped
<1>4. ClusterTyped
  BY DEF ClusterInv
<1>5. /\ \A c, b \in Members : whitelists'[c][b] = IF c = d /\ b = a THEN types ELSE whitelists[c][b]
      /\ whitelists' \in [Members -> [Members -> SUBSET EventTypes]]
  BY <1>3, <1>4 DEF ClusterTyped
<1>6. /\ \A c \in Members, type \in EventTypes : subscriptions'[c][type] =
            IF c = d /\ type \in types THEN subscriptions[c][type] \cup {a}
            ELSE subscriptions[c][type]
      /\ subscriptions' \in [Members -> [EventTypes -> SUBSET Members]]
  BY <1>3, <1>4 DEF ClusterTyped
<1>7. ClusterTyped'
  BY <1>3, <1>4, <1>5, <1>6 DEF ClusterTyped
<1>8. ASSUME NEW c \in Members, NEW b \in Members, NEW type \in EventTypes,
             b \in subscriptions'[c][type]
      PROVE  /\ [d |-> c, a |-> b, type |-> type] \in asked'
             /\ type \in whitelists'[c][b] \/ <<c, b>> \in narrowed'
  <2>1. CASE b \in subscriptions[c][type]
    <3>1. /\ [d |-> c, a |-> b, type |-> type] \in asked
          /\ type \in whitelists[c][b] \/ <<c, b>> \in narrowed
      BY <2>1 DEF ClusterInv, Cluster!DeregisteredAreForgotten
    <3>2. type \in whitelists'[c][b] \/ <<c, b>> \in narrowed'
      <4>1. CASE c = d /\ b = a
        BY <1>3, <1>5, <3>1, <4>1
      <4>2. CASE ~(c = d /\ b = a)
        BY <1>3, <1>5, <3>1, <4>2
      <4> QED
        BY <4>1, <4>2
    <3> QED
      BY <1>3, <3>1, <3>2
  <2>2. CASE b \notin subscriptions[c][type]
    <3>1. c = d /\ b = a /\ type \in types
      <4>1. CASE c = d /\ type \in types
        BY <1>6, <1>8, <2>2, <4>1
      <4>2. CASE ~(c = d /\ type \in types)
        <5>1. subscriptions'[c][type] = subscriptions[c][type]
          BY <1>6, <4>2
        <5> QED
          BY <1>8, <2>2, <5>1
      <4> QED
        BY <4>1, <4>2
    <3> QED
      BY <1>3, <1>5, <3>1
  <2> QED
    BY <2>1, <2>2
<1>9. Cluster!ProvidersAreDistinct' <=> Cluster!ProvidersAreDistinct
  BY <1>3 DEF Cluster!ProvidersAreDistinct
<1> QED
  BY <1>3, <1>7, <1>8, <1>9, EventsStay DEF ClusterInv, Cluster!DeregisteredAreForgotten

LEMMA RegisterKeeps ==
    ASSUME ClusterInv, NEW request \in wire, Cluster!Handle(request), Cluster!RegisterService(request)
    PROVE  ClusterInv'
<1>1. request \in RegisterCalls
  BY CallsAreOfAKind DEF ClusterInv, Cluster!RegisterService
<1>2. PICK d \in Members, a \in Members, name \in Services, n \in Nat :
         d = request.to /\ a = request.from /\ name = request.name /\ n = request.n
  BY <1>1 DEF RegisterCalls
<1>3. PICK new : new = (Cluster!Without(services[d][name], a) \cup {[agent |-> a, n |-> n]})
  OBVIOUS
<1>4. /\ services' = [services EXCEPT ![d][name] = new]
      /\ UNCHANGED <<Cluster!bridgeVars, coordinationInbox, made>> /\ wire' = wire \ {request}
  BY <1>2, <1>3 DEF Cluster!RegisterService, Cluster!Handle, Cluster!Registered
<1>5. ClusterTyped
  BY DEF ClusterInv
<1>6. new \in SUBSET [agent : Members, n : Nat]
  BY <1>3, <1>5 DEF ClusterTyped, Cluster!Without
<1>7. /\ \A c \in Members, other \in Services : services'[c][other] =
            IF c = d /\ other = name THEN new ELSE services[c][other]
      /\ services' \in [Members -> [Services -> SUBSET [agent : Members, n : Nat]]]
  BY <1>4, <1>5, <1>6 DEF ClusterTyped
<1>8. \A e, f \in new : e.agent = f.agent => e = f
  BY <1>3 DEF Cluster!Without, ClusterInv, Cluster!ProvidersAreDistinct
<1>9. Cluster!ProvidersAreDistinct'
  BY <1>7, <1>8 DEF ClusterInv, Cluster!ProvidersAreDistinct
<1>10. ClusterTyped' /\ (Cluster!DeregisteredAreForgotten' <=> Cluster!DeregisteredAreForgotten)
  BY <1>4, <1>5, <1>7 DEF ClusterTyped, Cluster!DeregisteredAreForgotten, Cluster!bridgeVars
<1> QED
  BY <1>4, <1>9, <1>10, EventsStay DEF ClusterInv

LEMMA DeregisterKeeps ==
    ASSUME ClusterInv, NEW d \in Members, NEW a \in Members, Cluster!Deregister(d, a)
    PROVE  ClusterInv'
<1>1. ClusterTyped
  BY DEF ClusterInv
<1>2. /\ subscriptions' = [subscriptions EXCEPT ![d] = Cluster!Unsubscribed(d, a)]
      /\ whitelists' = [whitelists EXCEPT ![d][a] = {}]
      /\ services' = [services EXCEPT ![d] =
            [name \in Services |-> Cluster!Without(services[d][name], a)]]
      /\ UNCHANGED <<wire, coordinationInbox, made, asked, narrowed>>
  BY <1>1 DEF Cluster!Deregister, ClusterTyped
<1>3. /\ \A c, b \in Members : whitelists'[c][b] = IF c = d /\ b = a THEN {} ELSE whitelists[c][b]
      /\ whitelists' \in [Members -> [Members -> SUBSET EventTypes]]
  BY <1>1, <1>2 DEF ClusterTyped
<1>4. Cluster!Unsubscribed(d, a) \in [EventTypes -> SUBSET Members]
  BY <1>1 DEF ClusterTyped, Cluster!Unsubscribed
<1>5. /\ \A c \in Members, type \in EventTypes : subscriptions'[c][type] =
            IF c = d THEN Cluster!Unsubscribed(d, a)[type] ELSE subscriptions[c][type]
      /\ subscriptions' \in [Members -> [EventTypes -> SUBSET Members]]
  BY <1>1, <1>2, <1>4 DEF ClusterTyped
<1>6. /\ \A c \in Members, name \in Services : services'[c][name] =
            IF c = d THEN Cluster!Without(services[d][name], a) ELSE services[c][name]
      /\ services' \in [Members -> [Services -> SUBSET [agent : Members, n : Nat]]]
  BY <1>1, <1>2 DEF ClusterTyped, Cluster!Without
<1>7. ClusterTyped'
  BY <1>1, <1>2, <1>3, <1>5, <1>6 DEF ClusterTyped
<1>8. ASSUME NEW c \in Members, NEW b \in Members, NEW type \in EventTypes,
             b \in subscriptions'[c][type]
      PROVE  /\ [d |-> c, a |-> b, type |-> type] \in asked'
             /\ type \in whitelists'[c][b] \/ <<c, b>> \in narrowed'
  <2>1. /\ b \in subscriptions[c][type]
        /\ c = d /\ b = a => type \notin whitelists[c][b]
    BY <1>5, <1>8 DEF Cluster!Unsubscribed
  <2> QED
    BY <1>2, <1>3, <2>1 DEF ClusterInv, Cluster!DeregisteredAreForgotten
<1>9. Cluster!ProvidersAreDistinct'
  <2>1. \A c \in Members, name \in Services : services'[c][name] \subseteq services[c][name]
    BY <1>6 DEF Cluster!Without
  <2> QED
    BY <2>1 DEF ClusterInv, Cluster!ProvidersAreDistinct
<1> QED
  BY <1>2, <1>7, <1>8, <1>9, EventsStay DEF ClusterInv, Cluster!DeregisteredAreForgotten

LEMMA RestartKeeps ==
    ASSUME ClusterBounds, ClusterInv, NEW d \in Members, Cluster!Restart(d)
    PROVE  ClusterInv'
<1>1. ClusterTyped /\ <<>> \in Seq(EventRecords) /\ DOMAIN <<>> = {} /\ Len(<<>>) = 0
  BY DEF ClusterInv
<1>2. /\ \A c \in Members, type \in EventTypes :
            subscriptions'[c][type] = IF c = d THEN {} ELSE subscriptions[c][type]
      /\ subscriptions' \in [Members -> [EventTypes -> SUBSET Members]]
  BY <1>1 DEF ClusterTyped, Cluster!Restart
<1>3. /\ \A c, b \in Members : whitelists'[c][b] = IF c = d THEN {} ELSE whitelists[c][b]
      /\ whitelists' \in [Members -> [Members -> SUBSET EventTypes]]
  BY <1>1 DEF ClusterTyped, Cluster!Restart
<1>4. /\ \A c \in Members, name \in Services :
            services'[c][name] = IF c = d THEN {} ELSE services[c][name]
      /\ services' \in [Members -> [Services -> SUBSET [agent : Members, n : Nat]]]
  BY <1>1 DEF ClusterTyped, Cluster!Restart
<1>5. /\ \A c \in Members : coordinationInbox'[c] = IF c = d THEN <<>> ELSE coordinationInbox[c]
      /\ coordinationInbox' \in [Members -> Seq(EventRecords)]
  BY <1>1 DEF ClusterTyped, Cluster!Restart
<1>6. wire' = wire /\ made' = made
  BY DEF Cluster!Restart
<1>7. ClusterTyped'
  BY <1>1, <1>2, <1>3, <1>4, <1>5, <1>6 DEF ClusterTyped
<1>8. ASSUME NEW c \in Members PROVE InboxHolds(c)'
  BY <1>1, <1>5, <1>6 DEF ClusterInv, InboxHolds, IsInjective, ClusterBounds
<1>9. ASSUME NEW request \in wire, request.kind = "event"
      PROVE  /\ request.event.n < made /\ request.to # request.event.agent
             /\ \A k \in DOMAIN coordinationInbox'[request.to] :
                   coordinationInbox'[request.to][k] # request.event
  <2>1. request.to \in Members
    BY <1>1, <1>9, CallsAreOfAKind DEF EventCalls
  <2> QED
    BY <1>1, <1>5, <1>9, <2>1 DEF ClusterInv, OnTheirWay
<1>10. ASSUME NEW c \in Members, NEW b \in Members, NEW type \in EventTypes,
              b \in subscriptions'[c][type]
       PROVE  /\ [d |-> c, a |-> b, type |-> type] \in asked'
              /\ type \in whitelists'[c][b] \/ <<c, b>> \in narrowed'
  <2>1. c # d /\ b \in subscriptions[c][type]
    BY <1>2, <1>10
  <2>2. asked' = {x \in asked : x.d # d} /\ narrowed' = {x \in narrowed : x[1] # d}
    BY DEF Cluster!Restart
  <2> QED
    BY <1>3, <2>1, <2>2 DEF ClusterInv, Cluster!DeregisteredAreForgotten
<1>11. Cluster!ProvidersAreDistinct'
  BY <1>4 DEF ClusterInv, Cluster!ProvidersAreDistinct
<1> QED
  BY <1>6, <1>7, <1>8, <1>9, <1>10, <1>11 DEF ClusterInv, OnTheirWay, Cluster!DeregisteredAreForgotten

LEMMA ClusterGoesOn == ClusterBounds /\ ClusterInv /\ [Cluster!Next]_Cluster!vars => ClusterInv'
<1> SUFFICES ASSUME ClusterBounds, ClusterInv, [Cluster!Next]_Cluster!vars PROVE ClusterInv'
  OBVIOUS
<1>1. CASE UNCHANGED Cluster!vars \/ \E request \in wire : Cluster!Fail(request)
  <2>1. UNCHANGED <<Cluster!bridgeVars, services, coordinationInbox, made>> /\ wire' \subseteq wire
    BY <1>1 DEF Cluster!Fail, Cluster!vars
  <2>2. ClusterTyped' /\ (Cluster!DeregisteredAreForgotten' <=> Cluster!DeregisteredAreForgotten)
        /\ (Cluster!ProvidersAreDistinct' <=> Cluster!ProvidersAreDistinct)
    BY <2>1 DEF ClusterInv, ClusterTyped, Cluster!bridgeVars, Cluster!DeregisteredAreForgotten,
                Cluster!ProvidersAreDistinct
  <2> QED
    BY <2>1, <2>2, EventsStay DEF ClusterInv
<1>2. ASSUME NEW d \in Members, NEW type \in EventTypes, Cluster!Publish(d, type) PROVE ClusterInv'
  <2>1. PICK requests : requests = [kind : {"event"}, to : Cluster!Recipients(d, type),
                              event : {[type |-> type, agent |-> d, n |-> made]}]
    OBVIOUS
  <2>2. Cluster!Start(requests) /\ UNCHANGED <<Cluster!bridgeVars, services, coordinationInbox>>
    BY <1>2, <2>1 DEF Cluster!Publish
  <2>3. made \in Nat /\ Cluster!Recipients(d, type) \subseteq Members \ {d}
    BY DEF ClusterInv, ClusterTyped, Cluster!Recipients
  <2>4. \A request \in requests : /\ request \in EventCalls /\ request.event.n = made
                            /\ request.to # request.event.agent
    BY <2>1, <2>3 DEF EventCalls, EventRecords
  <2> QED
    BY <2>2, <2>4, StartKeeps
<1>3. ASSUME NEW a \in Members, NEW d \in Members, NEW types \in SUBSET EventTypes \ {{}},
             Cluster!SubscribeTo(a, d, types)
      PROVE  ClusterInv'
  <2>1. PICK request : request = [kind |-> "subscribe", to |-> d, from |-> a, types |-> types, n |-> made]
    OBVIOUS
  <2>2. request \in SubscribeCalls /\ request.kind # "event"
    BY <2>1 DEF SubscribeCalls, ClusterInv, ClusterTyped
  <2>3. Cluster!Start({request}) /\ UNCHANGED <<Cluster!bridgeVars, services, coordinationInbox>>
    BY <1>3, <2>1 DEF Cluster!SubscribeTo
  <2> QED
    BY <2>2, <2>3, StartKeeps
<1>4. ASSUME NEW a \in Members, NEW d \in Members, NEW name \in Services, Cluster!RegisterOn(a, d, name)
      PROVE  ClusterInv'
  <2>1. PICK request : request = [kind |-> "register", to |-> d, from |-> a, name |-> name, n |-> made]
    OBVIOUS
  <2>2. request \in RegisterCalls /\ request.kind # "event"
    BY <2>1 DEF RegisterCalls, ClusterInv, ClusterTyped
  <2>3. Cluster!Start({request}) /\ UNCHANGED <<Cluster!bridgeVars, services, coordinationInbox>>
    BY <1>4, <2>1 DEF Cluster!RegisterOn
  <2> QED
    BY <2>2, <2>3, StartKeeps
<1>5. ASSUME NEW request \in wire, Cluster!Handle(request) PROVE ClusterInv'
  BY <1>5, DeliverKeeps, SubscribeKeeps, RegisterKeeps DEF Cluster!Handle
<1>6. ASSUME NEW d \in Members, NEW a \in Members, Cluster!Deregister(d, a) PROVE ClusterInv'
  BY <1>6, DeregisterKeeps
<1>7. ASSUME NEW d \in Members, Cluster!Restart(d) PROVE ClusterInv'
  BY <1>7, RestartKeeps
<1> QED
  BY <1>1, <1>2, <1>3, <1>4, <1>5, <1>6, <1>7 DEF Cluster!Next

\* A coordination event is in an inbox once and only of another daemon, a daemon that was
\* deregistered is nobody's subscriber but for types it had given up, and a lookup names a
\* provider once (event-bridge.ts, global-service-registry.ts): for any daemons, calls and
\* losses.
THEOREM ClusterKeepsApart ==
    ASSUME ClusterBounds
    PROVE  Cluster!Spec => [](Cluster!EventsArriveOnce /\ Cluster!DeregisteredAreForgotten /\ Cluster!ProvidersAreDistinct)
<1>1. Cluster!Init => ClusterInv
  BY ClusterBegins
<1>2. ClusterInv /\ [Cluster!Next]_Cluster!vars => ClusterInv'
  BY ClusterGoesOn
<1>3. ClusterInv => Cluster!EventsArriveOnce /\ Cluster!DeregisteredAreForgotten /\ Cluster!ProvidersAreDistinct
  BY SameInjections DEF ClusterInv, InboxHolds, Cluster!EventsArriveOnce
<1> QED
  BY <1>1, <1>2, <1>3, PTL DEF Cluster!Spec


\* The default session and the persisted ones have ids, and None is no id.
AttachedBounds ==
  Default \in Ids /\ OnDisk \subseteq Ids /\ NoOne \notin Ids /\ ReplayCount \in Nat

SessionMessages == (Ids \cup {NoOne}) \X Nat
ClientMessages == [event : {"message", "result"}, body : SessionMessages]

AttachedTyped ==
  /\ live \subseteq Ids
  /\ history \in [Ids -> Seq(Ids \X Nat)] /\ said \in [Ids -> Nat]
  /\ DOMAIN origin = Ids
  /\ socket \in [Clients -> {"none", "open", "cut", "gone"}]
  /\ subs \in [Ids -> SUBSET Clients]
  /\ slow \subseteq Clients
  /\ ask \in [Clients -> [do : {"nothing", "attach", "detach"}, session : Ids \cup {NoOne}]]
  /\ \A c \in Clients : ask[c].do = "detach" => ask[c].session \in Ids
  /\ loading \in [Clients -> Ids \cup {NoOne}]
  /\ out \in [Clients -> Seq(ClientMessages)]
  /\ at \in [Clients -> {"idle", "calling", "attached", "leaving", "left"}]
  /\ shown \in [Clients -> Seq(SessionMessages)]
  /\ DOMAIN owed = Clients

\* The server has yet to answer the attach call.
Unanswered(c) == ask[c].do = "attach" \/ loading[c] # NoOne

Subscribed(c) == {s \in Ids : c \in subs[s]}

\* What each phase of a client says of its socket, its call and its subscriptions.
PhaseHolds(c) ==
  /\ at[c] = "idle" => socket[c] = "none" /\ ask[c] = Attachment!Quiet /\ loading[c] = NoOne
                         /\ c \notin slow
  /\ at[c] \in {"calling", "attached", "leaving"} => socket[c] = "open"
  /\ at[c] = "left" => socket[c] \in {"cut", "gone"}
  /\ at[c] \in {"calling", "attached"} => ask[c].do # "detach"
  /\ Unanswered(c) => at[c] \in {"calling", "left"}
  /\ ask[c].do = "attach" => loading[c] = NoOne
  /\ Unanswered(c) \/ at[c] = "idle" => Subscribed(c) = {}
  /\ \A s, t \in Subscribed(c) : s = t
  /\ socket[c] = "gone" =>
       /\ ask[c] = Attachment!Quiet /\ c \notin slow
       /\ \A s \in Subscribed(c) : origin[s] # NoOne

\* Consecutive messages of session s from position j on, the last with number n.
TellsFrom(q, j, s, n) ==
  \A k \in j..Len(q) : q[k].event = "message" /\ q[k].body = <<s, n - (Len(q) - k)>>

\* One answer, and such messages after it.
AnswersThen(q, s, n) ==
  \E j \in 1..Len(q) :
    /\ q[j].event = "result"
    /\ \A k \in 1..(j - 1) : q[k].event = "message"
    /\ TellsFrom(q, j + 1, s, n)

ShownUpTo(q, s, n) == \A k \in 1..Len(q) : q[k] = <<s, n - (Len(q) - k)>>

\* What is on its way to a client, and what it was shown.
StreamHolds(c) ==
  /\ at[c] \in {"idle", "left"} \/ Unanswered(c) => out[c] = <<>>
  /\ at[c] \in {"idle", "calling", "left"} => shown[c] = <<>>
  /\ at[c] = "calling" /\ ~Unanswered(c) =>
       \E s \in Subscribed(c) : AnswersThen(out[c], s, said[s])
  /\ at[c] = "attached" =>
       \E s \in Subscribed(c) :
         /\ TellsFrom(out[c], 1, s, said[s])
         /\ ShownUpTo(shown[c], s, said[s] - Len(out[c]))

AttachedInv ==
  /\ AttachedTyped
  /\ \A c \in Clients : PhaseHolds(c) /\ StreamHolds(c)

\* What a session and a history write is made of messages (Event, Result, Stored, Replay).
LEMMA AttachedWrites ==
  ASSUME AttachedBounds
  PROVE  /\ \A s \in Ids, n \in Nat : Attachment!Event(s, n) \in ClientMessages
         /\ \A s \in Ids \cup {NoOne} : Attachment!Result(s) \in ClientMessages
         /\ \A s \in Ids : Attachment!Stored(s) \in Seq(Ids \X Nat)
         /\ \A s, q : q \in Seq(Ids \X Nat) =>
              /\ Attachment!LastOf(q, ReplayCount) \in Seq(SessionMessages)
              /\ Attachment!Replay(s, q) \in Seq(ClientMessages)
<1>1. \A s \in Ids, n \in Nat : Attachment!Event(s, n) \in ClientMessages
  BY DEF Attachment!Event, ClientMessages, SessionMessages
<1>2. \A s \in Ids \cup {NoOne} : Attachment!Result(s) \in ClientMessages
  BY DEF Attachment!Result, ClientMessages, SessionMessages
<1>3. \A s \in Ids : Attachment!Stored(s) \in Seq(Ids \X Nat)
  BY DEF Attachment!Stored
<1>4. ASSUME NEW s, NEW q, q \in Seq(Ids \X Nat)
      PROVE  Attachment!LastOf(q, ReplayCount) \in Seq(SessionMessages) /\ Attachment!Replay(s, q) \in Seq(ClientMessages)
  <2>1. q \in Seq(SessionMessages)
    BY <1>4 DEF SessionMessages
  <2>2. PICK i \in Nat \ {0} : i = IF Len(q) > ReplayCount THEN Len(q) - ReplayCount + 1 ELSE 1
    <3>1. PICK m \in Nat : m = Len(q)
      BY <1>4
    <3> QED
      BY <3>1 DEF AttachedBounds
  <2>3. Attachment!LastOf(q, ReplayCount) = SubSeq(q, i, Len(q))
    BY <2>2 DEF Attachment!LastOf
  <2>4. Attachment!LastOf(q, ReplayCount) \in Seq(SessionMessages)
    BY <2>1, <2>2, <2>3
  <2>5. Attachment!Replay(s, q) \in Seq(ClientMessages)
    <3>1. PICK last : last = Attachment!LastOf(q, ReplayCount)
      OBVIOUS
    <3>2. PICK m \in Nat : DOMAIN last = 1..m
      BY <2>4, <3>1, LenProperties
    <3>3. \A k \in 1..m : [event |-> "message", body |-> last[k]] \in ClientMessages
      <4> TAKE k \in 1..m
      <4>1. last[k] \in SessionMessages
        BY <2>4, <3>1, <3>2, ElementOfSeq, LenProperties
      <4> QED
        BY <4>1 DEF ClientMessages
    <3>4. Attachment!Replay(s, q) = [k \in 1..m |-> [event |-> "message", body |-> last[k]]]
      BY <3>1, <3>2 DEF Attachment!Replay
    <3> QED
      BY <3>3, <3>4, SeqDef
  <2> QED
    BY <2>4, <2>5
<1> QED
  BY <1>1, <1>2, <1>3, <1>4

LEMMA AttachedBegins == ASSUME AttachedBounds PROVE Attachment!Init => AttachedInv
<1> SUFFICES ASSUME Attachment!Init PROVE AttachedInv
  OBVIOUS
<1>1. AttachedTyped
  <2>1. \A T : <<>> \in Seq(T)
    OBVIOUS
  <2> QED
    BY <2>1 DEF Attachment!Init, AttachedTyped, AttachedBounds, Attachment!Quiet
<1>2. ASSUME NEW c \in Clients PROVE PhaseHolds(c) /\ StreamHolds(c)
  BY DEF Attachment!Init, PhaseHolds, StreamHolds, Attachment!Quiet, Unanswered, Subscribed
<1> QED
  BY <1>1, <1>2 DEF AttachedInv

\* Ended keeps the kinds of values (IPCClient.cleanup).
LEMMA AttachedEnds ==
  ASSUME AttachedTyped, NEW c \in Clients, Attachment!Ended(c)
  PROVE  /\ socket' \in [Clients -> {"none", "open", "cut", "gone"}]
         /\ at' \in [Clients -> {"idle", "calling", "attached", "leaving", "left"}]
         /\ out' \in [Clients -> Seq(ClientMessages)]
         /\ shown' \in [Clients -> Seq(SessionMessages)]
         /\ DOMAIN owed' = Clients
  BY DEF Attachment!Ended, AttachedTyped

\* Subscribe keeps the kinds of values.
LEMMA AttachedSubscribes ==
  ASSUME AttachedTyped, AttachedBounds, NEW c \in Clients, NEW s \in Ids,
         NEW replay \in Seq(ClientMessages), Attachment!Subscribe(c, s, replay)
  PROVE  /\ subs' \in [Ids -> SUBSET Clients]
         /\ out' \in [Clients -> Seq(ClientMessages)]
<1>1. Attachment!Result(s) \in ClientMessages
  BY AttachedWrites
<1>2. out[c] \o replay \o <<Attachment!Result(s)>> \in Seq(ClientMessages)
  BY <1>1 DEF AttachedTyped
<1> QED
  BY <1>2 DEF Attachment!Subscribe, AttachedTyped

LEMMA AttachedTypedStays ==
  ASSUME AttachedBounds PROVE AttachedTyped /\ [Attachment!Next]_Attachment!vars => AttachedTyped'
<1> SUFFICES ASSUME AttachedTyped, [Attachment!Next]_Attachment!vars PROVE AttachedTyped'
  OBVIOUS
<1>a. CASE UNCHANGED Attachment!vars
  BY <1>a DEF AttachedTyped, Attachment!vars, Attachment!sessionVars, Attachment!serverVars, Attachment!clientVars
<1>b. ASSUME NEW s \in Ids, NEW kind \in Attachment!Kinds, Attachment!Say(s, kind) PROVE AttachedTyped'
  <2>1. CASE Attachment!Forwarded(s, kind)
    <3>1. said[s] + 1 \in Nat
      BY DEF AttachedTyped
    <3>2. Attachment!Event(s, said[s] + 1) \in ClientMessages
      BY <3>1, AttachedWrites
    <3>3. said' \in [Ids -> Nat]
      BY <1>b, <2>1, <3>1 DEF Attachment!Say, AttachedTyped
    <3>4. <<s, said[s] + 1>> \in Ids \X Nat
      BY <3>1
    <3>5. history' \in [Ids -> Seq(Ids \X Nat)]
      <4>1. Append(history[s], <<s, said[s] + 1>>) \in Seq(Ids \X Nat)
        BY <3>4, AppendProperties DEF AttachedTyped
      <4>2. history' = [history EXCEPT ![s] = Append(history[s], <<s, said[s] + 1>>)]
        BY <1>b, <2>1 DEF Attachment!Say
      <4> QED
        BY <4>1, <4>2 DEF AttachedTyped
    <3>6. out' \in [Clients -> Seq(ClientMessages)]
      <4>1. \A d \in Clients : Append(out[d], Attachment!Event(s, said[s] + 1)) \in Seq(ClientMessages)
        BY <3>2, AppendProperties DEF AttachedTyped
      <4>2. out' = Attachment!Pushed(s, Attachment!Event(s, said[s] + 1))
        BY <1>b, <2>1 DEF Attachment!Say, Attachment!Broadcast
      <4> QED
        BY <4>1, <4>2 DEF Attachment!Pushed, AttachedTyped
    <3>7. slow' \subseteq Clients
      BY <1>b, <2>1 DEF Attachment!Say, Attachment!Broadcast, Attachment!Written, AttachedTyped
    <3> QED
      BY <1>b, <3>3, <3>5, <3>6, <3>7 DEF Attachment!Say, AttachedTyped, Attachment!clientVars
  <2>2. CASE ~Attachment!Forwarded(s, kind)
    BY <1>b, <2>2 DEF Attachment!Say, AttachedTyped, Attachment!clientVars
  <2> QED
    BY <2>1, <2>2
<1>c. ASSUME NEW c \in Clients, NEW s \in live \cup OnDisk \cup {NoOne}, Attachment!Attach(c, s)
      PROVE  AttachedTyped'
  <2>1. s \in Ids \cup {NoOne}
    BY DEF AttachedTyped, AttachedBounds
  <2> QED
    BY <1>c, <2>1 DEF Attachment!Attach, AttachedTyped, Attachment!sessionVars
<1>d. ASSUME NEW c \in Clients, Attachment!HandleAttach(c) PROVE AttachedTyped'
  <2>1. ask' \in [Clients -> [do : {"nothing", "attach", "detach"}, session : Ids \cup {NoOne}]]
    BY <1>d DEF Attachment!HandleAttach, AttachedTyped, Attachment!Quiet
  <2>2. \A d \in Clients : ask'[d].do = "detach" => ask'[d].session \in Ids
    BY <1>d DEF Attachment!HandleAttach, AttachedTyped, Attachment!Quiet
  <2>3. PICK s \in Ids \cup {NoOne} : s = ask[c].session
    BY DEF AttachedTyped
  <2>4. CASE /\ s = NoOne
             /\ \E new \in Attachment!Unused : live' = live \cup {new} /\ Attachment!Subscribe(c, new, <<>>)
             /\ UNCHANGED <<loading, owed>>
    <3>1. PICK new \in Attachment!Unused : live' = live \cup {new} /\ Attachment!Subscribe(c, new, <<>>)
      BY <2>4
    <3>2. new \in Ids /\ <<>> \in Seq(ClientMessages)
      BY DEF Attachment!Unused
    <3> QED
      BY <1>d, <2>1, <2>2, <2>4, <3>1, <3>2, AttachedSubscribes
      DEF Attachment!HandleAttach, AttachedTyped, Attachment!clientVars
  <2>5. CASE /\ s \in live
             /\ Attachment!Subscribe(c, s, Attachment!Replay(s, history[s]))
             /\ owed' = [owed EXCEPT ![c] = Attachment!LastOf(history[s], ReplayCount)]
             /\ UNCHANGED <<live, loading>>
    <3>1. s \in Ids
      BY <2>5 DEF AttachedTyped
    <3>2. Attachment!Replay(s, history[s]) \in Seq(ClientMessages)
      BY <3>1, AttachedWrites DEF AttachedTyped
    <3> QED
      BY <1>d, <2>1, <2>2, <2>5, <3>1, <3>2, AttachedSubscribes
      DEF Attachment!HandleAttach, AttachedTyped, Attachment!clientVars
  <2>6. CASE loading' = [loading EXCEPT ![c] = s] /\ UNCHANGED <<live, subs, out, owed>>
    BY <1>d, <2>1, <2>2, <2>6 DEF Attachment!HandleAttach, AttachedTyped, Attachment!clientVars
  <2> QED
    BY <1>d, <2>3, <2>4, <2>5, <2>6 DEF Attachment!HandleAttach
<1>e. ASSUME NEW c \in Clients, Attachment!Loaded(c) PROVE AttachedTyped'
  <2>1. loading[c] \in Ids /\ loading' \in [Clients -> Ids \cup {NoOne}]
    BY <1>e DEF Attachment!Loaded, AttachedTyped
  <2>2. CASE /\ history' = [history EXCEPT ![Attachment!StateOf(loading[c])] = Attachment!Stored(loading[c])]
             /\ \E new \in Attachment!Unused :
                   /\ live' = live \cup {new}
                   /\ origin' = [origin EXCEPT ![new] = loading[c]]
                   /\ Attachment!Subscribe(c, new, Attachment!Replay(new, history'[new]))
             /\ owed' = [owed EXCEPT ![c] = Attachment!Stored(loading[c])]
             /\ UNCHANGED <<socket, at, shown>>
    <3>1. PICK new \in Attachment!Unused : /\ live' = live \cup {new}
                                /\ origin' = [origin EXCEPT ![new] = loading[c]]
                                /\ Attachment!Subscribe(c, new, Attachment!Replay(new, history'[new]))
      BY <2>2
    <3>2. new \in Ids
      BY DEF Attachment!Unused
    <3>3. Attachment!Stored(loading[c]) \in Seq(Ids \X Nat)
      BY <2>1, AttachedWrites
    <3>4. history' \in [Ids -> Seq(Ids \X Nat)]
      BY <2>2, <3>3 DEF AttachedTyped
    <3>5. Attachment!Replay(new, history'[new]) \in Seq(ClientMessages)
      BY <3>2, <3>4, AttachedWrites
    <3> QED
      BY <1>e, <2>1, <2>2, <3>1, <3>2, <3>4, <3>5, AttachedSubscribes DEF Attachment!Loaded, AttachedTyped
  <2>3. CASE Attachment!Ended(c) /\ UNCHANGED <<history, live, origin, subs>>
    BY <1>e, <2>1, <2>3, AttachedEnds DEF Attachment!Loaded, AttachedTyped
  <2> QED
    BY <1>e, <2>2, <2>3 DEF Attachment!Loaded
<1>f. ASSUME NEW c \in Clients, Attachment!HandleDetach(c) PROVE AttachedTyped'
  <2>1. ask' \in [Clients -> [do : {"nothing", "attach", "detach"}, session : Ids \cup {NoOne}]]
    BY <1>f DEF Attachment!HandleDetach, AttachedTyped, Attachment!Quiet
  <2>2. \A d \in Clients : ask'[d].do = "detach" => ask'[d].session \in Ids
    BY <1>f DEF Attachment!HandleDetach, AttachedTyped, Attachment!Quiet
  <2>3. Attachment!Result(NoOne) \in ClientMessages
    BY AttachedWrites
  <2>4. out' \in [Clients -> Seq(ClientMessages)]
    BY <1>f, <2>3 DEF Attachment!HandleDetach, AttachedTyped
  <2>5. subs' \in [Ids -> SUBSET Clients]
    BY <1>f DEF Attachment!HandleDetach, AttachedTyped
  <2> QED
    BY <1>f, <2>1, <2>2, <2>4, <2>5 DEF Attachment!HandleDetach, AttachedTyped, Attachment!sessionVars, Attachment!clientVars
<1>g. ASSUME NEW c \in Clients, Attachment!SlowTimeout(c) PROVE AttachedTyped'
  <2>1. ask' \in [Clients -> [do : {"nothing", "attach", "detach"}, session : Ids \cup {NoOne}]]
    BY <1>g DEF Attachment!SlowTimeout, AttachedTyped, Attachment!Quiet
  <2>2. \A d \in Clients : ask'[d].do = "detach" => ask'[d].session \in Ids
    BY <1>g DEF Attachment!SlowTimeout, AttachedTyped, Attachment!Quiet
  <2> QED
    BY <1>g, <2>1, <2>2, AttachedEnds DEF Attachment!SlowTimeout, AttachedTyped, Attachment!sessionVars
<1>h. ASSUME NEW c \in Clients, Attachment!Cleanup(c) PROVE AttachedTyped'
  <2>1. ask' \in [Clients -> [do : {"nothing", "attach", "detach"}, session : Ids \cup {NoOne}]]
    BY <1>h DEF Attachment!Cleanup, AttachedTyped, Attachment!Quiet
  <2>2. \A d \in Clients : ask'[d].do = "detach" => ask'[d].session \in Ids
    BY <1>h DEF Attachment!Cleanup, AttachedTyped, Attachment!Quiet
  <2>3. subs' \in [Ids -> SUBSET Clients]
    BY <1>h DEF Attachment!Cleanup, Attachment!Forgotten, AttachedTyped
  <2> QED
    BY <1>h, <2>1, <2>2, <2>3 DEF Attachment!Cleanup, AttachedTyped, Attachment!sessionVars, Attachment!clientVars
<1>i. ASSUME NEW c \in Clients, Attachment!Quit(c) PROVE AttachedTyped'
  <2>1. PICK s \in Ids : s = Attachment!SessionOf(c)
    BY <1>i DEF Attachment!Quit, Attachment!SessionOf
  <2> QED
    BY <1>i, <2>1 DEF Attachment!Quit, AttachedTyped, Attachment!sessionVars, Attachment!serverVars
<1>j. ASSUME NEW c \in Clients, Attachment!CallTimeout(c) PROVE AttachedTyped'
  BY <1>j, AttachedEnds DEF Attachment!CallTimeout, AttachedTyped, Attachment!sessionVars
<1>k. ASSUME NEW c \in Clients, NEW n \in 1..Len(out[c]), Attachment!Read(c, n) PROVE AttachedTyped'
  <2>1. UNCHANGED <<Attachment!sessionVars, subs, slow, loading, ask>>
    BY <1>k DEF Attachment!Read
  <2>2. CASE Attachment!Ended(c)
    BY <2>1, <2>2, AttachedEnds DEF AttachedTyped, Attachment!sessionVars
  <2>3. CASE ~Attachment!Ended(c)
    <3>0. out[c] \in Seq(ClientMessages) /\ Len(out[c]) \in Nat
      BY DEF AttachedTyped
    <3>1. out' = [out EXCEPT ![c] = SubSeq(@, n + 1, Len(@))]
      BY <1>k, <2>3 DEF Attachment!Read
    <3>2. SubSeq(out[c], n + 1, Len(out[c])) \in Seq(ClientMessages)
      BY <3>0
    <3>3. out' \in [Clients -> Seq(ClientMessages)]
      BY <3>1, <3>2 DEF AttachedTyped
    <3>4. [k \in 1..n |-> out[c][k].body] \in Seq(SessionMessages)
      <4>1. \A k \in 1..n : out[c][k] \in ClientMessages
        BY <3>0, ElementOfSeq
      <4>2. \A k \in 1..n : out[c][k].body \in SessionMessages
        BY <4>1 DEF ClientMessages
      <4>3. n \in Nat
        BY <3>0
      <4> QED
        BY <4>2, <4>3, SeqDef
    <3>5. shown' \in [Clients -> Seq(SessionMessages)]
      <4>1. shown[c] \o [k \in 1..n |-> out[c][k].body] \in Seq(SessionMessages)
        BY <3>4 DEF AttachedTyped
      <4> QED
        BY <1>k, <2>3, <4>1 DEF Attachment!Read, AttachedTyped
    <3>6. /\ at' \in [Clients -> {"idle", "calling", "attached", "leaving", "left"}]
          /\ UNCHANGED <<socket, owed>>
      BY <1>k, <2>3 DEF Attachment!Read, AttachedTyped
    <3> QED
      BY <2>1, <3>3, <3>5, <3>6 DEF AttachedTyped, Attachment!sessionVars
  <2> QED
    BY <2>2, <2>3
<1> QED
  BY <1>a, <1>b, <1>c, <1>d, <1>e, <1>f, <1>g, <1>h, <1>i, <1>j, <1>k DEF Attachment!Next

\* A client whose own part of the state stays keeps its phase.
LEMMA AttachedPhaseFrame ==
  ASSUME NEW d \in Clients, PhaseHolds(d),
         at'[d] = at[d], socket'[d] = socket[d], ask'[d] = ask[d], loading'[d] = loading[d],
         d \in slow' => d \in slow \/ (socket[d] # "gone" /\ Subscribed(d) # {}),
         Subscribed(d)' = Subscribed(d),
         \A s \in Subscribed(d) : origin[s] # NoOne => origin'[s] # NoOne
  PROVE  PhaseHolds(d)'
BY DEF PhaseHolds, Unanswered

\* And what it was told.
LEMMA AttachedStreamFrame ==
  ASSUME NEW d \in Clients, StreamHolds(d),
         at'[d] = at[d], ask'[d] = ask[d], loading'[d] = loading[d],
         out'[d] = out[d], shown'[d] = shown[d], said' = said,
         Subscribed(d)' = Subscribed(d)
  PROVE  StreamHolds(d)'
BY DEF StreamHolds, Unanswered

\* A client that ended has nothing coming to it.
LEMMA AttachedEndHolds ==
  ASSUME AttachedTyped, NEW c \in Clients, PhaseHolds(c), Attachment!Ended(c),
         at[c] # "idle", ask'[c] \in {ask[c], Attachment!Quiet}, loading'[c] \in {loading[c], NoOne},
         Subscribed(c)' = Subscribed(c), UNCHANGED origin, slow' \subseteq slow
  PROVE  PhaseHolds(c)' /\ StreamHolds(c)'
<1>1. at'[c] = "left" /\ out'[c] = <<>> /\ shown'[c] = <<>>
  BY DEF Attachment!Ended, AttachedTyped
<1>2. socket'[c] = IF socket[c] = "open" THEN "cut" ELSE socket[c]
  BY DEF Attachment!Ended, AttachedTyped
<1>3. PhaseHolds(c)'
  BY <1>1, <1>2 DEF PhaseHolds, Unanswered, Attachment!Quiet, AttachedTyped
<1>4. StreamHolds(c)'
  BY <1>1 DEF StreamHolds
<1> QED
  BY <1>3, <1>4

LEMMA AttachedEndOthers ==
  ASSUME AttachedTyped, NEW c \in Clients, NEW d \in Clients, d # c, Attachment!Ended(c)
  PROVE  at'[d] = at[d] /\ socket'[d] = socket[d] /\ out'[d] = out[d] /\ shown'[d] = shown[d]
BY DEF Attachment!Ended, AttachedTyped

LEMMA AttachedPhasesStay ==
  ASSUME AttachedBounds, AttachedTyped, AttachedTyped', Attachment!Next,
         \A c \in Clients : PhaseHolds(c) /\ StreamHolds(c), NEW d \in Clients
  PROVE  PhaseHolds(d)'
<1>0. PhaseHolds(d)
  OBVIOUS
<1>b. ASSUME NEW s \in Ids, NEW kind \in Attachment!Kinds, Attachment!Say(s, kind) PROVE PhaseHolds(d)'
  <2>1. UNCHANGED <<origin, socket, subs, ask, loading, at>>
    BY <1>b DEF Attachment!Say, Attachment!clientVars
  <2>2. d \in slow' => d \in slow \/ (socket[d] # "gone" /\ Subscribed(d) # {})
    BY <1>b DEF Attachment!Say, Attachment!Broadcast, Attachment!Written, Subscribed
  <2>3. Subscribed(d)' = Subscribed(d)
    BY <2>1 DEF Subscribed
  <2> QED
    BY <1>0, <2>1, <2>2, <2>3, AttachedPhaseFrame
<1>c. ASSUME NEW c \in Clients, NEW s \in live \cup OnDisk \cup {NoOne}, Attachment!Attach(c, s)
      PROVE  PhaseHolds(d)'
  <2>1. UNCHANGED <<origin, subs, slow, loading>> /\ Subscribed(d)' = Subscribed(d)
    BY <1>c DEF Attachment!Attach, Attachment!sessionVars, Subscribed
  <2>2. CASE d # c
    <3>1. at'[d] = at[d] /\ socket'[d] = socket[d] /\ ask'[d] = ask[d]
      BY <1>c, <2>2 DEF Attachment!Attach, AttachedTyped
    <3> QED
      BY <1>0, <2>1, <3>1, AttachedPhaseFrame
  <2>3. CASE d = c
    <3>1. /\ at[c] = "idle" /\ at'[c] = "calling" /\ socket'[c] = "open"
          /\ ask'[c] = [do |-> "attach", session |-> s]
      BY <1>c DEF Attachment!Attach, AttachedTyped
    <3> QED
      BY <1>0, <2>1, <2>3, <3>1 DEF PhaseHolds, Unanswered
  <2> QED
    BY <2>2, <2>3
<1>d. ASSUME NEW c \in Clients, Attachment!HandleAttach(c) PROVE PhaseHolds(d)'
  <2>1. UNCHANGED <<origin, socket, slow, at>>
    BY <1>d DEF Attachment!HandleAttach, Attachment!sessionVars, Attachment!clientVars
  <2>2. CASE d # c
    <3>1. ask'[d] = ask[d] /\ loading'[d] = loading[d]
      BY <1>d, <2>2 DEF Attachment!HandleAttach, AttachedTyped
    <3>2. Subscribed(d)' = Subscribed(d)
      <4>1. \A new \in Ids : subs' = [subs EXCEPT ![new] = @ \cup {c}] => Subscribed(d)' = Subscribed(d)
        BY <2>2 DEF Subscribed, AttachedTyped
      <4>2. CASE UNCHANGED subs
        BY <4>2 DEF Subscribed
      <4> QED
        BY <1>d, <4>1, <4>2 DEF Attachment!HandleAttach, Attachment!Subscribe, AttachedTyped, Attachment!Unused
    <3> QED
      BY <1>0, <2>1, <3>1, <3>2, AttachedPhaseFrame
  <2>3. CASE d = c
    <3>1. ask[c].do = "attach" /\ ask'[c] = Attachment!Quiet /\ Attachment!Quiet.do = "nothing"
      BY <1>d DEF Attachment!HandleAttach, AttachedTyped, Attachment!Quiet
    <3>2. at[c] \in {"calling", "left"} /\ loading[c] = NoOne /\ Subscribed(c) = {}
      BY <1>0, <2>3, <3>1 DEF PhaseHolds, Unanswered
    <3>3. socket[c] # "gone"
      BY <1>0, <2>3, <3>1 DEF PhaseHolds
    <3>4. CASE \E new \in Ids : \E replay : Attachment!Subscribe(c, new, replay) /\ UNCHANGED loading
      <4>1. PICK new \in Ids : subs' = [subs EXCEPT ![new] = @ \cup {c}]
        BY <3>4 DEF Attachment!Subscribe
      <4>2. \A s \in Ids : c \in subs'[s] => s = new
        BY <3>2, <4>1 DEF Subscribed, AttachedTyped
      <4>3. \A s, t \in Subscribed(c)' : s = t
        BY <4>2 DEF Subscribed
      <4> QED
        BY <1>0, <2>1, <2>3, <3>1, <3>2, <3>3, <3>4, <4>3 DEF PhaseHolds, Unanswered
    <3>5. CASE loading' = [loading EXCEPT ![c] = ask[c].session] /\ UNCHANGED subs
      <4>1. Subscribed(c)' = {}
        BY <3>2, <3>5 DEF Subscribed
      <4> QED
        BY <1>0, <2>1, <2>3, <3>1, <3>2, <3>3, <4>1 DEF PhaseHolds, Unanswered
    <3> QED
      BY <1>d, <2>3, <3>4, <3>5 DEF Attachment!HandleAttach, Attachment!Unused, AttachedTyped
  <2> QED
    BY <2>2, <2>3
<1>e. ASSUME NEW c \in Clients, Attachment!Loaded(c) PROVE PhaseHolds(d)'
  <2>1. UNCHANGED <<slow, ask>> /\ loading[c] \in Ids /\ loading[c] # NoOne
    BY <1>e DEF Attachment!Loaded, AttachedTyped
  <2>2. \A e \in Clients : e # c => loading'[e] = loading[e]
    BY <1>e DEF Attachment!Loaded, AttachedTyped
  <2>3. loading'[c] = NoOne
    BY <1>e DEF Attachment!Loaded, AttachedTyped
  <2>4. PhaseHolds(c) /\ at[c] \in {"calling", "left"} /\ Subscribed(c) = {} /\ ask[c].do # "attach"
    BY <2>1 DEF PhaseHolds, Unanswered
  <2>5. CASE Attachment!Ended(c) /\ UNCHANGED <<history, live, origin, subs>>
    <3>1. Subscribed(d)' = Subscribed(d)
      BY <2>5 DEF Subscribed
    <3>2. CASE d = c
      BY <2>1, <2>3, <2>4, <2>5, <3>1, <3>2, AttachedEndHolds
    <3>3. CASE d # c
      BY <1>0, <2>1, <2>2, <2>5, <3>1, <3>3, AttachedEndOthers, AttachedPhaseFrame
    <3> QED
      BY <3>2, <3>3
  <2>6. CASE /\ \E new \in Attachment!Unused :
                  /\ live' = live \cup {new}
                  /\ origin' = [origin EXCEPT ![new] = loading[c]]
                  /\ Attachment!Subscribe(c, new, Attachment!Replay(new, history'[new]))
             /\ UNCHANGED <<socket, at, shown>>
    <3>1. PICK new \in Ids : /\ subs' = [subs EXCEPT ![new] = @ \cup {c}]
                             /\ origin' = [origin EXCEPT ![new] = loading[c]]
      BY <2>6 DEF Attachment!Subscribe, Attachment!Unused
    <3>2. /\ origin'[new] # NoOne
          /\ \A s \in Ids : origin[s] # NoOne => origin'[s] # NoOne
      BY <2>1, <3>1 DEF AttachedTyped
    <3>3. CASE d # c
      <4>1. Subscribed(d)' = Subscribed(d)
        BY <3>1, <3>3 DEF Subscribed, AttachedTyped
      <4>2. \A s \in Subscribed(d) : origin[s] # NoOne => origin'[s] # NoOne
        BY <3>2 DEF Subscribed
      <4> QED
        BY <1>0, <2>1, <2>2, <2>6, <3>3, <4>1, <4>2, AttachedPhaseFrame
    <3>4. CASE d = c
      <4>1. \A s \in Ids : c \in subs'[s] => s = new
        BY <2>4, <3>1 DEF Subscribed, AttachedTyped
      <4>2. \A s \in Subscribed(c)' : s = new
        BY <4>1 DEF Subscribed
      <4>3. ~Unanswered(c)' /\ at[c] # "idle"
        BY <2>1, <2>3, <2>4 DEF Unanswered
      <4> QED
        BY <1>0, <2>1, <2>4, <2>6, <3>2, <3>4, <4>2, <4>3 DEF PhaseHolds
    <3> QED
      BY <3>3, <3>4
  <2> QED
    BY <1>e, <2>5, <2>6 DEF Attachment!Loaded
<1>f. ASSUME NEW c \in Clients, Attachment!HandleDetach(c) PROVE PhaseHolds(d)'
  <2>1. UNCHANGED <<origin, socket, slow, loading, at>>
    BY <1>f DEF Attachment!HandleDetach, Attachment!sessionVars, Attachment!clientVars
  <2>2. ask[c].session \in Ids /\ subs' = [subs EXCEPT ![ask[c].session] = @ \ {c}]
    BY <1>f DEF Attachment!HandleDetach, AttachedTyped
  <2>3. CASE d # c
    <3>1. ask'[d] = ask[d]
      BY <1>f, <2>3 DEF Attachment!HandleDetach, AttachedTyped
    <3>2. Subscribed(d)' = Subscribed(d)
      BY <2>2, <2>3 DEF Subscribed, AttachedTyped
    <3> QED
      BY <1>0, <2>1, <3>1, <3>2, AttachedPhaseFrame
  <2>4. CASE d = c
    <3>1. ask'[c] = Attachment!Quiet /\ ask[c].do = "detach" /\ Attachment!Quiet.do = "nothing"
      BY <1>f DEF Attachment!HandleDetach, AttachedTyped, Attachment!Quiet
    <3>2. Subscribed(c)' \subseteq Subscribed(c)
      BY <2>2 DEF Subscribed, AttachedTyped
    <3> QED
      BY <1>0, <2>1, <2>4, <3>1, <3>2 DEF PhaseHolds, Unanswered, Attachment!Quiet
  <2> QED
    BY <2>3, <2>4
<1>g. ASSUME NEW c \in Clients, Attachment!SlowTimeout(c) PROVE PhaseHolds(d)'
  <2>1. UNCHANGED <<origin, subs, loading>> /\ Attachment!Ended(c) /\ slow' \subseteq slow
    BY <1>g DEF Attachment!SlowTimeout, Attachment!sessionVars
  <2>2. Subscribed(d)' = Subscribed(d)
    BY <2>1 DEF Subscribed
  <2>3. CASE d # c
    <3>1. ask'[d] = ask[d]
      BY <1>g, <2>3 DEF Attachment!SlowTimeout, AttachedTyped
    <3> QED
      BY <1>0, <2>1, <2>2, <2>3, <3>1, AttachedEndOthers, AttachedPhaseFrame
  <2>4. CASE d = c
    <3>1. ask'[c] = Attachment!Quiet
      BY <1>g DEF Attachment!SlowTimeout, AttachedTyped
    <3>2. /\ at'[c] = "left" /\ Attachment!Quiet.do = "nothing"
          /\ socket'[c] = IF socket[c] = "open" THEN "cut" ELSE socket[c]
      BY <2>1 DEF Attachment!Ended, AttachedTyped, Attachment!Quiet
    <3>3. socket[c] # "gone"
      BY <1>0, <1>g, <2>4 DEF Attachment!SlowTimeout, PhaseHolds
    <3>4. socket'[c] \in {"cut", "none"}
      BY <3>2, <3>3 DEF AttachedTyped
    <3>5. PhaseHolds(c)'
      <4>1. CASE at[c] = "idle"
        BY <1>0, <1>g, <2>4, <4>1 DEF PhaseHolds, Attachment!SlowTimeout, AttachedTyped
      <4>2. CASE at[c] # "idle"
        BY <1>0, <2>1, <2>2, <2>4, <3>1, <4>2, AttachedEndHolds
      <4> QED
        BY <4>1, <4>2
    <3> QED
      BY <2>4, <3>5
  <2> QED
    BY <2>3, <2>4
<1>h. ASSUME NEW c \in Clients, Attachment!Cleanup(c) PROVE PhaseHolds(d)'
  <2>1. UNCHANGED <<origin, loading, at>>
    BY <1>h DEF Attachment!Cleanup, Attachment!sessionVars, Attachment!clientVars
  <2>2. CASE d # c
    <3>1. ask'[d] = ask[d] /\ socket'[d] = socket[d] /\ (d \in slow' => d \in slow)
      BY <1>h, <2>2 DEF Attachment!Cleanup, AttachedTyped
    <3>2. Subscribed(d)' = Subscribed(d)
      BY <1>h, <2>2 DEF Attachment!Cleanup, Attachment!Forgotten, Subscribed
    <3> QED
      BY <1>0, <2>1, <3>1, <3>2, AttachedPhaseFrame
  <2>3. CASE d = c
    <3>1. /\ ask'[c] = Attachment!Quiet /\ socket[c] = "cut" /\ socket'[c] = "gone" /\ c \notin slow'
          /\ Attachment!Quiet.do = "nothing"
      BY <1>h DEF Attachment!Cleanup, AttachedTyped, Attachment!Quiet
    <3>2. Subscribed(c)' = {}
      BY <1>h DEF Attachment!Cleanup, Attachment!Forgotten, Subscribed
    <3>3. at[c] = "left"
      BY <1>0, <2>3, <3>1 DEF PhaseHolds, AttachedTyped
    <3> QED
      BY <1>0, <2>1, <2>3, <3>1, <3>2, <3>3 DEF PhaseHolds, Unanswered
  <2> QED
    BY <2>2, <2>3
<1>i. ASSUME NEW c \in Clients, Attachment!Quit(c) PROVE PhaseHolds(d)'
  <2>1. UNCHANGED <<origin, socket, slow, subs, loading>> /\ Subscribed(d)' = Subscribed(d)
    BY <1>i DEF Attachment!Quit, Attachment!sessionVars, Attachment!serverVars, Subscribed
  <2>2. CASE d # c
    <3>1. ask'[d] = ask[d] /\ at'[d] = at[d]
      BY <1>i, <2>2 DEF Attachment!Quit, AttachedTyped
    <3> QED
      BY <1>0, <2>1, <3>1, AttachedPhaseFrame
  <2>3. CASE d = c
    <3>1. at[c] = "attached" /\ at'[c] = "leaving" /\ ask'[c].do = "detach"
      BY <1>i DEF Attachment!Quit, AttachedTyped
    <3>2. socket[c] = "open" /\ ~Unanswered(c)
      BY <1>0, <2>3, <3>1 DEF PhaseHolds
    <3> QED
      BY <1>0, <2>1, <2>3, <3>1, <3>2 DEF PhaseHolds, Unanswered
  <2> QED
    BY <2>2, <2>3
<1>j. ASSUME NEW c \in Clients, Attachment!Ended(c), at[c] # "idle", UNCHANGED <<Attachment!sessionVars, subs, slow, loading, ask>>
      PROVE  PhaseHolds(d)'
  <2>1. Subscribed(d)' = Subscribed(d) /\ UNCHANGED origin
    BY <1>j DEF Subscribed, Attachment!sessionVars
  <2>2. CASE d = c
    BY <1>0, <1>j, <2>1, <2>2, AttachedEndHolds
  <2>3. CASE d # c
    BY <1>0, <1>j, <2>1, <2>3, AttachedEndOthers, AttachedPhaseFrame
  <2> QED
    BY <2>2, <2>3
<1>k. ASSUME NEW c \in Clients, NEW n \in 1..Len(out[c]), Attachment!Read(c, n), ~Attachment!Ended(c)
      PROVE  PhaseHolds(d)'
  <2>1. UNCHANGED <<origin, subs, slow, loading, ask, socket>> /\ Subscribed(d)' = Subscribed(d)
    BY <1>k DEF Attachment!Read, Attachment!sessionVars, Subscribed
  <2>2. CASE at'[d] = at[d]
    BY <1>0, <2>1, <2>2, AttachedPhaseFrame
  <2>3. CASE at'[d] # at[d]
    <3>1. d = c /\ at[c] = "calling" /\ at'[c] = "attached"
      BY <1>k, <2>3 DEF Attachment!Read, AttachedTyped
    <3>2. out[c] # <<>>
      BY <1>k
    <3>3. ~Unanswered(c)
      BY <3>2 DEF StreamHolds
    <3> QED
      BY <1>0, <2>1, <3>1, <3>3 DEF PhaseHolds, Unanswered
  <2> QED
    BY <2>2, <2>3
<1>l. ASSUME NEW c \in Clients, Attachment!CallTimeout(c) PROVE PhaseHolds(d)'
  BY <1>j, <1>l DEF Attachment!CallTimeout
<1>m. ASSUME NEW c \in Clients, NEW n \in 1..Len(out[c]), Attachment!Read(c, n) PROVE PhaseHolds(d)'
  <2>1. at[c] # "idle"
    BY <1>m DEF Attachment!Read
  <2> QED
    BY <1>j, <1>k, <1>m, <2>1 DEF Attachment!Read
<1> QED
  BY <1>b, <1>c, <1>d, <1>e, <1>f, <1>g, <1>h, <1>i, <1>l, <1>m DEF Attachment!Next

\* The next message of the session goes on where the last one was.
LEMMA AttachedTellsMore ==
  ASSUME NEW q \in Seq(ClientMessages), NEW s \in Ids, NEW n \in Nat, NEW j \in Nat \ {0},
         TellsFrom(q, j, s, n)
  PROVE  TellsFrom(Append(q, Attachment!Event(s, n + 1)), j, s, n + 1)
<1>1. PICK m \in Nat : m = Len(q)
  OBVIOUS
<1>2. Attachment!Event(s, n + 1) \in ClientMessages
  BY DEF Attachment!Event, ClientMessages, SessionMessages
<1>3. PICK r \in Seq(ClientMessages) : r = Append(q, Attachment!Event(s, n + 1))
  BY <1>2, AppendProperties
<1>4. Len(r) = m + 1 /\ \A k \in 1..m : r[k] = q[k]
  BY <1>1, <1>2, <1>3, AppendProperties
<1>5. r[m + 1] = Attachment!Event(s, n + 1)
  BY <1>1, <1>2, <1>3, AppendProperties
<1>6. ASSUME NEW k \in j..(m + 1)
      PROVE  r[k].event = "message" /\ r[k].body = <<s, (n + 1) - ((m + 1) - k)>>
  <2>1. CASE k = m + 1
    BY <1>5, <2>1 DEF Attachment!Event
  <2>2. CASE k # m + 1
    <3>1. k \in j..m /\ k \in 1..m /\ (n + 1) - ((m + 1) - k) = n - (m - k)
      BY <2>2
    <3> QED
      BY <1>1, <1>4, <3>1 DEF TellsFrom
  <2> QED
    BY <2>1, <2>2
<1> QED
  BY <1>3, <1>4, <1>6 DEF TellsFrom

LEMMA AttachedAnswersMore ==
  ASSUME NEW q \in Seq(ClientMessages), NEW s \in Ids, NEW n \in Nat, AnswersThen(q, s, n)
  PROVE  AnswersThen(Append(q, Attachment!Event(s, n + 1)), s, n + 1)
<1>1. PICK m \in Nat : m = Len(q)
  OBVIOUS
<1>2. Attachment!Event(s, n + 1) \in ClientMessages
  BY DEF Attachment!Event, ClientMessages, SessionMessages
<1>3. PICK r \in Seq(ClientMessages) : r = Append(q, Attachment!Event(s, n + 1))
  BY <1>2, AppendProperties
<1>4. Len(r) = m + 1 /\ \A k \in 1..m : r[k] = q[k]
  BY <1>1, <1>2, <1>3, AppendProperties
<1>5. PICK j \in 1..m : /\ q[j].event = "result"
                        /\ \A k \in 1..(j - 1) : q[k].event = "message"
                        /\ TellsFrom(q, j + 1, s, n)
  BY <1>1 DEF AnswersThen
<1>6. TellsFrom(r, j + 1, s, n + 1)
  BY <1>3, <1>5, AttachedTellsMore
<1>7. j \in 1..Len(r) /\ r[j].event = "result" /\ \A k \in 1..(j - 1) : r[k].event = "message"
  BY <1>4, <1>5
<1> QED
  BY <1>3, <1>6, <1>7 DEF AnswersThen

\* What a client has not read keeps its numbers.
LEMMA AttachedRest ==
  ASSUME NEW q \in Seq(ClientMessages), NEW n \in 1..Len(q)
  PROVE  LET r == SubSeq(q, n + 1, Len(q))
         IN  /\ r \in Seq(ClientMessages) /\ Len(r) = Len(q) - n
             /\ \A k \in 1..(Len(q) - n) : r[k] = q[k + n]
<1>1. PICK m \in Nat : m = Len(q)
  OBVIOUS
<1>2. \A k \in (n + 1)..m : q[k] \in ClientMessages
  BY <1>1, ElementOfSeq
<1>3. PICK r : r = SubSeq(q, n + 1, m)
  OBVIOUS
<1>4. r \in Seq(ClientMessages) /\ Len(r) = m - n /\ \A k \in 1..(m - n) : r[k] = q[k + n]
  BY <1>1, <1>2, <1>3, SubSeqProperties
<1> QED
  BY <1>1, <1>3, <1>4

LEMMA AttachedTellsRest ==
  ASSUME NEW q \in Seq(ClientMessages), NEW n \in 1..Len(q), NEW s, NEW last \in Nat,
         NEW j \in Nat \ {0}, NEW i \in Nat \ {0}, i + n >= j, TellsFrom(q, j, s, last)
  PROVE  TellsFrom(SubSeq(q, n + 1, Len(q)), i, s, last)
<1>1. PICK m \in Nat : m = Len(q)
  OBVIOUS
<1>2. PICK r : r = SubSeq(q, n + 1, Len(q))
  OBVIOUS
<1>3. Len(r) = m - n /\ \A k \in 1..(m - n) : r[k] = q[k + n]
  BY <1>1, <1>2, AttachedRest
<1>4. ASSUME NEW k \in i..(m - n)
      PROVE  r[k].event = "message" /\ r[k].body = <<s, last - ((m - n) - k)>>
  <2>1. k + n \in j..m /\ k \in 1..(m - n) /\ (m - n) - k = m - (k + n)
    BY <1>1
  <2> QED
    BY <1>1, <1>3, <2>1 DEF TellsFrom
<1> QED
  BY <1>2, <1>3, <1>4 DEF TellsFrom

LEMMA AttachedAnswersRest ==
  ASSUME NEW q \in Seq(ClientMessages), NEW n \in 1..Len(q), NEW s, NEW last \in Nat,
         AnswersThen(q, s, last)
  PROVE  IF \E k \in 1..n : q[k].event = "result"
         THEN TellsFrom(SubSeq(q, n + 1, Len(q)), 1, s, last)
         ELSE AnswersThen(SubSeq(q, n + 1, Len(q)), s, last)
<1>1. PICK m \in Nat : m = Len(q)
  OBVIOUS
<1>2. PICK r : r = SubSeq(q, n + 1, Len(q))
  OBVIOUS
<1>3. Len(r) = m - n /\ \A k \in 1..(m - n) : r[k] = q[k + n]
  BY <1>1, <1>2, AttachedRest
<1>4. PICK j \in 1..m : /\ q[j].event = "result"
                        /\ \A k \in 1..(j - 1) : q[k].event = "message"
                        /\ TellsFrom(q, j + 1, s, last)
  BY <1>1 DEF AnswersThen
<1>5. CASE \E k \in 1..n : q[k].event = "result"
  <2>1. j <= n
    <3>1. PICK k \in 1..n : q[k].event = "result"
      BY <1>5
    <3>2. k \notin 1..(j - 1)
      BY <1>4, <3>1
    <3> QED
      BY <1>1, <3>2
  <2>2. TellsFrom(r, 1, s, last)
    BY <1>1, <1>2, <1>4, <2>1, AttachedTellsRest
  <2> QED
    BY <1>2, <1>5, <2>2
<1>6. CASE ~\E k \in 1..n : q[k].event = "result"
  <2>1. j > n
    BY <1>4, <1>6
  <2>2. TellsFrom(r, (j - n) + 1, s, last)
    BY <1>1, <1>2, <1>4, <2>1, AttachedTellsRest
  <2>3. j - n \in 1..(m - n) /\ r[j - n].event = "result"
    <3>1. j - n \in 1..(m - n) /\ (j - n) + n = j
      BY <1>1, <2>1
    <3> QED
      BY <1>3, <1>4, <3>1
  <2>4. \A k \in 1..((j - n) - 1) : r[k].event = "message"
    <3> TAKE k \in 1..((j - n) - 1)
    <3>1. k \in 1..(m - n) /\ k + n \in 1..(j - 1)
      BY <1>1, <2>1
    <3> QED
      BY <1>3, <1>4, <3>1
  <2>5. AnswersThen(r, s, last)
    BY <1>3, <2>2, <2>3, <2>4 DEF AnswersThen
  <2> QED
    BY <1>2, <1>6, <2>5
<1> QED
  BY <1>5, <1>6

\* What the handlers were given goes on with what was on its way.
LEMMA AttachedShownMore ==
  ASSUME NEW p \in Seq(SessionMessages), NEW q \in Seq(ClientMessages), NEW n \in 1..Len(q),
         NEW s, NEW last \in Nat, TellsFrom(q, 1, s, last), ShownUpTo(p, s, last - Len(q))
  PROVE  ShownUpTo(p \o [k \in 1..n |-> q[k].body], s, last - (Len(q) - n))
<1>1. PICK m \in Nat : m = Len(q)
  OBVIOUS
<1>2. PICK l \in Nat : l = Len(p)
  OBVIOUS
<1>3. PICK b : b = [k \in 1..n |-> q[k].body]
  OBVIOUS
<1>4. n \in Nat /\ n <= m
  BY <1>1
<1>5. \A k \in 1..n : q[k].body \in SessionMessages
  <2> TAKE k \in 1..n
  <2>1. q[k] \in ClientMessages
    BY <1>1, ElementOfSeq
  <2> QED
    BY <2>1 DEF ClientMessages
<1>6. b \in Seq(SessionMessages)
  BY <1>3, <1>4, <1>5, SeqDef
<1>7. Len(b) = n
  BY <1>3, <1>4, <1>6, LenProperties
<1>8. PICK r : r = p \o b
  OBVIOUS
<1>9. /\ Len(r) = l + n
      /\ \A k \in 1..(l + n) : r[k] = IF k <= l THEN p[k] ELSE b[k - l]
  BY <1>2, <1>6, <1>7, <1>8, ConcatProperties
<1>10. ASSUME NEW k \in 1..(l + n)
       PROVE  r[k] = <<s, (last - (m - n)) - ((l + n) - k)>>
  <2>1. CASE k <= l
    <3>1. p[k] = <<s, (last - m) - (l - k)>>
      BY <1>1, <1>2, <2>1 DEF ShownUpTo
    <3>2. (last - m) - (l - k) = (last - (m - n)) - ((l + n) - k)
      BY <1>4
    <3> QED
      BY <1>9, <2>1, <3>1, <3>2
  <2>2. CASE k > l
    <3>1. PICK i \in 1..n : i = k - l
      BY <2>2
    <3>2. r[k] = q[i].body
      BY <1>3, <1>9, <2>2, <3>1
    <3>3. q[i].body = <<s, last - (m - i)>>
      BY <1>1, <1>4 DEF TellsFrom
    <3>4. last - (m - i) = (last - (m - n)) - ((l + n) - k)
      BY <1>4, <3>1
    <3> QED
      BY <3>2, <3>3, <3>4
  <2> QED
    BY <2>1, <2>2
<1> QED
  BY <1>1, <1>3, <1>8, <1>9, <1>10 DEF ShownUpTo

\* The replay and the answer, for a client that has nothing coming.
LEMMA AttachedFirst ==
  ASSUME AttachedBounds, NEW replay \in Seq(ClientMessages), NEW s \in Ids, NEW n \in Nat,
         \A k \in 1..Len(replay) : replay[k].event = "message"
  PROVE  AnswersThen(<<>> \o replay \o <<Attachment!Result(s)>>, s, n)
<1>1. PICK m \in Nat : m = Len(replay)
  OBVIOUS
<1>2. Attachment!Result(s) \in ClientMessages
  BY AttachedWrites
<1>3. PICK r : r = replay \o <<Attachment!Result(s)>>
  OBVIOUS
<1>4. Len(r) = m + 1 /\ \A k \in 1..m : r[k] = replay[k]
  BY <1>1, <1>2, <1>3
<1>5. r[m + 1] = Attachment!Result(s)
  BY <1>1, <1>2, <1>3
<1>6. r = <<>> \o replay \o <<Attachment!Result(s)>>
  BY <1>3, ConcatEmptySeq
<1>7. TellsFrom(r, m + 2, s, n)
  BY <1>4 DEF TellsFrom
<1>8. /\ m + 1 \in 1..Len(r) /\ r[m + 1].event = "result"
      /\ \A k \in 1..((m + 1) - 1) : r[k].event = "message"
  BY <1>1, <1>4, <1>5 DEF Attachment!Result
<1>9. (m + 1) + 1 = m + 2
  OBVIOUS
<1> QED
  BY <1>6, <1>7, <1>8, <1>9 DEF AnswersThen

\* A replay holds messages only (replayHistory).
LEMMA AttachedReplays ==
  ASSUME AttachedBounds, NEW s, NEW q \in Seq(Ids \X Nat)
  PROVE  \A k \in 1..Len(Attachment!Replay(s, q)) : Attachment!Replay(s, q)[k].event = "message"
<1>1. Attachment!Replay(s, q) \in Seq(ClientMessages)
  BY AttachedWrites
<1>2. DOMAIN Attachment!Replay(s, q) = 1..Len(Attachment!Replay(s, q))
  BY <1>1, LenProperties
<1>3. \A k \in DOMAIN Attachment!Replay(s, q) : Attachment!Replay(s, q)[k].event = "message"
  BY DEF Attachment!Replay
<1> QED
  BY <1>2, <1>3

\* A client that is answered: what was on its way before is nothing.
LEMMA AttachedIsAnswered ==
  ASSUME AttachedBounds, AttachedTyped, NEW c \in Clients, PhaseHolds(c), StreamHolds(c),
         Unanswered(c), NEW s \in Ids, NEW replay \in Seq(ClientMessages),
         \A k \in 1..Len(replay) : replay[k].event = "message",
         Attachment!Subscribe(c, s, replay), ~Unanswered(c)', UNCHANGED <<at, shown, said>>
  PROVE  StreamHolds(c)'
<1>1. at[c] \in {"calling", "left"} /\ out[c] = <<>> /\ shown[c] = <<>>
  BY DEF PhaseHolds, StreamHolds
<1>2. CASE at[c] = "left"
  <2>1. out'[c] = <<>>
    BY <1>1, <1>2 DEF Attachment!Subscribe, PhaseHolds, AttachedTyped
  <2> QED
    BY <1>1, <1>2, <2>1 DEF StreamHolds
<1>3. CASE at[c] = "calling"
  <2>1. out'[c] = <<>> \o replay \o <<Attachment!Result(s)>>
    BY <1>1, <1>3 DEF Attachment!Subscribe, PhaseHolds, AttachedTyped
  <2>2. said[s] \in Nat
    BY DEF AttachedTyped
  <2>3. AnswersThen(out'[c], s, said[s])
    BY <2>1, <2>2, AttachedFirst
  <2>4. s \in Subscribed(c)'
    BY DEF Attachment!Subscribe, Subscribed, AttachedTyped
  <2> QED
    BY <1>1, <1>3, <2>3, <2>4 DEF StreamHolds
<1> QED
  BY <1>1, <1>2, <1>3

LEMMA AttachedStreamsStay ==
  ASSUME AttachedBounds, AttachedTyped, AttachedTyped', Attachment!Next,
         \A c \in Clients : PhaseHolds(c) /\ StreamHolds(c), NEW d \in Clients
  PROVE  StreamHolds(d)'
<1>0. PhaseHolds(d) /\ StreamHolds(d)
  OBVIOUS
<1>b. ASSUME NEW s \in Ids, NEW kind \in Attachment!Kinds, Attachment!Say(s, kind) PROVE StreamHolds(d)'
  <2>1. UNCHANGED <<socket, subs, ask, loading, at, shown>> /\ Subscribed(d)' = Subscribed(d)
    BY <1>b DEF Attachment!Say, Attachment!clientVars, Subscribed
  <2>2. CASE ~Attachment!Forwarded(s, kind)
    <3>1. UNCHANGED <<said, out>>
      BY <1>b, <2>2 DEF Attachment!Say
    <3> QED
      BY <1>0, <2>1, <3>1, AttachedStreamFrame
  <2>3. CASE Attachment!Forwarded(s, kind)
    <3>1. PICK n \in Nat : n = said[s]
      BY DEF AttachedTyped
    <3>2. said' = [said EXCEPT ![s] = n + 1] /\ out' = Attachment!Pushed(s, Attachment!Event(s, n + 1))
      BY <1>b, <2>3, <3>1 DEF Attachment!Say, Attachment!Broadcast
    <3>3. /\ said'[s] = n + 1
          /\ \A t \in Ids : t # s => said'[t] = said[t]
      BY <3>2 DEF AttachedTyped
    <3>4. CASE d \in subs[s] /\ socket[d] = "open"
      <4>1. s \in Subscribed(d) /\ \A t \in Subscribed(d) : t = s
        BY <1>0, <3>4 DEF Subscribed, PhaseHolds
      <4>2. at[d] \in {"calling", "attached", "leaving"} /\ ~Unanswered(d)
        BY <1>0, <3>4, <4>1 DEF PhaseHolds, AttachedTyped
      <4>3. out'[d] = Append(out[d], Attachment!Event(s, n + 1))
        BY <3>2, <3>4 DEF Attachment!Pushed, Attachment!Written
      <4>4. PICK q \in Seq(ClientMessages) : q = out[d]
        BY DEF AttachedTyped
      <4>5. Attachment!Event(s, n + 1) \in ClientMessages
        BY DEF Attachment!Event, ClientMessages, SessionMessages
      <4>6. Len(out'[d]) = Len(q) + 1
        BY <4>3, <4>4, <4>5, AppendProperties
      <4>7. CASE at[d] = "calling"
        <5>1. AnswersThen(q, s, n)
          BY <1>0, <3>1, <4>1, <4>2, <4>4, <4>7 DEF StreamHolds
        <5>2. AnswersThen(out'[d], s, said'[s])
          BY <3>1, <3>3, <4>3, <4>4, <5>1, AttachedAnswersMore
        <5> QED
          BY <1>0, <2>1, <4>1, <4>2, <4>7, <5>2 DEF StreamHolds, Unanswered
      <4>8. CASE at[d] = "attached"
        <5>1. TellsFrom(q, 1, s, n) /\ ShownUpTo(shown[d], s, n - Len(q))
          BY <1>0, <3>1, <4>1, <4>4, <4>8 DEF StreamHolds
        <5>2. TellsFrom(out'[d], 1, s, said'[s])
          BY <3>1, <3>3, <4>3, <4>4, <5>1, AttachedTellsMore
        <5>3. PICK m \in Nat : m = Len(q)
          OBVIOUS
        <5>4. (n + 1) - (m + 1) = n - m
          BY <5>3
        <5>5. ShownUpTo(shown'[d], s, said'[s] - Len(out'[d]))
          BY <2>1, <3>3, <4>6, <5>1, <5>3, <5>4
        <5> QED
          BY <1>0, <2>1, <4>1, <4>2, <4>8, <5>2, <5>5 DEF StreamHolds, Unanswered
      <4>9. CASE at[d] = "leaving"
        BY <1>0, <2>1, <4>2, <4>9 DEF StreamHolds, Unanswered
      <4> QED
        BY <4>2, <4>7, <4>8, <4>9
    <3>5. CASE ~(d \in subs[s] /\ socket[d] = "open")
      <4>1. out'[d] = out[d]
        BY <3>2, <3>5 DEF Attachment!Pushed, Attachment!Written
      <4>2. ASSUME at[d] \in {"calling", "attached"}
            PROVE  \A t \in Subscribed(d) : said'[t] = said[t]
        <5>1. d \notin subs[s]
          BY <1>0, <3>5, <4>2 DEF PhaseHolds
        <5> QED
          BY <3>3, <5>1 DEF Subscribed
      <4> QED
        BY <1>0, <2>1, <4>1, <4>2 DEF StreamHolds, Unanswered
    <3> QED
      BY <3>4, <3>5
  <2> QED
    BY <2>2, <2>3
<1>c. ASSUME NEW c \in Clients, NEW s \in live \cup OnDisk \cup {NoOne}, Attachment!Attach(c, s)
      PROVE  StreamHolds(d)'
  <2>1. UNCHANGED <<said, subs, loading, shown, out>> /\ Subscribed(d)' = Subscribed(d)
    BY <1>c DEF Attachment!Attach, Attachment!sessionVars, Subscribed
  <2>2. CASE d # c
    <3>1. at'[d] = at[d] /\ ask'[d] = ask[d]
      BY <1>c, <2>2 DEF Attachment!Attach, AttachedTyped
    <3> QED
      BY <1>0, <2>1, <3>1, AttachedStreamFrame
  <2>3. CASE d = c
    <3>1. /\ at[c] = "idle" /\ at'[c] = "calling"
          /\ ask'[c] = [do |-> "attach", session |-> s]
      BY <1>c DEF Attachment!Attach, AttachedTyped
    <3> QED
      BY <1>0, <2>1, <2>3, <3>1 DEF StreamHolds, Unanswered
  <2> QED
    BY <2>2, <2>3
<1>d. ASSUME NEW c \in Clients, Attachment!HandleAttach(c) PROVE StreamHolds(d)'
  <2>1. UNCHANGED <<said, at, shown>>
    BY <1>d DEF Attachment!HandleAttach, Attachment!clientVars
  <2>2. CASE d # c
    <3>1. ask'[d] = ask[d] /\ loading'[d] = loading[d]
      BY <1>d, <2>2 DEF Attachment!HandleAttach, AttachedTyped
    <3>2. Subscribed(d)' = Subscribed(d)
      <4>1. \A new \in Ids : subs' = [subs EXCEPT ![new] = @ \cup {c}] => Subscribed(d)' = Subscribed(d)
        BY <2>2 DEF Subscribed, AttachedTyped
      <4>2. CASE UNCHANGED subs
        BY <4>2 DEF Subscribed
      <4> QED
        BY <1>d, <4>1, <4>2 DEF Attachment!HandleAttach, Attachment!Subscribe, AttachedTyped, Attachment!Unused
    <3>3. out'[d] = out[d]
      <4>1. \A new, replay : Attachment!Subscribe(c, new, replay) => out'[d] = out[d]
        BY <2>2 DEF Attachment!Subscribe, AttachedTyped
      <4> QED
        BY <1>d, <4>1 DEF Attachment!HandleAttach
    <3> QED
      BY <1>0, <2>1, <3>1, <3>2, <3>3, AttachedStreamFrame
  <2>3. CASE d = c
    <3>1. ask[c].do = "attach" /\ ask'[c] = Attachment!Quiet /\ Attachment!Quiet.do = "nothing"
      BY <1>d DEF Attachment!HandleAttach, AttachedTyped, Attachment!Quiet
    <3>2. Unanswered(c) /\ at[c] \in {"calling", "left"} /\ loading[c] = NoOne
      BY <1>0, <2>3, <3>1 DEF PhaseHolds, Unanswered
    <3>3. ASSUME UNCHANGED loading PROVE ~Unanswered(c)'
      BY <3>1, <3>2, <3>3 DEF Unanswered
    <3>4. ASSUME NEW new \in Attachment!Unused, Attachment!Subscribe(c, new, <<>>), UNCHANGED loading
          PROVE  StreamHolds(d)'
      <4>1. new \in Ids /\ <<>> \in Seq(ClientMessages) /\ Len(<<>>) = 0
        BY DEF Attachment!Unused
      <4>2. \A k \in 1..Len(<<>>) : <<>>[k].event = "message"
        BY <4>1
      <4> QED
        BY <1>0, <2>1, <2>3, <3>2, <3>3, <3>4, <4>1, <4>2, AttachedIsAnswered
    <3>5. ASSUME NEW s \in live, Attachment!Subscribe(c, s, Attachment!Replay(s, history[s])), UNCHANGED loading
          PROVE  StreamHolds(d)'
      <4>1. s \in Ids /\ history[s] \in Seq(Ids \X Nat)
        BY DEF AttachedTyped
      <4>2. Attachment!Replay(s, history[s]) \in Seq(ClientMessages)
        BY <4>1, AttachedWrites
      <4>3. \A k \in 1..Len(Attachment!Replay(s, history[s])) : Attachment!Replay(s, history[s])[k].event = "message"
        BY <4>1, AttachedReplays
      <4> QED
        BY <1>0, <2>1, <2>3, <3>2, <3>3, <3>5, <4>1, <4>2, <4>3, AttachedIsAnswered
    <3>6. ASSUME UNCHANGED <<subs, out>>, loading' = [loading EXCEPT ![c] = ask[c].session],
                 ask[c].session # NoOne
          PROVE  StreamHolds(d)'
      <4>1. Unanswered(c)'
        BY <3>6 DEF Unanswered, AttachedTyped
      <4>2. out[c] = <<>> /\ shown[c] = <<>>
        BY <1>0, <2>3, <3>2 DEF StreamHolds
      <4> QED
        BY <2>1, <2>3, <3>2, <3>6, <4>1, <4>2 DEF StreamHolds
    <3> QED
      BY <1>d, <3>4, <3>5, <3>6 DEF Attachment!HandleAttach
  <2> QED
    BY <2>2, <2>3
<1>e. ASSUME NEW c \in Clients, Attachment!Loaded(c) PROVE StreamHolds(d)'
  <2>1. UNCHANGED <<said, slow, ask>> /\ loading[c] \in Ids /\ loading[c] # NoOne
    BY <1>e DEF Attachment!Loaded, AttachedTyped
  <2>2. \A e \in Clients : e # c => loading'[e] = loading[e]
    BY <1>e DEF Attachment!Loaded, AttachedTyped
  <2>3. loading'[c] = NoOne
    BY <1>e DEF Attachment!Loaded, AttachedTyped
  <2>4. PhaseHolds(c) /\ Unanswered(c) /\ ask[c].do # "attach" /\ at[c] # "idle"
    BY <2>1 DEF PhaseHolds, Unanswered
  <2>5. CASE Attachment!Ended(c) /\ UNCHANGED <<history, live, origin, subs>>
    <3>1. Subscribed(d)' = Subscribed(d)
      BY <2>5 DEF Subscribed
    <3>2. CASE d = c
      BY <2>1, <2>3, <2>4, <2>5, <3>1, <3>2, AttachedEndHolds
    <3>3. CASE d # c
      BY <1>0, <2>1, <2>2, <2>5, <3>1, <3>3, AttachedEndOthers, AttachedStreamFrame
    <3> QED
      BY <3>2, <3>3
  <2>6. CASE /\ \E new \in Attachment!Unused :
                  /\ live' = live \cup {new}
                  /\ origin' = [origin EXCEPT ![new] = loading[c]]
                  /\ Attachment!Subscribe(c, new, Attachment!Replay(new, history'[new]))
             /\ UNCHANGED <<socket, at, shown>>
    <3>1. PICK new \in Ids : Attachment!Subscribe(c, new, Attachment!Replay(new, history'[new]))
      BY <2>6 DEF Attachment!Unused
    <3>2. CASE d # c
      <4>1. Subscribed(d)' = Subscribed(d)
        BY <3>1, <3>2 DEF Attachment!Subscribe, Subscribed, AttachedTyped
      <4>2. out'[d] = out[d]
        BY <3>1, <3>2 DEF Attachment!Subscribe, AttachedTyped
      <4> QED
        BY <1>0, <2>1, <2>2, <2>6, <3>2, <4>1, <4>2, AttachedStreamFrame
    <3>3. CASE d = c
      <4>1. history'[new] \in Seq(Ids \X Nat)
        BY DEF AttachedTyped
      <4>2. Attachment!Replay(new, history'[new]) \in Seq(ClientMessages)
        BY <4>1, AttachedWrites
      <4>3. \A k \in 1..Len(Attachment!Replay(new, history'[new])) : Attachment!Replay(new, history'[new])[k].event = "message"
        BY <4>1, AttachedReplays
      <4>4. ~Unanswered(c)'
        BY <2>1, <2>3, <2>4 DEF Unanswered
      <4> QED
        BY <1>0, <2>1, <2>4, <2>6, <3>1, <3>3, <4>2, <4>3, <4>4, AttachedIsAnswered
    <3> QED
      BY <3>2, <3>3
  <2> QED
    BY <1>e, <2>5, <2>6 DEF Attachment!Loaded
<1>f. ASSUME NEW c \in Clients, Attachment!HandleDetach(c) PROVE StreamHolds(d)'
  <2>1. UNCHANGED <<said, socket, loading, at, shown>>
    BY <1>f DEF Attachment!HandleDetach, Attachment!sessionVars, Attachment!clientVars
  <2>2. CASE d # c
    <3>1. ask'[d] = ask[d] /\ out'[d] = out[d]
      BY <1>f, <2>2 DEF Attachment!HandleDetach, AttachedTyped
    <3>2. Subscribed(d)' = Subscribed(d)
      BY <1>f, <2>2 DEF Attachment!HandleDetach, Subscribed, AttachedTyped
    <3> QED
      BY <1>0, <2>1, <3>1, <3>2, AttachedStreamFrame
  <2>3. CASE d = c
    <3>1. ask'[c] = Attachment!Quiet /\ ask[c].do = "detach" /\ Attachment!Quiet.do = "nothing"
      BY <1>f DEF Attachment!HandleDetach, AttachedTyped, Attachment!Quiet
    <3>2. at[c] \in {"leaving", "left"} /\ (at[c] = "leaving" => ~Unanswered(c)')
      <4>1. at[c] # "idle"
        BY <1>0, <2>3, <3>1 DEF PhaseHolds, Attachment!Quiet
      <4>2. at[c] \in {"leaving", "left"}
        BY <1>0, <2>3, <3>1, <4>1 DEF PhaseHolds, AttachedTyped
      <4>3. ASSUME at[c] = "leaving" PROVE ~Unanswered(c)'
        BY <1>0, <2>1, <2>3, <3>1, <4>3 DEF PhaseHolds, Unanswered
      <4> QED
        BY <4>2, <4>3
    <3>3. at[c] = "left" => out'[c] = out[c]
      BY <1>0, <1>f, <2>3 DEF Attachment!HandleDetach, PhaseHolds
    <3> QED
      BY <1>0, <2>1, <2>3, <3>2, <3>3 DEF StreamHolds
  <2> QED
    BY <2>2, <2>3
<1>g. ASSUME NEW c \in Clients, Attachment!SlowTimeout(c) PROVE StreamHolds(d)'
  <2>1. UNCHANGED <<said, subs, loading>> /\ Attachment!Ended(c)
    BY <1>g DEF Attachment!SlowTimeout, Attachment!sessionVars
  <2>2. Subscribed(d)' = Subscribed(d)
    BY <2>1 DEF Subscribed
  <2>3. CASE d # c
    <3>1. ask'[d] = ask[d]
      BY <1>g, <2>3 DEF Attachment!SlowTimeout, AttachedTyped
    <3> QED
      BY <1>0, <2>1, <2>2, <2>3, <3>1, AttachedEndOthers, AttachedStreamFrame
  <2>4. CASE d = c
    BY <2>1, <2>4 DEF Attachment!Ended, AttachedTyped, StreamHolds
  <2> QED
    BY <2>3, <2>4
<1>h. ASSUME NEW c \in Clients, Attachment!Cleanup(c) PROVE StreamHolds(d)'
  <2>1. UNCHANGED <<said, loading, at, out, shown>>
    BY <1>h DEF Attachment!Cleanup, Attachment!sessionVars, Attachment!clientVars
  <2>2. CASE d # c
    <3>1. ask'[d] = ask[d]
      BY <1>h, <2>2 DEF Attachment!Cleanup, AttachedTyped
    <3>2. Subscribed(d)' = Subscribed(d)
      BY <1>h, <2>2 DEF Attachment!Cleanup, Attachment!Forgotten, Subscribed
    <3> QED
      BY <1>0, <2>1, <3>1, <3>2, AttachedStreamFrame
  <2>3. CASE d = c
    <3>1. at[c] = "left"
      BY <1>0, <1>h, <2>3 DEF Attachment!Cleanup, PhaseHolds, AttachedTyped
    <3> QED
      BY <1>0, <2>1, <2>3, <3>1 DEF StreamHolds
  <2> QED
    BY <2>2, <2>3
<1>i. ASSUME NEW c \in Clients, Attachment!Quit(c) PROVE StreamHolds(d)'
  <2>1. UNCHANGED <<said, subs, loading, shown, out>> /\ Subscribed(d)' = Subscribed(d)
    BY <1>i DEF Attachment!Quit, Attachment!sessionVars, Attachment!serverVars, Subscribed
  <2>2. CASE d # c
    <3>1. ask'[d] = ask[d] /\ at'[d] = at[d]
      BY <1>i, <2>2 DEF Attachment!Quit, AttachedTyped
    <3> QED
      BY <1>0, <2>1, <3>1, AttachedStreamFrame
  <2>3. CASE d = c
    <3>1. at[c] = "attached" /\ at'[c] = "leaving" /\ ask'[c].do = "detach"
      BY <1>i DEF Attachment!Quit, AttachedTyped
    <3>2. ~Unanswered(c)'
      BY <1>0, <2>1, <2>3, <3>1 DEF PhaseHolds, Unanswered
    <3> QED
      BY <2>3, <3>1, <3>2 DEF StreamHolds
  <2> QED
    BY <2>2, <2>3
<1>j. ASSUME NEW c \in Clients, Attachment!Ended(c), UNCHANGED <<Attachment!sessionVars, subs, slow, loading, ask>>
      PROVE  StreamHolds(d)'
  <2>1. Subscribed(d)' = Subscribed(d) /\ UNCHANGED said
    BY <1>j DEF Subscribed, Attachment!sessionVars
  <2>2. CASE d = c
    BY <1>j, <2>2 DEF Attachment!Ended, AttachedTyped, StreamHolds
  <2>3. CASE d # c
    BY <1>0, <1>j, <2>1, <2>3, AttachedEndOthers, AttachedStreamFrame
  <2> QED
    BY <2>2, <2>3
<1>k. ASSUME NEW c \in Clients, NEW n \in 1..Len(out[c]), Attachment!Read(c, n), ~Attachment!Ended(c)
      PROVE  StreamHolds(d)'
  <2>1. UNCHANGED <<said, subs, slow, loading, ask, socket>> /\ Subscribed(d)' = Subscribed(d)
    BY <1>k DEF Attachment!Read, Attachment!sessionVars, Subscribed
  <2>2. CASE d # c
    <3>1. at'[d] = at[d] /\ out'[d] = out[d] /\ shown'[d] = shown[d]
      BY <1>k, <2>2 DEF Attachment!Read, AttachedTyped
    <3> QED
      BY <1>0, <2>1, <3>1, AttachedStreamFrame
  <2>3. CASE d = c
    <3>1. PICK q \in Seq(ClientMessages) : q = out[c]
      BY DEF AttachedTyped
    <3>2. n \in 1..Len(q) /\ q # <<>>
      BY <3>1
    <3>3. ~Unanswered(c) /\ ~Unanswered(c)'
      BY <1>0, <2>1, <2>3, <3>1, <3>2 DEF StreamHolds, Unanswered
    <3>4. out'[c] = SubSeq(q, n + 1, Len(q))
      BY <1>k, <3>1 DEF Attachment!Read, AttachedTyped
    <3>5. CASE at[c] = "calling"
      <4>1. PICK s \in Subscribed(c) : AnswersThen(q, s, said[s])
        BY <1>0, <2>3, <3>1, <3>3, <3>5 DEF StreamHolds
      <4>2. said[s] \in Nat
        BY DEF Subscribed, AttachedTyped
      <4>3. shown'[c] = <<>> /\ at'[c] = IF \E k \in 1..n : q[k].event = "result" THEN "attached" ELSE "calling"
        BY <1>0, <1>k, <2>3, <3>1, <3>5 DEF Attachment!Read, AttachedTyped, StreamHolds
      <4>4. CASE \E k \in 1..n : q[k].event = "result"
        <5>1. TellsFrom(out'[c], 1, s, said'[s])
          BY <2>1, <3>2, <3>4, <4>1, <4>2, <4>4, AttachedAnswersRest
        <5>2. ShownUpTo(shown'[c], s, said'[s] - Len(out'[c]))
          BY <4>3 DEF ShownUpTo
        <5> QED
          BY <2>1, <2>3, <3>3, <4>1, <4>3, <4>4, <5>1, <5>2 DEF StreamHolds
      <4>5. CASE ~\E k \in 1..n : q[k].event = "result"
        <5>1. AnswersThen(out'[c], s, said'[s])
          BY <2>1, <3>2, <3>4, <4>1, <4>2, <4>5, AttachedAnswersRest
        <5> QED
          BY <2>1, <2>3, <3>3, <4>1, <4>3, <4>5, <5>1 DEF StreamHolds
      <4> QED
        BY <4>4, <4>5
    <3>6. CASE at[c] = "attached"
      <4>1. PICK s \in Subscribed(c) : /\ TellsFrom(q, 1, s, said[s])
                                       /\ ShownUpTo(shown[c], s, said[s] - Len(q))
        BY <1>0, <2>3, <3>1, <3>6 DEF StreamHolds
      <4>2. said[s] \in Nat
        BY DEF Subscribed, AttachedTyped
      <4>3. at'[c] = "attached" /\ shown'[c] = shown[c] \o [k \in 1..n |-> q[k].body]
        <5>1. /\ UNCHANGED at
              /\ shown' = [shown EXCEPT ![c] = @ \o [k \in 1..n |-> out[c][k].body]]
          BY <1>k, <3>6 DEF Attachment!Read
        <5> QED
          BY <3>1, <3>6, <5>1 DEF AttachedTyped
      <4>4. Len(out'[c]) = Len(q) - n
        BY <3>2, <3>4, AttachedRest
      <4>5. shown[c] \in Seq(SessionMessages)
        BY DEF AttachedTyped
      <4>6. ShownUpTo(shown'[c], s, said'[s] - Len(out'[c]))
        BY <2>1, <3>2, <4>1, <4>2, <4>3, <4>4, <4>5, AttachedShownMore
      <4>7. TellsFrom(out'[c], 1, s, said'[s])
        BY <2>1, <3>2, <3>4, <4>1, <4>2, AttachedTellsRest
      <4> QED
        BY <2>1, <2>3, <3>3, <4>1, <4>3, <4>6, <4>7 DEF StreamHolds
    <3>7. CASE at[c] = "leaving"
      <4>1. at'[c] = "leaving"
        BY <1>k, <3>7 DEF Attachment!Read, AttachedTyped
      <4> QED
        BY <2>3, <3>3, <4>1 DEF StreamHolds
    <3> QED
      BY <1>k, <3>5, <3>6, <3>7 DEF Attachment!Read
  <2> QED
    BY <2>2, <2>3
<1>l. ASSUME NEW c \in Clients, Attachment!CallTimeout(c) PROVE StreamHolds(d)'
  BY <1>j, <1>l DEF Attachment!CallTimeout
<1>m. ASSUME NEW c \in Clients, NEW n \in 1..Len(out[c]), Attachment!Read(c, n) PROVE StreamHolds(d)'
  BY <1>j, <1>k, <1>m DEF Attachment!Read
<1> QED
  BY <1>b, <1>c, <1>d, <1>e, <1>f, <1>g, <1>h, <1>i, <1>l, <1>m DEF Attachment!Next

\* What the invariant says of one attached client is that it missed nothing.
LEMMA AttachedMissesNothing ==
  ASSUME NEW p \in Seq(SessionMessages), NEW q \in Seq(ClientMessages), NEW s, NEW n \in Nat,
         TellsFrom(q, 1, s, n), ShownUpTo(p, s, n - Len(q))
  PROVE  LET seen == p \o [k \in DOMAIN q |-> q[k].body]
         IN  /\ \A k \in 1..(Len(seen) - 1) : seen[k + 1] = <<seen[k][1], seen[k][2] + 1>>
             /\ seen # <<>> => seen[Len(seen)] = <<s, n>>
<1>1. PICK m \in Nat : m = Len(q)
  OBVIOUS
<1>2. DOMAIN q = 1..m
  BY <1>1, LenProperties
<1>3. PICK seen : seen = p \o [k \in 1..m |-> q[k].body]
  OBVIOUS
<1>4. seen \in Seq(SessionMessages) /\ ShownUpTo(seen, s, n)
  <2>1. CASE m = 0
    <3>1. [k \in 1..m |-> q[k].body] = <<>>
      BY <2>1
    <3>2. seen = p
      BY <1>3, <3>1, ConcatEmptySeq
    <3> QED
      BY <1>1, <2>1, <3>2
  <2>2. CASE m # 0
    <3>1. m \in 1..Len(q) /\ n - (Len(q) - m) = n
      BY <1>1, <2>2
    <3>2. ShownUpTo(seen, s, n - (Len(q) - m))
      BY <1>3, <3>1, AttachedShownMore
    <3>3. \A k \in 1..m : q[k].body \in SessionMessages
      <4> TAKE k \in 1..m
      <4>1. q[k] \in ClientMessages
        BY <1>1, ElementOfSeq
      <4> QED
        BY <4>1 DEF ClientMessages
    <3>4. [k \in 1..m |-> q[k].body] \in Seq(SessionMessages)
      BY <3>3, SeqDef
    <3> QED
      BY <1>3, <3>1, <3>2, <3>4, ConcatProperties
  <2> QED
    BY <2>1, <2>2
<1>5. PICK l \in Nat : l = Len(seen)
  BY <1>4
<1>6. \A k \in 1..l : seen[k] = <<s, n - (l - k)>>
  BY <1>4, <1>5 DEF ShownUpTo
<1>7. \A k \in 1..(l - 1) : seen[k + 1] = <<seen[k][1], seen[k][2] + 1>>
  <2> TAKE k \in 1..(l - 1)
  <2>1. seen[k] = <<s, n - (l - k)>>
    BY <1>5, <1>6
  <2>2. seen[k + 1] = <<s, n - (l - (k + 1))>>
    BY <1>5, <1>6
  <2>3. n - (l - (k + 1)) = (n - (l - k)) + 1
    BY <1>5
  <2> QED
    BY <2>1, <2>2, <2>3
<1>8. seen # <<>> => seen[l] = <<s, n>>
  <2> HAVE seen # <<>>
  <2>1. l \in 1..l
    BY <1>4, <1>5
  <2>2. n - (l - l) = n
    BY <1>5
  <2> QED
    BY <1>6, <2>1, <2>2
<1> QED
  BY <1>2, <1>3, <1>5, <1>7, <1>8

\* An attached client is told every message of its session in order and once, and a
\* socket that is gone is in no subscription (broadcastToSession, replayHistory,
\* handleData of the client, cleanupSocket).
THEOREM AttachedMissNothing ==
  ASSUME AttachedBounds PROVE Attachment!Spec => [](Attachment!Gapless /\ Attachment!GoneAreForgotten)
<1>1. Attachment!Init => AttachedInv
  BY AttachedBegins
<1>2. AttachedInv /\ [Attachment!Next]_Attachment!vars => AttachedInv'
  <2> SUFFICES ASSUME AttachedInv, [Attachment!Next]_Attachment!vars PROVE AttachedInv'
    OBVIOUS
  <2>1. AttachedTyped'
    BY AttachedTypedStays DEF AttachedInv
  <2>2. CASE Attachment!Next
    <3>1. \A d \in Clients : PhaseHolds(d)'
      BY <2>1, <2>2, AttachedPhasesStay DEF AttachedInv
    <3>2. \A d \in Clients : StreamHolds(d)'
      BY <2>1, <2>2, AttachedStreamsStay DEF AttachedInv
    <3> QED
      BY <2>1, <3>1, <3>2 DEF AttachedInv
  <2>3. CASE UNCHANGED Attachment!vars
    <3>1. \A d \in Clients : Subscribed(d)' = Subscribed(d)
      BY <2>3 DEF Attachment!vars, Attachment!serverVars, Subscribed
    <3>2. \A d \in Clients : PhaseHolds(d)'
      BY <2>3, <3>1, AttachedPhaseFrame
      DEF Attachment!vars, Attachment!serverVars, Attachment!sessionVars, Attachment!clientVars, AttachedInv
    <3>3. \A d \in Clients : StreamHolds(d)'
      BY <2>3, <3>1, AttachedStreamFrame
      DEF Attachment!vars, Attachment!serverVars, Attachment!sessionVars, Attachment!clientVars, AttachedInv
    <3> QED
      BY <2>1, <3>2, <3>3 DEF AttachedInv
  <2> QED
    BY <2>2, <2>3
<1>3. AttachedInv => Attachment!Gapless
  <2> SUFFICES ASSUME AttachedInv, NEW c \in Clients, at[c] = "attached"
               PROVE  LET seen == shown[c] \o [k \in DOMAIN out[c] |-> out[c][k].body]
                      IN  /\ \A k \in DOMAIN out[c] : out[c][k].event = "message"
                          /\ \A k \in 1..(Len(seen) - 1) :
                               seen[k + 1] = <<seen[k][1], seen[k][2] + 1>>
                          /\ \E s \in Ids :
                               /\ c \in subs[s]
                               /\ seen # <<>> => seen[Len(seen)] = <<s, said[s]>>
    BY DEF Attachment!Gapless
  <2>1. PICK s \in Subscribed(c) : /\ TellsFrom(out[c], 1, s, said[s])
                                   /\ ShownUpTo(shown[c], s, said[s] - Len(out[c]))
    BY DEF AttachedInv, StreamHolds
  <2>2. s \in Ids /\ c \in subs[s] /\ said[s] \in Nat
    BY DEF Subscribed, AttachedInv, AttachedTyped
  <2>3. out[c] \in Seq(ClientMessages) /\ shown[c] \in Seq(SessionMessages)
    BY DEF AttachedInv, AttachedTyped
  <2>4. \A k \in DOMAIN out[c] : out[c][k].event = "message"
    BY <2>1, <2>3, LenProperties DEF TellsFrom
  <2> QED
    BY <2>1, <2>2, <2>3, <2>4, AttachedMissesNothing
<1>4. AttachedInv => Attachment!GoneAreForgotten
  BY DEF AttachedInv, PhaseHolds, Attachment!GoneAreForgotten, Subscribed
<1> QED
  BY <1>1, <1>2, <1>3, <1>4, PTL DEF Attachment!Spec


\* A channel has finitely many agents.
HubBounds == IsFiniteSet(Agents)

HubRecords ==
  [n : Nat, do : Hub!Tools \cup Hub!Events \cup {"crash"}, a : Agents, runs : BOOLEAN, seen : Int]
HubWaiters == Seq([n : Nat, type : {"read", "write"}])
HubEntries ==
  [health : {"HEALTHY", "DEGRADED", "UNREACHABLE", "TERMINATED"}, ticks : Nat, misses : Nat,
   made : Nat]

ReadersOf(O) == {op \in O : op.runs /\ Hub!OnlyReads(op)}
WritersOf(O) == {op \in O : op.runs /\ ~Hub!OnlyReads(op)}

\* The operations under way have numbers of their own.
HubNumbered(O) ==
  /\ O \subseteq HubRecords /\ IsFiniteSet(O)
  /\ \A op, other \in O : op.n = other.n => op = other

\* The lock counts the sections that run, and whoever waits is an operation that does not.
HubHeld(rd, wr, q, O) ==
  /\ HubNumbered(O)
  /\ rd \in Nat /\ wr \in BOOLEAN /\ q \in HubWaiters
  /\ rd = Cardinality(ReadersOf(O))
  /\ Cardinality(WritersOf(O)) = IF wr THEN 1 ELSE 0
  /\ wr => rd = 0
  /\ \A k \in DOMAIN q :
       \E op \in O : op.n = q[k].n /\ ~op.runs /\ (Hub!Reads(q[k]) <=> Hub!OnlyReads(op))
  /\ \A j, k \in DOMAIN q : q[j].n = q[k].n => j = k

\* Nobody waits for a lock that is free.
HubServed(rd, wr, q) == q # <<>> => wr \/ rd > 0

\* Events wait and run in the order of their numbers, which are above those applied.
HubInOrder(q, O, done) ==
  /\ \A op \in O : op.do \in Hub!Events => \A a \in Agents : done[a] < op.n
  /\ \A op \in O : op.do \in Hub!Events /\ ~op.runs => \E k \in DOMAIN q : q[k].n = op.n
  /\ \A op, other \in O :
       op.do \in Hub!Events /\ other.do \in Hub!Events /\ op.runs /\ ~other.runs => op.n < other.n
  /\ \A j, k \in DOMAIN q : \A op, other \in O :
       j < k /\ op.do \in Hub!Events /\ other.do \in Hub!Events /\ op.n = q[j].n /\ other.n = q[k].n =>
         op.n < other.n

\* What the operations under way know of the registry.
HubKnown ==
  /\ opsMade \in Nat /\ sections \in Nat
  /\ DOMAIN agents = Agents
  /\ \A a \in Agents : Hub!Has(a) => agents[a] \in HubEntries
  /\ applied \in [Agents -> Nat]
  /\ \A a \in Agents : applied[a] <= opsMade
  /\ \A op \in ops :
       /\ op.n <= opsMade /\ op.seen <= sections
       /\ op.do = "register" /\ op.seen >= 0 /\ Hub!Has(op.a) => op.seen < agents[op.a].made
       /\ op.do = "crash" =>
            /\ Hub!Has(op.a) => agents[op.a].health = "TERMINATED"
            /\ \A other \in ops : other.do = "crash"

HubInv ==
  /\ HubHeld(readers, writer, waitQueue, ops)
  /\ HubServed(readers, writer, waitQueue)
  /\ HubInOrder(waitQueue, ops, applied)
  /\ HubKnown

LEMMA HubGoesOn ==
  ASSUME NEW op \in HubRecords, NEW G, NEW p,
         p = IF op.n \in G THEN [op EXCEPT !.runs = TRUE] ELSE op
  PROVE  /\ p \in HubRecords
         /\ p.n = op.n /\ p.do = op.do /\ p.a = op.a /\ p.seen = op.seen
         /\ (p.runs <=> op.runs \/ op.n \in G)
         /\ (Hub!OnlyReads(p) <=> Hub!OnlyReads(op))
<1>1. CASE op.n \in G
  <2>1. p = [op EXCEPT !.runs = TRUE]
    BY <1>1
  <2>2. p \in HubRecords /\ p.n = op.n /\ p.do = op.do /\ p.a = op.a /\ p.seen = op.seen /\ p.runs = TRUE
    BY <2>1 DEF HubRecords
  <2> QED
    BY <1>1, <2>2 DEF Hub!OnlyReads
<1>2. CASE op.n \notin G
  BY <1>2
<1> QED
  BY <1>1, <1>2

\* Resuming operations changes none but whether they run.
LEMMA HubResumes ==
  ASSUME NEW O, HubNumbered(O), NEW G
  PROVE  /\ \A p \in Hub!Resumed(O, G) : \E op \in O :
              /\ p.n = op.n /\ p.do = op.do /\ p.a = op.a /\ p.seen = op.seen
              /\ (p.runs <=> op.runs \/ op.n \in G)
              /\ (Hub!OnlyReads(p) <=> Hub!OnlyReads(op))
              /\ p = IF op.n \in G THEN [op EXCEPT !.runs = TRUE] ELSE op
         /\ \A op \in O : \E p \in Hub!Resumed(O, G) :
              /\ p.n = op.n /\ p.do = op.do /\ p.a = op.a /\ p.seen = op.seen
              /\ (p.runs <=> op.runs \/ op.n \in G)
              /\ (Hub!OnlyReads(p) <=> Hub!OnlyReads(op))
         /\ HubNumbered(Hub!Resumed(O, G))
<1>1. ASSUME NEW p \in Hub!Resumed(O, G)
      PROVE  \E op \in O :
              /\ p.n = op.n /\ p.do = op.do /\ p.a = op.a /\ p.seen = op.seen
              /\ (p.runs <=> op.runs \/ op.n \in G)
              /\ (Hub!OnlyReads(p) <=> Hub!OnlyReads(op))
              /\ p = IF op.n \in G THEN [op EXCEPT !.runs = TRUE] ELSE op
              /\ p \in HubRecords
  <2>1. PICK op \in O : p = IF op.n \in G THEN [op EXCEPT !.runs = TRUE] ELSE op
    BY DEF Hub!Resumed
  <2>2. op \in HubRecords
    BY DEF HubNumbered
  <2> QED
    <3>1. /\ p \in HubRecords
          /\ p.n = op.n /\ p.do = op.do /\ p.a = op.a /\ p.seen = op.seen
          /\ (p.runs <=> op.runs \/ op.n \in G)
          /\ (Hub!OnlyReads(p) <=> Hub!OnlyReads(op))
      BY <2>1, <2>2, HubGoesOn
    <3> QED
      BY <2>1, <3>1
<1>2. ASSUME NEW op \in O
      PROVE  \E p \in Hub!Resumed(O, G) :
              /\ p.n = op.n /\ p.do = op.do /\ p.a = op.a /\ p.seen = op.seen
              /\ (p.runs <=> op.runs \/ op.n \in G)
              /\ (Hub!OnlyReads(p) <=> Hub!OnlyReads(op))
  <2>1. PICK p : p = IF op.n \in G THEN [op EXCEPT !.runs = TRUE] ELSE op
    OBVIOUS
  <2>2. op \in HubRecords
    BY DEF HubNumbered
  <2>3. p \in Hub!Resumed(O, G)
    BY <2>1 DEF Hub!Resumed
  <2> QED
    BY <2>1, <2>2, <2>3, HubGoesOn
<1>3. Hub!Resumed(O, G) \subseteq HubRecords
  BY <1>1
<1>4. IsFiniteSet(Hub!Resumed(O, G))
  <2>1. PICK f : f = [op \in O |-> IF op.n \in G THEN [op EXCEPT !.runs = TRUE] ELSE op]
    OBVIOUS
  <2>2. f \in Surjection(O, Hub!Resumed(O, G))
    BY <2>1 DEF Surjection, Hub!Resumed
  <2> QED
    BY <2>2, FS_Surjection DEF HubNumbered
<1>5. \A p, other \in Hub!Resumed(O, G) : p.n = other.n => p = other
  <2> TAKE p, other \in Hub!Resumed(O, G)
  <2> HAVE p.n = other.n
  <2>1. PICK op \in O : p.n = op.n /\ p = IF op.n \in G THEN [op EXCEPT !.runs = TRUE] ELSE op
    BY <1>1
  <2>2. PICK oq \in O : other.n = oq.n /\ other = IF oq.n \in G THEN [oq EXCEPT !.runs = TRUE] ELSE oq
    BY <1>1
  <2>3. op = oq
    BY <2>1, <2>2 DEF HubNumbered
  <2> QED
    BY <2>1, <2>2, <2>3
<1> QED
  BY <1>1, <1>2, <1>3, <1>4, <1>5 DEF HubNumbered

LEMMA HubResumedFrom ==
  ASSUME NEW O, HubNumbered(O), NEW G, NEW p \in Hub!Resumed(O, G)
  PROVE  \E op \in O : /\ p.n = op.n /\ p.do = op.do /\ (Hub!OnlyReads(p) <=> Hub!OnlyReads(op))
                       /\ (p.runs <=> op.runs \/ op.n \in G)
BY HubResumes

LEMMA HubResumedTo ==
  ASSUME NEW O, HubNumbered(O), NEW G, NEW op \in O
  PROVE  \E p \in Hub!Resumed(O, G) : /\ p.n = op.n /\ p.do = op.do
                                  /\ (Hub!OnlyReads(p) <=> Hub!OnlyReads(op))
                                  /\ (p.runs <=> op.runs \/ op.n \in G)
BY HubResumes

LEMMA HubSameIfNone ==
  ASSUME NEW O PROVE Hub!Resumed(O, {}) = O
BY DEF Hub!Resumed

\* The sets that the lock counts are finite.
LEMMA HubCounts ==
  ASSUME NEW O, HubNumbered(O)
  PROVE  /\ IsFiniteSet(ReadersOf(O)) /\ IsFiniteSet(WritersOf(O))
         /\ Cardinality(ReadersOf(O)) \in Nat /\ Cardinality(WritersOf(O)) \in Nat
<1>1. ReadersOf(O) \subseteq O /\ WritersOf(O) \subseteq O /\ IsFiniteSet(O)
  BY DEF ReadersOf, WritersOf, HubNumbered
<1>2. IsFiniteSet(ReadersOf(O))
  BY <1>1, FS_Subset
<1>3. IsFiniteSet(WritersOf(O))
  BY <1>1, FS_Subset
<1> QED
  BY <1>2, <1>3, FS_CardinalityType

LEMMA HubFewer ==
  ASSUME NEW O, HubNumbered(O), NEW op
  PROVE  HubNumbered(O \ {op})
<1>1. IsFiniteSet(O \ {op})
  BY FS_RemoveElement DEF HubNumbered
<1> QED
  BY <1>1 DEF HubNumbered

LEMMA HubMore ==
  ASSUME NEW O, HubNumbered(O), NEW op \in HubRecords, \A other \in O : other.n # op.n
  PROVE  HubNumbered(O \cup {op})
<1>1. IsFiniteSet(O \cup {op})
  BY FS_AddElement DEF HubNumbered
<1> QED
  BY <1>1 DEF HubNumbered

\* A reader that ends (RWLock.releaseRead).
LEMMA HubReaderEnds ==
  ASSUME NEW rd, NEW wr, NEW q, NEW O, HubHeld(rd, wr, q, O), NEW op \in O, op.runs, Hub!OnlyReads(op)
  PROVE  HubHeld(rd - 1, wr, q, O \ {op}) /\ rd > 0
<1>1. HubNumbered(O) /\ HubNumbered(O \ {op})
  BY HubFewer DEF HubHeld
<1>2. ReadersOf(O \ {op}) = ReadersOf(O) \ {op} /\ op \in ReadersOf(O)
  BY DEF ReadersOf
<1>3. WritersOf(O \ {op}) = WritersOf(O)
  BY DEF WritersOf
<1>4. IsFiniteSet(ReadersOf(O)) /\ Cardinality(ReadersOf(O)) \in Nat
  BY <1>1, HubCounts
<1>5. Cardinality(ReadersOf(O \ {op})) = rd - 1
  BY <1>2, <1>4, FS_RemoveElement DEF HubHeld
<1>6. rd - 1 \in Nat
  BY <1>1, <1>5, HubCounts
<1>7. \A k \in DOMAIN q :
        \E other \in O \ {op} : other.n = q[k].n /\ ~other.runs /\ (Hub!Reads(q[k]) <=> Hub!OnlyReads(other))
  BY DEF HubHeld
<1>8. ~wr
  BY <1>5, <1>6 DEF HubHeld
<1> QED
  BY <1>1, <1>3, <1>5, <1>6, <1>7, <1>8 DEF HubHeld

\* A writer that ends (RWLock.releaseWrite).
LEMMA HubWriterEnds ==
  ASSUME NEW rd, NEW wr, NEW q, NEW O, HubHeld(rd, wr, q, O), NEW op \in O, op.runs, ~Hub!OnlyReads(op)
  PROVE  /\ wr /\ rd = 0 /\ HubHeld(0, FALSE, q, O \ {op})
         /\ \A other \in O : other.runs => other = op
<1>1. HubNumbered(O) /\ HubNumbered(O \ {op})
  BY HubFewer DEF HubHeld
<1>2. WritersOf(O \ {op}) = WritersOf(O) \ {op} /\ op \in WritersOf(O)
  BY DEF WritersOf
<1>3. ReadersOf(O \ {op}) = ReadersOf(O)
  BY DEF ReadersOf
<1>4. IsFiniteSet(WritersOf(O)) /\ Cardinality(WritersOf(O)) \in Nat
  BY <1>1, HubCounts
<1>5. Cardinality(WritersOf(O)) # 0
  BY <1>2, <1>4, FS_EmptySet
<1>6. wr /\ Cardinality(WritersOf(O)) = 1 /\ rd = 0
  BY <1>5 DEF HubHeld
<1>7. Cardinality(WritersOf(O \ {op})) = 0
  <2>1. Cardinality(WritersOf(O) \ {op}) = Cardinality(WritersOf(O)) - 1
    BY <1>2, <1>4, FS_RemoveElement
  <2> QED
    BY <1>2, <1>6, <2>1
<1>8. \A k \in DOMAIN q :
        \E other \in O \ {op} : other.n = q[k].n /\ ~other.runs /\ (Hub!Reads(q[k]) <=> Hub!OnlyReads(other))
  BY DEF HubHeld
<1>9. ASSUME NEW other \in O, other.runs PROVE other = op
  <2>1. ReadersOf(O) = {}
    BY <1>1, <1>6, HubCounts, FS_EmptySet DEF HubHeld
  <2>2. other \in WritersOf(O)
    BY <1>9, <2>1 DEF ReadersOf, WritersOf
  <2>3. PICK x : WritersOf(O) = {x}
    BY <1>4, <1>6, FS_Singleton
  <2> QED
    BY <1>2, <2>2, <2>3
<1> QED
  BY <1>1, <1>3, <1>6, <1>7, <1>8, <1>9 DEF HubHeld

\* An operation comes that does not run.
LEMMA HubIdleComes ==
  ASSUME NEW rd, NEW wr, NEW q, NEW O, HubHeld(rd, wr, q, O), NEW op \in HubRecords, ~op.runs,
         \A other \in O : other.n # op.n
  PROVE  HubHeld(rd, wr, q, O \cup {op})
<1>1. HubNumbered(O \cup {op})
  BY HubMore DEF HubHeld
<1>2. ReadersOf(O \cup {op}) = ReadersOf(O) /\ WritersOf(O \cup {op}) = WritersOf(O)
  BY DEF ReadersOf, WritersOf
<1> QED
  BY <1>1, <1>2 DEF HubHeld

\* An operation goes that neither runs nor waits.
LEMMA HubIdleGoes ==
  ASSUME NEW rd, NEW wr, NEW q, NEW O, HubHeld(rd, wr, q, O), NEW op \in O, ~op.runs,
         \A k \in DOMAIN q : q[k].n # op.n
  PROVE  HubHeld(rd, wr, q, O \ {op})
<1>1. HubNumbered(O \ {op})
  BY HubFewer DEF HubHeld
<1>2. ReadersOf(O \ {op}) = ReadersOf(O) /\ WritersOf(O \ {op}) = WritersOf(O)
  BY DEF ReadersOf, WritersOf
<1>3. \A k \in DOMAIN q :
        \E other \in O \ {op} : other.n = q[k].n /\ ~other.runs /\ (Hub!Reads(q[k]) <=> Hub!OnlyReads(other))
  BY DEF HubHeld
<1> QED
  BY <1>1, <1>2, <1>3 DEF HubHeld

\* An operation that neither runs nor waits is granted the lock, or waits at the end of
\* the queue (RWLock.acquireRead, acquireWrite).
LEMMA HubIsGranted ==
  ASSUME NEW rd, NEW q, NEW O, HubHeld(rd, FALSE, q, O), NEW op \in O, ~op.runs,
         \A k \in DOMAIN q : q[k].n # op.n, Hub!OnlyReads(op) \/ rd = 0
  PROVE  /\ Hub!OnlyReads(op) => HubHeld(rd + 1, FALSE, q, Hub!Resumed(O, {op.n}))
         /\ ~Hub!OnlyReads(op) => HubHeld(0, TRUE, q, Hub!Resumed(O, {op.n}))
<1> DEFINE P == Hub!Resumed(O, {op.n})
<1>1. HubNumbered(O) /\ HubNumbered(P) /\ op \in HubRecords
  <2>1. HubNumbered(O)
    BY DEF HubHeld
  <2>2. HubNumbered(P)
    BY <2>1, HubResumes
  <2> QED
    BY <2>1, <2>2 DEF HubNumbered
<1>2. PICK p \in P : p.n = op.n /\ p.runs /\ (Hub!OnlyReads(p) <=> Hub!OnlyReads(op))
  BY <1>1, HubResumes
<1>3. \A x \in P : x # p => x \in O /\ x # op
  <2> TAKE x \in P
  <2> HAVE x # p
  <2>1. PICK o \in O : x.n = o.n /\ x = IF o.n \in {op.n} THEN [o EXCEPT !.runs = TRUE] ELSE o
    BY <1>1, HubResumes
  <2>2. x.n # op.n
    BY <1>1, <1>2 DEF HubNumbered
  <2> QED
    BY <2>1, <2>2
<1>4. \A x \in O : x # op => x \in P /\ x # p
  <2> TAKE x \in O
  <2> HAVE x # op
  <2>1. x.n # op.n
    BY <1>1 DEF HubNumbered
  <2>2. x \in P
    BY <2>1 DEF Hub!Resumed
  <2> QED
    BY <1>2, <2>1, <2>2
<1>5. \A k \in DOMAIN q :
        \E other \in P : other.n = q[k].n /\ ~other.runs /\ (Hub!Reads(q[k]) <=> Hub!OnlyReads(other))
  <2> TAKE k \in DOMAIN q
  <2>1. PICK other \in O : other.n = q[k].n /\ ~other.runs /\ (Hub!Reads(q[k]) <=> Hub!OnlyReads(other))
    BY DEF HubHeld
  <2>2. other # op
    BY <2>1
  <2> QED
    BY <1>4, <2>1, <2>2
<1>6. IsFiniteSet(ReadersOf(O)) /\ IsFiniteSet(WritersOf(O)) /\ WritersOf(O) = {}
  BY <1>1, HubCounts, FS_EmptySet DEF HubHeld
<1>7. CASE Hub!OnlyReads(op)
  <2>1. ReadersOf(P) = ReadersOf(O) \cup {p} /\ p \notin ReadersOf(O)
    <3>1. p \notin O
      BY <1>1, <1>2 DEF HubNumbered
    <3> QED
      BY <1>2, <1>3, <1>4, <1>7, <3>1 DEF ReadersOf
  <2>2. WritersOf(P) = {}
    BY <1>2, <1>3, <1>6, <1>7 DEF WritersOf
  <2>3. Cardinality(ReadersOf(P)) = rd + 1
    BY <1>6, <2>1, FS_AddElement DEF HubHeld
  <2>4. Cardinality(WritersOf(P)) = 0
    BY <2>2, FS_EmptySet
  <2> QED
    <3>1. /\ rd + 1 \in Nat /\ q \in HubWaiters
          /\ \A j, k \in DOMAIN q : q[j].n = q[k].n => j = k
      BY DEF HubHeld
    <3>2. HubHeld(rd + 1, FALSE, q, P)
      BY <1>1, <1>5, <2>3, <2>4, <3>1 DEF HubHeld
    <3> QED
      BY <1>7, <3>2
<1>8. CASE ~Hub!OnlyReads(op)
  <2>1. WritersOf(P) = {p}
    BY <1>2, <1>3, <1>6, <1>8 DEF WritersOf
  <2>2. ReadersOf(P) = ReadersOf(O)
    BY <1>2, <1>3, <1>4, <1>8 DEF ReadersOf
  <2>3. Cardinality(WritersOf(P)) = 1
    BY <2>1, FS_Singleton
  <2> QED
    BY <1>1, <1>5, <1>8, <2>2, <2>3 DEF HubHeld
<1> QED
  BY <1>7, <1>8

LEMMA HubWaits ==
  ASSUME NEW rd, NEW wr, NEW q, NEW O, HubHeld(rd, wr, q, O), NEW op \in O, ~op.runs,
         \A k \in DOMAIN q : q[k].n # op.n
  PROVE  LET type == IF Hub!OnlyReads(op) THEN "read" ELSE "write"
             longer == Append(q, Hub!Waiter(op, type))
         IN  /\ HubHeld(rd, wr, longer, O)
             /\ Len(longer) = Len(q) + 1
             /\ \A k \in DOMAIN q : longer[k] = q[k]
             /\ longer[Len(q) + 1].n = op.n
<1>1. PICK type \in {"read", "write"} : type = IF Hub!OnlyReads(op) THEN "read" ELSE "write"
  OBVIOUS
<1>2. PICK m \in Nat : m = Len(q)
  BY DEF HubHeld, HubWaiters
<1>3. op \in HubRecords
  BY DEF HubHeld, HubNumbered
<1>4. Hub!Waiter(op, type) \in [n : Nat, type : {"read", "write"}]
  BY <1>3 DEF Hub!Waiter, HubRecords
<1>5. q \in HubWaiters /\ DOMAIN q = 1..m
  BY <1>2, LenProperties DEF HubHeld, HubWaiters
<1>6. PICK longer : longer = Append(q, Hub!Waiter(op, type))
  OBVIOUS
<1>7. /\ longer \in HubWaiters /\ Len(longer) = m + 1
      /\ \A k \in 1..m : longer[k] = q[k]
      /\ longer[m + 1] = Hub!Waiter(op, type)
  BY <1>2, <1>4, <1>5, <1>6, AppendProperties DEF HubWaiters
<1>8. DOMAIN longer = 1..(m + 1)
  BY <1>7, LenProperties DEF HubWaiters
<1>9. longer[m + 1].n = op.n /\ (Hub!Reads(longer[m + 1]) <=> Hub!OnlyReads(op))
  BY <1>1, <1>7 DEF Hub!Waiter, Hub!Reads
<1>10. \A k \in 1..(m + 1) :
         \E other \in O : other.n = longer[k].n /\ ~other.runs /\ (Hub!Reads(longer[k]) <=> Hub!OnlyReads(other))
  <2> TAKE k \in 1..(m + 1)
  <2>1. CASE k = m + 1
    BY <1>9, <2>1
  <2>2. CASE k # m + 1
    <3>1. k \in 1..m
      BY <2>2
    <3> QED
      BY <1>5, <1>7, <3>1 DEF HubHeld
  <2> QED
    BY <2>1, <2>2
<1>11. \A j, k \in 1..(m + 1) : longer[j].n = longer[k].n => j = k
  <2> TAKE j, k \in 1..(m + 1)
  <2> HAVE longer[j].n = longer[k].n
  <2>1. CASE j \in 1..m /\ k \in 1..m
    BY <1>5, <1>7, <2>1 DEF HubHeld
  <2>2. CASE j = m + 1 /\ k \in 1..m
    BY <1>5, <1>7, <1>9, <2>2
  <2>3. CASE j \in 1..m /\ k = m + 1
    BY <1>5, <1>7, <1>9, <2>3
  <2> QED
    BY <2>1, <2>2, <2>3
<1>12. HubHeld(rd, wr, longer, O)
  BY <1>7, <1>8, <1>10, <1>11 DEF HubHeld
<1> QED
  BY <1>1, <1>2, <1>5, <1>6, <1>7, <1>9, <1>12

\* Whoever ends leaves the events in their order.
LEMMA HubOrderFewer ==
  ASSUME NEW q, NEW O, NEW done, HubInOrder(q, O, done), NEW op
  PROVE  HubInOrder(q, O \ {op}, done)
BY DEF HubInOrder

\* And so does an operation that is no event and comes or goes on.
LEMMA HubOrderMore ==
  ASSUME NEW q, NEW O, NEW done, HubInOrder(q, O, done), NEW op, op.do \notin Hub!Events
  PROVE  HubInOrder(q, O \cup {op}, done)
BY DEF HubInOrder

LEMMA HubOrderGranted ==
  ASSUME NEW q, NEW O, NEW done, HubInOrder(q, O, done), HubNumbered(O), NEW op \in O,
         op.do \notin Hub!Events
  PROVE  HubInOrder(q, Hub!Resumed(O, {op.n}), done)
<1>1. ASSUME NEW p \in Hub!Resumed(O, {op.n}), p.do \in Hub!Events
      PROVE  p \in O
  <2>1. PICK o \in O : p.do = o.do /\ p = IF o.n \in {op.n} THEN [o EXCEPT !.runs = TRUE] ELSE o
    BY HubResumes
  <2>2. o.n # op.n
    BY <1>1, <2>1 DEF HubNumbered
  <2> QED
    BY <2>1, <2>2
<1> QED
  BY <1>1 DEF HubInOrder

\* A new operation waits behind the others.
LEMMA HubOrderWaits ==
  ASSUME NEW q \in HubWaiters, NEW O, NEW done, NEW op \in O, HubNumbered(O),
         HubInOrder(q, O \ {op}, done),
         NEW longer \in HubWaiters, Len(longer) = Len(q) + 1, \A k \in DOMAIN q : longer[k] = q[k],
         longer[Len(q) + 1].n = op.n, ~op.runs, \A k \in DOMAIN q : q[k].n # op.n,
         op.do \in Hub!Events =>
            /\ \A a \in Agents : done[a] < op.n
            /\ \A other \in O \ {op} : other.n < op.n
  PROVE  HubInOrder(longer, O, done)
<1>1. PICK m \in Nat : m = Len(q)
  BY DEF HubWaiters
<1>2. DOMAIN q = 1..m /\ DOMAIN longer = 1..(m + 1)
  BY <1>1, LenProperties DEF HubWaiters
<1>3. longer[m + 1].n = op.n /\ \A k \in 1..m : longer[k] = q[k]
  BY <1>1, <1>2
<1>4. \A o \in O : o.do \in Hub!Events => \A a \in Agents : done[a] < o.n
  BY DEF HubInOrder
<1>5. \A o \in O : o.do \in Hub!Events /\ ~o.runs => \E k \in DOMAIN longer : longer[k].n = o.n
  <2> TAKE o \in O
  <2> HAVE o.do \in Hub!Events /\ ~o.runs
  <2>1. CASE o = op
    BY <1>2, <1>3, <2>1
  <2>2. CASE o # op
    <3>1. PICK k \in 1..m : q[k].n = o.n
      BY <1>2, <2>2 DEF HubInOrder
    <3> QED
      BY <1>2, <1>3, <3>1
  <2> QED
    BY <2>1, <2>2
<1>6. \A o, other \in O :
        o.do \in Hub!Events /\ other.do \in Hub!Events /\ o.runs /\ ~other.runs => o.n < other.n
  <2> TAKE o, other \in O
  <2> HAVE o.do \in Hub!Events /\ other.do \in Hub!Events /\ o.runs /\ ~other.runs
  <2>1. o # op
    OBVIOUS
  <2>2. CASE other = op
    BY <2>1, <2>2
  <2>3. CASE other # op
    BY <2>1, <2>3 DEF HubInOrder
  <2> QED
    BY <2>2, <2>3
<1>7. \A j, k \in DOMAIN longer : \A o, other \in O :
        j < k /\ o.do \in Hub!Events /\ other.do \in Hub!Events /\ o.n = longer[j].n /\ other.n = longer[k].n =>
          o.n < other.n
  <2> TAKE j, k \in DOMAIN longer
  <2> TAKE o, other \in O
  <2> HAVE j < k /\ o.do \in Hub!Events /\ other.do \in Hub!Events /\ o.n = longer[j].n /\ other.n = longer[k].n
  <2>1. j \in 1..m /\ o.n = q[j].n
    BY <1>2, <1>3
  <2>2. o # op
    BY <1>2, <2>1
  <2>3. CASE other = op
    BY <2>2, <2>3
  <2>4. CASE other # op
    <3>1. k # m + 1
      BY <1>3, <2>4 DEF HubNumbered
    <3>2. k \in 1..m /\ other.n = q[k].n
      BY <1>2, <1>3, <3>1
    <3> QED
      BY <1>2, <2>1, <2>2, <2>4, <3>2 DEF HubInOrder
  <2> QED
    BY <2>3, <2>4
<1> QED
  BY <1>4, <1>5, <1>6, <1>7 DEF HubInOrder

\* acquireRead and acquireWrite keep the lock true, and grant it or queue the operation.
LEMMA HubAcquires ==
  ASSUME NEW O, HubHeld(readers, writer, waitQueue, O), HubServed(readers, writer, waitQueue),
         NEW done, NEW op \in O, ~op.runs, \A k \in DOMAIN waitQueue : waitQueue[k].n # op.n,
         HubInOrder(waitQueue, O \ {op}, done),
         op.do \in Hub!Events =>
            /\ \A a \in Agents : done[a] < op.n
            /\ \A other \in O \ {op} : other.n < op.n,
         NEW l, l = IF Hub!OnlyReads(op) THEN Hub!AcquireRead(op) ELSE Hub!AcquireWrite(op)
  PROVE  /\ HubHeld(l.readers, l.writer, l.queue, Hub!Resumed(O, l.granted))
         /\ HubServed(l.readers, l.writer, l.queue)
         /\ HubInOrder(l.queue, Hub!Resumed(O, l.granted), done)
<1> DEFINE type == IF Hub!OnlyReads(op) THEN "read" ELSE "write"
<1>0. /\ HubNumbered(O) /\ readers \in Nat /\ writer \in BOOLEAN /\ waitQueue \in HubWaiters
      /\ Hub!Lock.readers = readers /\ Hub!Lock.writer = writer /\ Hub!Lock.queue = waitQueue /\ Hub!Lock.granted = {}
  BY DEF HubHeld, Hub!Lock
<1>w. ASSUME l = [Hub!Lock EXCEPT !.queue = Append(@, Hub!Waiter(op, type))],
             writer \/ readers > 0
      PROVE  /\ HubHeld(l.readers, l.writer, l.queue, Hub!Resumed(O, l.granted))
             /\ HubServed(l.readers, l.writer, l.queue)
             /\ HubInOrder(l.queue, Hub!Resumed(O, l.granted), done)
  <2>1. PICK longer : longer = Append(waitQueue, Hub!Waiter(op, type))
    OBVIOUS
  <2>2. l.readers = readers /\ l.writer = writer /\ l.queue = longer /\ l.granted = {}
    BY <1>w, <2>1 DEF Hub!Lock
  <2>3. /\ HubHeld(readers, writer, longer, O)
        /\ Len(longer) = Len(waitQueue) + 1
        /\ \A k \in DOMAIN waitQueue : longer[k] = waitQueue[k]
        /\ longer[Len(waitQueue) + 1].n = op.n
    BY <2>1, HubWaits
  <2>4. longer \in HubWaiters
    BY <2>3 DEF HubHeld
  <2>5. HubInOrder(longer, O, done)
    BY <1>0, <2>3, <2>4, HubOrderWaits
  <2>6. Hub!Resumed(O, l.granted) = O
    BY <2>2, HubSameIfNone
  <2> QED
    BY <1>w, <2>2, <2>3, <2>5, <2>6 DEF HubServed
<1>1. CASE Hub!OnlyReads(op)
  <2>0. op.do \notin Hub!Events
    BY <1>1 DEF Hub!OnlyReads, Hub!Events
  <2>1. CASE ~writer /\ \A k \in DOMAIN waitQueue : Hub!Reads(waitQueue[k])
    <3>1. l = [Hub!Lock EXCEPT !.readers = @ + 1, !.granted = {op.n}]
      BY <1>1, <2>1 DEF Hub!AcquireRead
    <3>2. l.readers = readers + 1 /\ l.writer = FALSE /\ l.queue = waitQueue /\ l.granted = {op.n}
      BY <1>0, <2>1, <3>1 DEF Hub!Lock
    <3>3. HubHeld(readers + 1, FALSE, waitQueue, Hub!Resumed(O, {op.n}))
      <4>1. writer = FALSE
        BY <1>0, <2>1
      <4>2. HubHeld(readers, FALSE, waitQueue, O)
        BY <4>1
      <4> QED
        BY <1>1, <4>2, HubIsGranted
    <3>4. HubInOrder(waitQueue, O, done)
      <4>1. O = (O \ {op}) \cup {op}
        OBVIOUS
      <4> QED
        BY <2>0, <4>1, HubOrderMore
    <3>5. HubInOrder(waitQueue, Hub!Resumed(O, {op.n}), done)
      BY <1>0, <2>0, <3>4, HubOrderGranted
    <3>6. readers + 1 > 0
      BY <1>0
    <3> QED
      BY <3>2, <3>3, <3>5, <3>6 DEF HubServed
  <2>2. CASE ~(~writer /\ \A k \in DOMAIN waitQueue : Hub!Reads(waitQueue[k]))
    <3>1. l = [Hub!Lock EXCEPT !.queue = Append(@, Hub!Waiter(op, type))]
      BY <1>1, <2>2 DEF Hub!AcquireRead
    <3>2. writer \/ readers > 0
      BY <2>2 DEF HubServed
    <3> QED
      BY <1>w, <3>1, <3>2
  <2> QED
    BY <2>1, <2>2
<1>2. CASE ~Hub!OnlyReads(op)
  <2>1. CASE ~writer /\ readers = 0
    <3>1. l = [Hub!Lock EXCEPT !.writer = TRUE, !.granted = {op.n}]
      BY <1>2, <2>1 DEF Hub!AcquireWrite
    <3>2. l.readers = 0 /\ l.writer = TRUE /\ l.queue = waitQueue /\ l.granted = {op.n}
      BY <1>0, <2>1, <3>1 DEF Hub!Lock
    <3>3. HubHeld(0, TRUE, waitQueue, Hub!Resumed(O, {op.n}))
      <4>1. writer = FALSE
        BY <1>0, <2>1
      <4>2. HubHeld(0, FALSE, waitQueue, O)
        BY <2>1, <4>1
      <4> QED
        BY <1>2, <4>2, HubIsGranted
    <3>4. waitQueue = <<>>
      BY <2>1 DEF HubServed
    <3>5. WritersOf(O) = {}
      BY <1>0, <2>1, HubCounts, FS_EmptySet DEF HubHeld
    <3>6. \A o \in O \ {op} : o.do \notin Hub!Events
      <4> TAKE o \in O \ {op}
      <4>1. CASE o.runs
        <5>1. Hub!OnlyReads(o)
          BY <3>5, <4>1 DEF WritersOf
        <5> QED
          BY <5>1 DEF Hub!OnlyReads, Hub!Events
      <4>2. CASE ~o.runs
        BY <3>4, <4>2 DEF HubInOrder
      <4> QED
        BY <4>1, <4>2
    <3>7. ASSUME NEW p \in Hub!Resumed(O, {op.n}), p.do \in Hub!Events
          PROVE  p.n = op.n /\ p.runs /\ op.do \in Hub!Events
      <4>1. PICK o \in O : p.do = o.do /\ p.n = o.n /\ (p.runs <=> o.runs \/ o.n \in {op.n})
        BY <1>0, HubResumes
      <4>2. o = op
        BY <3>6, <3>7, <4>1
      <4> QED
        BY <3>7, <4>1, <4>2
    <3>8. HubInOrder(waitQueue, Hub!Resumed(O, {op.n}), done)
      <4>1. DOMAIN waitQueue = {}
        BY <3>4
      <4>2. \A p \in Hub!Resumed(O, {op.n}) : p.do \in Hub!Events => \A a \in Agents : done[a] < p.n
        BY <3>7
      <4> QED
        BY <3>7, <4>1, <4>2 DEF HubInOrder
    <3> QED
      BY <3>2, <3>3, <3>8 DEF HubServed
  <2>2. CASE ~(~writer /\ readers = 0)
    <3>1. l = [Hub!Lock EXCEPT !.queue = Append(@, Hub!Waiter(op, type))]
      BY <1>2, <2>2 DEF Hub!AcquireWrite
    <3>2. writer \/ readers > 0
      BY <1>0, <2>2
    <3> QED
      BY <1>w, <3>1, <3>2
  <2> QED
    BY <2>1, <2>2
<1> QED
  BY <1>1, <1>2


\* ReadersAhead counts the readers before the first writer.
LEMMA HubAhead ==
  ASSUME NEW q \in HubWaiters
  PROVE  LET r == Hub!ReadersAhead(q)
         IN  /\ r \in 0..Len(q)
             /\ \A k \in 1..r : Hub!Reads(q[k])
             /\ r = Len(q) \/ ~Hub!Reads(q[r + 1])
<1>1. PICK m \in Nat : m = Len(q)
  BY DEF HubWaiters
<1>2. \E n \in 0..m :
        /\ \A k \in 1..n : Hub!Reads(q[k])
        /\ n = m \/ ~Hub!Reads(q[n + 1])
  <2>1. CASE \A k \in 1..m : Hub!Reads(q[k])
    BY <1>1, <2>1
  <2>2. CASE \E k \in 1..m : ~Hub!Reads(q[k])
    <3>1. PICK W : W = {k \in 1..m : ~Hub!Reads(q[k])}
      OBVIOUS
    <3>2. W \subseteq Nat /\ W # {}
      BY <2>2, <3>1
    <3>3. PICK f \in W : \A k \in W : f <= k
      BY <3>2, LeastNumber
    <3>4. f \in 1..m /\ ~Hub!Reads(q[f])
      BY <3>1
    <3>5. \A k \in 1..(f - 1) : Hub!Reads(q[k])
      <4> TAKE k \in 1..(f - 1)
      <4>1. k \in 1..m /\ k < f
        BY <3>4
      <4> QED
        BY <3>1, <3>3, <3>4, <4>1
    <3>6. f - 1 \in 0..m /\ (f - 1) + 1 = f
      BY <3>4
    <3> QED
      BY <3>4, <3>5, <3>6
  <2> QED
    BY <2>1, <2>2
<1> QED
  BY <1>1, <1>2 DEF Hub!ReadersAhead

\* When no section runs, the first r of the queue are granted the lock: readers, or one writer.
LEMMA HubGrants ==
  ASSUME NEW O, NEW q, HubHeld(0, FALSE, q, O), NEW done, HubInOrder(q, O, done),
         NEW r \in 1..Len(q), NEW rest \in HubWaiters, Len(rest) = Len(q) - r,
         \A k \in 1..(Len(q) - r) : rest[k] = q[k + r],
         NEW G, \A n : n \in G <=> \E k \in 1..r : n = q[k].n,
         (\A k \in 1..r : Hub!Reads(q[k])) \/ (r = 1 /\ ~Hub!Reads(q[1]))
  PROVE  /\ (\A k \in 1..r : Hub!Reads(q[k])) => HubHeld(r, FALSE, rest, Hub!Resumed(O, G))
         /\ ~Hub!Reads(q[1]) => HubHeld(0, TRUE, rest, Hub!Resumed(O, G))
         /\ HubInOrder(rest, Hub!Resumed(O, G), done)
<1> DEFINE P == Hub!Resumed(O, G)
<1>1. HubNumbered(O) /\ q \in HubWaiters
  BY DEF HubHeld
<1>2. HubNumbered(P)
  BY <1>1, HubResumes
<1>3. PICK m \in Nat : m = Len(q)
  BY <1>1 DEF HubWaiters
<1>4. r \in 1..m /\ DOMAIN q = 1..m /\ DOMAIN rest = 1..(m - r) /\ m - r \in Nat
  BY <1>1, <1>3, LenProperties DEF HubWaiters
<1>5. \A o \in O : ~o.runs
  <2>1. ReadersOf(O) = {} /\ WritersOf(O) = {}
    BY <1>1, HubCounts, FS_EmptySet DEF HubHeld
  <2> QED
    BY <2>1 DEF ReadersOf, WritersOf
<1>6. \A k \in 1..m : \E o \in O : o.n = q[k].n /\ (Hub!Reads(q[k]) <=> Hub!OnlyReads(o))
  BY <1>4 DEF HubHeld
<1>7. \A j, k \in 1..m : q[j].n = q[k].n => j = k
  BY <1>4 DEF HubHeld
<1>8. ASSUME NEW p \in P
      PROVE  \E o \in O : /\ p.n = o.n /\ p.do = o.do /\ (Hub!OnlyReads(p) <=> Hub!OnlyReads(o))
                          /\ (p.runs <=> o.n \in G)
  <2>1. PICK o \in O : /\ p.n = o.n /\ p.do = o.do /\ (Hub!OnlyReads(p) <=> Hub!OnlyReads(o))
                       /\ (p.runs <=> o.runs \/ o.n \in G)
    BY <1>1, HubResumedFrom
  <2>2. ~o.runs
    BY <1>5
  <2> QED
    BY <2>1, <2>2
<1>9. ASSUME NEW o \in O
      PROVE  \E p \in P : /\ p.n = o.n /\ p.do = o.do /\ (Hub!OnlyReads(p) <=> Hub!OnlyReads(o))
                          /\ (p.runs <=> o.n \in G)
  <2>1. PICK p \in Hub!Resumed(O, G) : /\ p.n = o.n /\ p.do = o.do /\ (Hub!OnlyReads(p) <=> Hub!OnlyReads(o))
                       /\ (p.runs <=> o.runs \/ o.n \in G)
    BY <1>1, HubResumedTo
  <2>2. ~o.runs
    BY <1>5
  <2> QED
    BY <2>1, <2>2
<1>10. ASSUME NEW p \in P, p.runs
       PROVE  \E k \in 1..r : p.n = q[k].n /\ (Hub!OnlyReads(p) <=> Hub!Reads(q[k]))
  <2>1. PICK o \in O : p.n = o.n /\ (Hub!OnlyReads(p) <=> Hub!OnlyReads(o)) /\ o.n \in G
    BY <1>8, <1>10
  <2>2. PICK k \in 1..r : o.n = q[k].n
    BY <2>1
  <2>3. PICK oq \in O : oq.n = q[k].n /\ (Hub!Reads(q[k]) <=> Hub!OnlyReads(oq))
    BY <1>4, <1>6
  <2>4. oq = o
    BY <1>1, <2>2, <2>3 DEF HubNumbered
  <2> QED
    BY <2>1, <2>2, <2>3, <2>4
<1>11. ASSUME NEW k \in 1..r
       PROVE  \E p \in P : p.n = q[k].n /\ p.runs /\ (Hub!OnlyReads(p) <=> Hub!Reads(q[k]))
  <2>1. PICK o \in O : o.n = q[k].n /\ (Hub!Reads(q[k]) <=> Hub!OnlyReads(o))
    BY <1>4, <1>6
  <2>2. o.n \in G
    BY <2>1
  <2> QED
    BY <1>9, <2>1, <2>2
<1>12. ASSUME NEW k \in 1..(m - r)
       PROVE  /\ rest[k] = q[k + r] /\ k + r \in 1..m /\ rest[k].n \notin G
              /\ \E p \in P : p.n = rest[k].n /\ ~p.runs /\ (Hub!Reads(rest[k]) <=> Hub!OnlyReads(p))
  <2>1. rest[k] = q[k + r] /\ k + r \in 1..m
    BY <1>3, <1>4
  <2>2. rest[k].n \notin G
    <3> SUFFICES ASSUME NEW j \in 1..r, q[j].n = q[k + r].n PROVE FALSE
      BY <2>1
    <3>1. j \in 1..m /\ j # k + r
      BY <1>4
    <3> QED
      BY <1>7, <2>1, <3>1
  <2>3. PICK o \in O : o.n = q[k + r].n /\ (Hub!Reads(q[k + r]) <=> Hub!OnlyReads(o))
    BY <1>6, <2>1
  <2> QED
    <3>1. PICK p \in P : p.n = o.n /\ (Hub!OnlyReads(p) <=> Hub!OnlyReads(o)) /\ (p.runs <=> o.n \in G)
      BY <1>9
    <3>2. rest[k].n = o.n
      BY <2>1, <2>3
    <3>3. Hub!Reads(rest[k]) <=> Hub!OnlyReads(p)
      BY <2>1, <2>3, <3>1
    <3> QED
      BY <2>1, <2>2, <3>1, <3>2, <3>3
<1>13. \A k \in DOMAIN rest :
         \E p \in P : p.n = rest[k].n /\ ~p.runs /\ (Hub!Reads(rest[k]) <=> Hub!OnlyReads(p))
  BY <1>4, <1>12
<1>14. \A j, k \in DOMAIN rest : rest[j].n = rest[k].n => j = k
  <2> TAKE j, k \in DOMAIN rest
  <2> HAVE rest[j].n = rest[k].n
  <2>1. j + r \in 1..m /\ k + r \in 1..m /\ q[j + r].n = q[k + r].n
    BY <1>4, <1>12
  <2>2. j + r = k + r
    BY <1>7, <2>1
  <2> QED
    BY <1>4, <2>2
<1>15. ASSUME \A k \in 1..r : Hub!Reads(q[k]) PROVE HubHeld(r, FALSE, rest, P)
  <2>1. WritersOf(P) = {}
    BY <1>10, <1>15 DEF WritersOf
  <2>2. Cardinality(WritersOf(P)) = 0
    BY <2>1, FS_EmptySet
  <2>3. PICK T : T = ReadersOf(P)
    OBVIOUS
  <2>4. \A k \in 1..r : \E p \in T : p.n = q[k].n
    BY <1>11, <1>15, <2>3 DEF ReadersOf
  <2>5. PICK f : f = [k \in 1..r |-> CHOOSE p \in T : p.n = q[k].n]
    OBVIOUS
  <2>6. \A k \in 1..r : f[k] \in T /\ f[k].n = q[k].n
    BY <2>4, <2>5
  <2>7. f \in [1..r -> T]
    BY <2>5, <2>6
  <2>8. f \in Injection(1..r, T)
    <3>1. \A j, k \in 1..r : f[j] = f[k] => j = k
      BY <1>4, <1>7, <2>6
    <3> QED
      BY <2>7, <3>1 DEF Injection, IsInjective
  <2>9. f \in Surjection(1..r, T)
    <3>1. \A p \in T : \E k \in 1..r : f[k] = p
      <4> TAKE p \in T
      <4>1. PICK k \in 1..r : p.n = q[k].n
        BY <1>10, <2>3 DEF ReadersOf
      <4>2. f[k] \in P /\ p \in P /\ f[k].n = p.n
        BY <2>3, <2>6, <4>1 DEF ReadersOf
      <4> QED
        BY <1>2, <4>2 DEF HubNumbered
    <3> QED
      BY <2>7, <3>1 DEF Surjection
  <2>10. r \in Nat /\ ExistsBijection(1..r, T)
    BY <1>4, <2>8, <2>9 DEF ExistsBijection, Bijection
  <2>11. Cardinality(T) = r
    BY <2>10, FS_CountingElements
  <2> QED
    BY <1>2, <1>13, <1>14, <2>2, <2>3, <2>10, <2>11 DEF HubHeld
<1>16. ASSUME ~Hub!Reads(q[1]) PROVE HubHeld(0, TRUE, rest, P)
  <2>1. r = 1
    BY <1>4, <1>16
  <2>2. PICK p \in P : p.n = q[1].n /\ p.runs /\ ~Hub!OnlyReads(p)
    <3>1. 1 \in 1..r
      BY <2>1
    <3> QED
      BY <1>11, <1>16, <3>1
  <2>3. \A x \in P : x.runs => x = p
    <3> TAKE x \in P
    <3> HAVE x.runs
    <3>1. PICK k \in 1..r : x.n = q[k].n
      BY <1>10
    <3>2. k = 1
      BY <2>1
    <3> QED
      BY <1>2, <2>2, <3>1, <3>2 DEF HubNumbered
  <2>4. WritersOf(P) = {p} /\ ReadersOf(P) = {}
    BY <2>2, <2>3 DEF WritersOf, ReadersOf
  <2>5. Cardinality(WritersOf(P)) = 1
    BY <2>4, FS_Singleton
  <2>6. Cardinality(ReadersOf(P)) = 0
    BY <2>4, FS_EmptySet
  <2> QED
    BY <1>2, <1>13, <1>14, <2>5, <2>6 DEF HubHeld
<1>17. HubInOrder(rest, P, done)
  <2>1. \A p \in P : p.do \in Hub!Events => \A a \in Agents : done[a] < p.n
    BY <1>8 DEF HubInOrder
  <2>2. ASSUME NEW p \in P, p.do \in Hub!Events
        PROVE  \E k \in 1..m : p.n = q[k].n /\ (p.runs <=> k <= r)
    <3>1. PICK o \in O : p.n = o.n /\ p.do = o.do /\ (p.runs <=> o.n \in G)
      BY <1>8
    <3>2. PICK k \in 1..m : q[k].n = o.n
      BY <1>4, <1>5, <2>2, <3>1 DEF HubInOrder
    <3>3. CASE k <= r
      BY <3>1, <3>2, <3>3
    <3>4. CASE k > r
      <4>1. q[k].n \notin G
        <5> SUFFICES ASSUME NEW j \in 1..r, q[j].n = q[k].n PROVE FALSE
          OBVIOUS
        <5>1. j \in 1..m /\ j # k
          BY <1>4, <3>4
        <5> QED
          BY <1>7, <5>1
      <4> QED
        BY <1>4, <3>1, <3>2, <3>4, <4>1
    <3> QED
      BY <1>4, <3>3, <3>4
  <2>3. ASSUME NEW p \in P, NEW other \in P, p.do \in Hub!Events, other.do \in Hub!Events,
               NEW j \in 1..m, NEW k \in 1..m, j < k, p.n = q[j].n, other.n = q[k].n
        PROVE  p.n < other.n
    <3>1. PICK o \in O : p.n = o.n /\ p.do = o.do
      BY <1>8
    <3>2. PICK oq \in O : other.n = oq.n /\ other.do = oq.do
      BY <1>8
    <3> QED
      <4>1. o.n = q[j].n /\ oq.n = q[k].n /\ o.do \in Hub!Events /\ oq.do \in Hub!Events
        BY <2>3, <3>1, <3>2
      <4>2. j \in DOMAIN q /\ k \in DOMAIN q
        BY <1>4
      <4>3. o.n < oq.n
        BY <2>3, <4>1, <4>2 DEF HubInOrder
      <4> QED
        BY <3>1, <3>2, <4>3
  <2>4. ASSUME NEW p \in P, p.do \in Hub!Events, ~p.runs
        PROVE  \E k \in DOMAIN rest : rest[k].n = p.n
    <3>1. PICK k \in 1..m : p.n = q[k].n /\ k > r
      BY <1>4, <2>2, <2>4
    <3>2. PICK i \in 1..(m - r) : i + r = k
      <4>1. k - r \in 1..(m - r) /\ (k - r) + r = k
        BY <1>4, <3>1
      <4> QED
        BY <4>1
    <3>3. rest[i] = q[k]
      BY <1>12, <3>2
    <3> QED
      BY <1>4, <3>1, <3>3
  <2>5. ASSUME NEW p \in P, NEW other \in P, p.do \in Hub!Events, other.do \in Hub!Events,
               p.runs, ~other.runs
        PROVE  p.n < other.n
    <3>1. PICK j \in 1..m : p.n = q[j].n /\ j <= r
      BY <2>2, <2>5
    <3>2. PICK k \in 1..m : other.n = q[k].n /\ k > r
      BY <1>4, <2>2, <2>5
    <3>3. j < k
      BY <1>4, <3>1, <3>2
    <3> QED
      BY <2>3, <2>5, <3>1, <3>2, <3>3
  <2>6. ASSUME NEW j \in DOMAIN rest, NEW k \in DOMAIN rest, NEW p \in P, NEW other \in P,
               j < k, p.do \in Hub!Events, other.do \in Hub!Events, p.n = rest[j].n, other.n = rest[k].n
        PROVE  p.n < other.n
    <3>1. j + r \in 1..m /\ k + r \in 1..m /\ p.n = q[j + r].n /\ other.n = q[k + r].n
      BY <1>4, <1>12, <2>6
    <3>2. j + r < k + r
      BY <1>4, <2>6
    <3> QED
      BY <2>3, <2>6, <3>1, <3>2
  <2> QED
    BY <2>1, <2>4, <2>5, <2>6 DEF HubInOrder
<1> QED
  BY <1>15, <1>16, <1>17

\* processQueue grants the lock to whoever is first, and leaves nobody waiting for a free lock.
LEMMA HubProcesses ==
  ASSUME NEW O, NEW q, HubHeld(0, FALSE, q, O), NEW done, HubInOrder(q, O, done), NEW l,
         l = Hub!ProcessQueue([readers |-> 0, writer |-> FALSE, queue |-> q, granted |-> {}])
  PROVE  /\ HubHeld(l.readers, l.writer, l.queue, Hub!Resumed(O, l.granted))
         /\ HubServed(l.readers, l.writer, l.queue)
         /\ HubInOrder(l.queue, Hub!Resumed(O, l.granted), done)
<1>1. q \in HubWaiters
  BY DEF HubHeld
<1>2. PICK m \in Nat : m = Len(q)
  BY <1>1 DEF HubWaiters
<1>3. PICK free : free = [readers |-> 0, writer |-> FALSE, queue |-> q, granted |-> {}]
  OBVIOUS
<1>4. free.readers = 0 /\ free.writer = FALSE /\ free.queue = q /\ free.granted = {}
  BY <1>3
<1>5. PICK r \in 0..m : /\ r = Hub!ReadersAhead(q)
                        /\ \A k \in 1..r : Hub!Reads(q[k])
                        /\ r = m \/ ~Hub!Reads(q[r + 1])
  BY <1>1, <1>2, HubAhead
<1>6. CASE q = <<>>
  <2>1. l = free
    BY <1>3, <1>4, <1>6 DEF Hub!ProcessQueue
  <2>2. Hub!Resumed(O, l.granted) = O
    BY <1>4, <2>1, HubSameIfNone
  <2> QED
    BY <1>4, <1>6, <2>1, <2>2 DEF HubServed
<1>7. CASE q # <<>> /\ r = 0
  <2>1. m >= 1 /\ ~Hub!Reads(q[1])
    <3>1. m # 0
      BY <1>1, <1>2, <1>7, EmptySeq DEF HubWaiters
    <3> QED
      BY <1>5, <1>7, <3>1
  <2>2. l = [free EXCEPT !.queue = Tail(@), !.writer = TRUE, !.granted = {Head(free.queue).n}]
    <3>1. /\ Hub!ReadersAhead(free.queue) = 0 /\ free.queue # <<>> /\ ~free.writer
          /\ ~(free.readers > 0)
      BY <1>4, <1>5, <1>7
    <3>2. l = Hub!ProcessQueue(free)
      BY <1>3
    <3> QED
      BY <3>1, <3>2 DEF Hub!ProcessQueue
  <2>3. l.readers = 0 /\ l.writer = TRUE /\ l.queue = Tail(q) /\ l.granted = {Head(q).n}
    BY <1>3, <2>2
  <2>4. PICK rest : rest = Tail(q)
    OBVIOUS
  <2>5. rest \in HubWaiters /\ Len(rest) = Len(q) - 1 /\ \A k \in 1..(Len(q) - 1) : rest[k] = q[k + 1]
    BY <1>1, <1>7, <2>4, HeadTailProperties DEF HubWaiters
  <2>6. {Head(q).n} = {q[k].n : k \in 1..1}
    <3>1. Head(q) = q[1] /\ 1..1 = {1}
      BY <1>1, <1>7, HeadTailProperties DEF HubWaiters
    <3> QED
      BY <3>1
  <2>7. HubHeld(0, TRUE, rest, Hub!Resumed(O, {Head(q).n})) /\ HubInOrder(rest, Hub!Resumed(O, {Head(q).n}), done)
    <3>1. PICK G : G = {Head(q).n}
      OBVIOUS
    <3>2. 1 \in 1..Len(q) /\ \A n : n \in G <=> \E k \in 1..1 : n = q[k].n
      BY <1>2, <2>1, <2>6, <3>1
    <3>3. HubHeld(0, TRUE, rest, Hub!Resumed(O, G)) /\ HubInOrder(rest, Hub!Resumed(O, G), done)
      BY <2>1, <2>5, <3>2, HubGrants
    <3> QED
      BY <3>1, <3>3
  <2> QED
    BY <2>3, <2>4, <2>7 DEF HubServed
<1>8. CASE q # <<>> /\ r # 0
  <2>1. l = [free EXCEPT !.queue = SubSeq(@, r + 1, Len(@)), !.readers = @ + r,
                         !.granted = {free.queue[k].n : k \in 1..r}]
    BY <1>3, <1>4, <1>5, <1>8 DEF Hub!ProcessQueue
  <2>2. PICK rest : rest = SubSeq(q, r + 1, Len(q))
    OBVIOUS
  <2>3. PICK G : G = {q[k].n : k \in 1..r}
    OBVIOUS
  <2>4. l.readers = r /\ l.writer = FALSE /\ l.queue = rest /\ l.granted = G
    <3>1. {free.queue[k].n : k \in 1..r} = G
      BY <1>4, <2>3
    <3>2. 0 + r = r
      OBVIOUS
    <3>3. l = [free EXCEPT !.queue = SubSeq(@, r + 1, Len(@)), !.readers = @ + r, !.granted = G]
      BY <2>1, <3>1
    <3> QED
      BY <1>3, <2>2, <3>2, <3>3
  <2>5. rest \in HubWaiters /\ Len(rest) = Len(q) - r /\ \A k \in 1..(Len(q) - r) : rest[k] = q[k + r]
    <3>1. \A k \in (r + 1)..m : q[k] \in [n : Nat, type : {"read", "write"}]
      <4> TAKE k \in (r + 1)..m
      <4>1. k \in 1..Len(q)
        BY <1>2
      <4> QED
        BY <1>1, <4>1, ElementOfSeq DEF HubWaiters
    <3>2. r \in 0..m /\ r + 1 \in Int
      OBVIOUS
    <3>3. /\ rest \in HubWaiters
          /\ Len(rest) = IF r + 1 <= m THEN m - (r + 1) + 1 ELSE 0
          /\ \A i \in 1..(m - (r + 1) + 1) : rest[i] = q[(r + 1) + i - 1]
      BY <1>2, <2>2, <3>1, <3>2, SubSeqProperties DEF HubWaiters
    <3>4. Len(rest) = m - r
      BY <3>3
    <3>5. \A k \in 1..(m - r) : rest[k] = q[k + r]
      <4> TAKE k \in 1..(m - r)
      <4>1. k \in 1..(m - (r + 1) + 1) /\ (r + 1) + k - 1 = k + r
        OBVIOUS
      <4> QED
        BY <3>3, <4>1
    <3> QED
      BY <1>2, <3>3, <3>4, <3>5
  <2>6. HubHeld(r, FALSE, rest, Hub!Resumed(O, G)) /\ HubInOrder(rest, Hub!Resumed(O, G), done)
    <3>1. r \in 1..Len(q)
      BY <1>2, <1>8
    <3>2. \A n : n \in G <=> \E k \in 1..r : n = q[k].n
      BY <2>3
    <3> QED
      BY <1>5, <2>5, <3>1, <3>2, HubGrants
  <2>7. r > 0
    BY <1>8
  <2> QED
    BY <2>4, <2>6, <2>7 DEF HubServed
<1> QED
  BY <1>6, <1>7, <1>8

\* releaseRead and releaseWrite, for an operation that ends.
LEMMA HubReadReleased ==
  ASSUME NEW O, HubHeld(readers - 1, writer, waitQueue, O), readers > 0,
         HubServed(readers, writer, waitQueue), ~writer,
         NEW done, HubInOrder(waitQueue, O, done), NEW l, l = Hub!ReleaseRead
  PROVE  /\ HubHeld(l.readers, l.writer, l.queue, Hub!Resumed(O, l.granted))
         /\ HubServed(l.readers, l.writer, l.queue)
         /\ HubInOrder(l.queue, Hub!Resumed(O, l.granted), done)
<1>1. PICK free : free = [Hub!Lock EXCEPT !.readers = @ - 1]
  OBVIOUS
<1>2. writer = FALSE
  BY DEF HubHeld
<1>3. free = [readers |-> readers - 1, writer |-> FALSE, queue |-> waitQueue, granted |-> {}]
  BY <1>1, <1>2 DEF Hub!Lock
<1>4. free.readers = readers - 1 /\ free.writer = FALSE /\ free.queue = waitQueue /\ free.granted = {}
  BY <1>3
<1>5. CASE readers - 1 = 0
  <2>1. l = Hub!ProcessQueue(free)
    BY <1>1, <1>4, <1>5 DEF Hub!ReleaseRead
  <2>2. free = [readers |-> 0, writer |-> FALSE, queue |-> waitQueue, granted |-> {}]
    BY <1>3, <1>5
  <2>3. HubHeld(0, FALSE, waitQueue, O)
    BY <1>2, <1>5
  <2> QED
    BY <2>1, <2>2, <2>3, HubProcesses
<1>6. CASE readers - 1 # 0
  <2>1. l = free
    BY <1>1, <1>4, <1>6 DEF Hub!ReleaseRead
  <2>2. Hub!Resumed(O, l.granted) = O
    BY <1>4, <2>1, HubSameIfNone
  <2>3. PICK n \in Nat : n = readers - 1
    BY DEF HubHeld
  <2>4. n > 0
    <3>1. n # 0
      BY <1>6, <2>3
    <3> QED
      BY <3>1
  <2>5. HubHeld(n, FALSE, waitQueue, O)
    BY <1>2, <2>3
  <2> QED
    BY <1>4, <2>1, <2>2, <2>3, <2>4, <2>5 DEF HubServed
<1> QED
  BY <1>5, <1>6

LEMMA HubWriteReleased ==
  ASSUME NEW O, HubHeld(0, FALSE, waitQueue, O), readers = 0,
         NEW done, HubInOrder(waitQueue, O, done), NEW l, l = Hub!ReleaseWrite
  PROVE  /\ HubHeld(l.readers, l.writer, l.queue, Hub!Resumed(O, l.granted))
         /\ HubServed(l.readers, l.writer, l.queue)
         /\ HubInOrder(l.queue, Hub!Resumed(O, l.granted), done)
<1>1. [Hub!Lock EXCEPT !.writer = FALSE]
        = [readers |-> 0, writer |-> FALSE, queue |-> waitQueue, granted |-> {}]
  <2>1. PICK free : free = [Hub!Lock EXCEPT !.writer = FALSE]
    OBVIOUS
  <2>2. free = [readers |-> readers, writer |-> FALSE, queue |-> waitQueue, granted |-> {}]
    BY <2>1 DEF Hub!Lock
  <2> QED
    BY <2>1, <2>2
<1>2. l = Hub!ProcessQueue([readers |-> 0, writer |-> FALSE, queue |-> waitQueue, granted |-> {}])
  BY <1>1 DEF Hub!ReleaseWrite
<1> QED
  BY <1>2, HubProcesses

\* The lock and its operations after a step.
LEMMA HubLockedNext ==
  ASSUME NEW l, NEW O, Hub!Locked(l, O), NEW done,
         HubHeld(l.readers, l.writer, l.queue, Hub!Resumed(O, l.granted)),
         HubServed(l.readers, l.writer, l.queue),
         HubInOrder(l.queue, Hub!Resumed(O, l.granted), done)
  PROVE  /\ HubHeld(readers', writer', waitQueue', ops')
         /\ HubServed(readers', writer', waitQueue')
         /\ HubInOrder(waitQueue', ops', done)
BY DEF Hub!Locked

LEMMA HubBegins == ASSUME HubBounds PROVE Hub!Init => HubInv
<1> SUFFICES ASSUME Hub!Init PROVE HubInv
  OBVIOUS
<1>1. ReadersOf({}) = {} /\ WritersOf({}) = {}
  BY DEF ReadersOf, WritersOf
<1>2. <<>> \in HubWaiters /\ DOMAIN <<>> = {}
  BY DEF HubWaiters
<1>3. Cardinality(ReadersOf({})) = 0 /\ Cardinality(WritersOf({})) = 0
  BY <1>1, FS_EmptySet
<1>4. HubNumbered({})
  BY FS_EmptySet DEF HubNumbered
<1>5. HubHeld(0, FALSE, <<>>, {})
  BY <1>2, <1>3, <1>4 DEF HubHeld
<1>6. HubHeld(readers, writer, waitQueue, ops) /\ HubServed(readers, writer, waitQueue)
  BY <1>5 DEF Hub!Init, HubServed
<1>7. HubInOrder(waitQueue, ops, applied)
  BY <1>2 DEF Hub!Init, HubInOrder
<1>8. HubKnown
  BY DEF Hub!Init, HubKnown, Hub!Has
<1> QED
  BY <1>6, <1>7, <1>8 DEF HubInv

\* What is known of an operation that runs or waits holds of it after its lock changed.
LEMMA HubKnownNext ==
  ASSUME NEW l, NEW O, HubNumbered(O), Hub!Locked(l, O),
         \A op \in O :
           /\ op.n <= opsMade' /\ op.seen <= sections'
           /\ op.do = "register" /\ op.seen >= 0 /\ agents'[op.a] # NoOne =>
                op.seen < agents'[op.a].made
           /\ op.do = "crash" =>
                /\ agents'[op.a] # NoOne => agents'[op.a].health = "TERMINATED"
                /\ \A other \in O : other.do = "crash"
  PROVE  \A op \in ops' :
           /\ op.n <= opsMade' /\ op.seen <= sections'
           /\ op.do = "register" /\ op.seen >= 0 /\ agents'[op.a] # NoOne =>
                op.seen < agents'[op.a].made
           /\ op.do = "crash" =>
                /\ agents'[op.a] # NoOne => agents'[op.a].health = "TERMINATED"
                /\ \A other \in ops' : other.do = "crash"
<1>1. ASSUME NEW p \in ops'
      PROVE  \E op \in O : p.n = op.n /\ p.do = op.do /\ p.a = op.a /\ p.seen = op.seen
  BY HubResumes DEF Hub!Locked
<1> QED
  BY <1>1

LEMMA HubBegunNext ==
  ASSUME HubInv, NEW do \in Hub!Tools \cup Hub!Events, NEW a \in Agents, Hub!Begin(do, a)
  PROVE  HubInv'
<1>1. PICK op : op = [n |-> opsMade + 1, do |-> do, a |-> a, runs |-> FALSE, seen |-> -1]
  OBVIOUS
<1>2. /\ op.n = opsMade + 1 /\ op.do = do /\ op.a = a /\ ~op.runs /\ op.seen = -1
      /\ op \in HubRecords /\ opsMade \in Nat /\ sections \in Nat
  BY <1>1 DEF HubRecords, HubInv, HubKnown
<1>3. PICK l : l = IF Hub!OnlyReads(op) THEN Hub!AcquireRead(op) ELSE Hub!AcquireWrite(op)
  OBVIOUS
<1>4. /\ Hub!Locked(l, ops \cup {op})
      /\ \A other \in ops : other.do # "crash"
      /\ opsMade' = opsMade + 1
      /\ UNCHANGED <<agents, channel, sections, applied>>
  BY <1>1, <1>3 DEF Hub!Begin
<1>5. HubHeld(readers, writer, waitQueue, ops) /\ HubNumbered(ops) /\ ops \subseteq HubRecords
  BY DEF HubInv, HubHeld, HubNumbered
<1>6. \A other \in ops : other.n < op.n /\ other.n # op.n
  BY <1>2, <1>5 DEF HubInv, HubKnown, HubRecords
<1>7. HubHeld(readers, writer, waitQueue, ops \cup {op}) /\ HubNumbered(ops \cup {op})
  BY <1>2, <1>5, <1>6, HubIdleComes, HubMore
<1>8. \A k \in DOMAIN waitQueue : waitQueue[k].n # op.n
  BY <1>5, <1>6 DEF HubHeld
<1>9. (ops \cup {op}) \ {op} = ops
  BY <1>6
<1>10. \A b \in Agents : applied[b] < op.n
  <2> TAKE b \in Agents
  <2>1. applied[b] <= opsMade /\ applied[b] \in Nat
    BY DEF HubInv, HubKnown
  <2> QED
    BY <1>2, <2>1
<1>11. /\ HubHeld(l.readers, l.writer, l.queue, Hub!Resumed(ops \cup {op}, l.granted))
       /\ HubServed(l.readers, l.writer, l.queue)
       /\ HubInOrder(l.queue, Hub!Resumed(ops \cup {op}, l.granted), applied)
  <2>1. HubServed(readers, writer, waitQueue) /\ HubInOrder(waitQueue, (ops \cup {op}) \ {op}, applied)
    BY <1>9 DEF HubInv
  <2>2. op \in ops \cup {op} /\ \A other \in (ops \cup {op}) \ {op} : other.n < op.n
    BY <1>6
  <2> QED
    BY <1>2, <1>3, <1>7, <1>8, <1>10, <2>1, <2>2, HubAcquires
<1>12. /\ HubHeld(readers', writer', waitQueue', ops')
       /\ HubServed(readers', writer', waitQueue')
       /\ HubInOrder(waitQueue', ops', applied')
  BY <1>4, <1>11, HubLockedNext
<1>13. HubKnown'
  <2>1. \A o \in ops \cup {op} :
           /\ o.n <= opsMade' /\ o.seen <= sections'
           /\ o.do = "register" /\ o.seen >= 0 /\ agents'[o.a] # NoOne =>
                o.seen < agents'[o.a].made
           /\ o.do = "crash" =>
                /\ agents'[o.a] # NoOne => agents'[o.a].health = "TERMINATED"
                /\ \A other \in ops \cup {op} : other.do = "crash"
    <3> TAKE o \in ops \cup {op}
    <3>1. CASE o = op
      <4>1. op.do # "crash"
        BY <1>2 DEF Hub!Tools, Hub!Events
      <4> QED
        BY <1>2, <1>4, <3>1, <4>1
    <3>2. CASE o # op
      <4>1. /\ o \in ops /\ o.n <= opsMade /\ o.n \in Nat /\ o.seen <= sections /\ o.do # "crash"
            /\ o.do = "register" /\ o.seen >= 0 /\ agents[o.a] # NoOne =>
                 o.seen < agents[o.a].made
        BY <1>4, <1>5, <3>2 DEF HubInv, HubKnown, HubRecords, Hub!Has
      <4> QED
        BY <1>2, <1>4, <4>1
    <3> QED
      BY <3>1, <3>2
  <2>2. \A b \in Agents : applied'[b] <= opsMade'
    <3> TAKE b \in Agents
    <3>1. applied[b] <= opsMade /\ applied[b] \in Nat
      BY DEF HubInv, HubKnown
    <3> QED
      BY <1>2, <1>4, <3>1
  <2>3. opsMade' \in Nat
    BY <1>2, <1>4
  <2> QED
    BY <1>4, <1>7, <2>1, <2>2, <2>3, HubKnownNext DEF HubInv, HubKnown, Hub!Has
<1> QED
  BY <1>12, <1>13 DEF HubInv

\* A reader that ends releases the lock; what it leaves behind neither runs nor waits.
LEMMA HubReaderNext ==
  ASSUME HubInv, NEW op \in ops, op.runs, Hub!OnlyReads(op), op.do \notin Hub!Events,
         NEW O, HubHeld(readers - 1, writer, waitQueue, O), HubInOrder(waitQueue, O, applied),
         Hub!Locked(Hub!ReleaseRead, O), UNCHANGED <<agents, sections, opsMade, applied>>,
         \A o \in O : o \in ops \/ (o.n = op.n /\ o.seen = sections /\ o.do = "register" /\ ~Hub!Has(o.a))
  PROVE  HubInv'
<1>1. HubHeld(readers, writer, waitQueue, ops) /\ HubServed(readers, writer, waitQueue)
  BY DEF HubInv
<1>2. readers > 0
  BY <1>1, HubReaderEnds
<1>3. ~writer
  BY <1>1, <1>2 DEF HubHeld
<1>4. PICK l : l = Hub!ReleaseRead
  OBVIOUS
<1>5. Hub!Locked(l, O)
  BY <1>4
<1>6. /\ HubHeld(l.readers, l.writer, l.queue, Hub!Resumed(O, l.granted))
      /\ HubServed(l.readers, l.writer, l.queue)
      /\ HubInOrder(l.queue, Hub!Resumed(O, l.granted), applied)
  BY <1>1, <1>2, <1>3, <1>4, HubReadReleased
<1>7. /\ HubHeld(readers', writer', waitQueue', ops')
      /\ HubServed(readers', writer', waitQueue')
      /\ HubInOrder(waitQueue', ops', applied')
  BY <1>5, <1>6, HubLockedNext
<1>8. HubNumbered(O)
  BY DEF HubHeld
<1>9. op.do # "crash"
  BY DEF Hub!OnlyReads
<1>10. \A o \in ops : o.do # "crash"
  BY <1>9 DEF HubInv, HubKnown
<1>11. \A o \in O :
         /\ o.n <= opsMade' /\ o.seen <= sections'
         /\ o.do = "register" /\ o.seen >= 0 /\ agents'[o.a] # NoOne =>
              o.seen < agents'[o.a].made
         /\ o.do = "crash" =>
              /\ agents'[o.a] # NoOne => agents'[o.a].health = "TERMINATED"
              /\ \A other \in O : other.do = "crash"
  <2> TAKE o \in O
  <2>1. CASE o \in ops
    BY <1>10, <2>1 DEF HubInv, HubKnown, Hub!Has
  <2>2. CASE o.n = op.n /\ o.seen = sections /\ o.do = "register" /\ ~Hub!Has(o.a)
    <3>1. sections \in Nat /\ op.n <= opsMade
      BY DEF HubInv, HubKnown
    <3> QED
      BY <2>2, <3>1 DEF Hub!Has
  <2> QED
    BY <2>1, <2>2
<1>12. HubKnown'
  BY <1>5, <1>8, <1>11, HubKnownNext DEF HubInv, HubKnown, Hub!Has
<1> QED
  BY <1>7, <1>12 DEF HubInv

LEMMA HubLookNext ==
  ASSUME HubInv, NEW op \in ops, Hub!Look(op), UNCHANGED <<channel, opsMade, applied>>
  PROVE  HubInv'
<1>1. op.runs /\ Hub!OnlyReads(op) /\ op.do \notin Hub!Events
  BY DEF Hub!Look, Hub!OnlyReads, Hub!Events
<1>2. HubHeld(readers - 1, writer, waitQueue, ops \ {op})
  BY <1>1, HubReaderEnds DEF HubInv
<1>3. HubInOrder(waitQueue, ops \ {op}, applied)
  BY HubOrderFewer DEF HubInv
<1> QED
  BY <1>1, <1>2, <1>3, HubReaderNext DEF Hub!Look

\* The operation after it has looked whether the agent is known.
HubHasLooked(p, op, m) == p = [op EXCEPT !.runs = FALSE, !.seen = m]

LEMMA HubLooked ==
  ASSUME NEW op \in HubRecords, NEW m \in Nat, NEW p, HubHasLooked(p, op, m)
  PROVE  p \in HubRecords /\ p.n = op.n /\ p.do = op.do /\ p.a = op.a /\ ~p.runs /\ p.seen = m
<1>1. PICK no \in BOOLEAN : no = FALSE
  OBVIOUS
<1>2. PICK idle \in HubRecords : idle = [op EXCEPT !.runs = no]
  BY DEF HubRecords
<1>3. p = [idle EXCEPT !.seen = m]
  BY <1>1, <1>2 DEF HubRecords, HubHasLooked
<1>4. m \in Int
  OBVIOUS
<1> QED
  BY <1>1, <1>2, <1>3, <1>4 DEF HubRecords

LEMMA HubCheckNext ==
  ASSUME HubInv, NEW op \in ops, Hub!CheckUnique(op), UNCHANGED <<channel, opsMade, applied>>
  PROVE  HubInv'
<1>1. op.runs /\ Hub!OnlyReads(op) /\ op.do \notin Hub!Events /\ op.do = "register"
  BY DEF Hub!CheckUnique, Hub!OnlyReads, Hub!Events
<1>2. HubHeld(readers - 1, writer, waitQueue, ops \ {op})
  BY <1>1, HubReaderEnds DEF HubInv
<1>3. HubInOrder(waitQueue, ops \ {op}, applied)
  BY HubOrderFewer DEF HubInv
<1>4. CASE Hub!Has(op.a)
  BY <1>1, <1>2, <1>3, <1>4, HubReaderNext DEF Hub!CheckUnique
<1>5. CASE ~Hub!Has(op.a)
  <2>1. PICK p : p = [op EXCEPT !.runs = FALSE, !.seen = sections]
    OBVIOUS
  <2>2. op \in HubRecords /\ sections \in Nat
    BY DEF HubInv, HubHeld, HubNumbered, HubKnown
  <2>3. p \in HubRecords /\ p.n = op.n /\ p.do = op.do /\ p.a = op.a /\ ~p.runs /\ p.seen = sections
    <3>1. HubHasLooked(p, op, sections)
      BY <2>1 DEF HubHasLooked
    <3> QED
      BY <2>2, <3>1, HubLooked
  <2>4. Hub!Locked(Hub!ReleaseRead, (ops \ {op}) \cup {p}) /\ UNCHANGED <<agents, sections>>
    BY <1>5, <2>1 DEF Hub!CheckUnique
  <2>5. \A other \in ops \ {op} : other.n # p.n
    BY <2>3 DEF HubInv, HubHeld, HubNumbered
  <2>6. HubHeld(readers - 1, writer, waitQueue, (ops \ {op}) \cup {p})
    BY <1>2, <2>3, <2>5, HubIdleComes
  <2>7. HubInOrder(waitQueue, (ops \ {op}) \cup {p}, applied)
    BY <1>1, <1>3, <2>3, HubOrderMore
  <2>8. \A o \in (ops \ {op}) \cup {p} :
          o \in ops \/ (o.n = op.n /\ o.seen = sections /\ o.do = "register" /\ ~Hub!Has(o.a))
    BY <1>1, <1>5, <2>3
  <2> QED
    BY <1>1, <2>4, <2>6, <2>7, <2>8, HubReaderNext
<1> QED
  BY <1>4, <1>5

LEMMA HubValidateNext ==
  ASSUME HubInv, NEW op \in ops, Hub!Validate(op), UNCHANGED <<channel, opsMade, applied>>
  PROVE  HubInv'
<1>1. /\ op.do = "register" /\ op.seen >= 0 /\ ~op.runs
      /\ \A k \in DOMAIN waitQueue : waitQueue[k].n # op.n
      /\ UNCHANGED <<agents, sections>>
  BY DEF Hub!Validate
<1>2. /\ HubHeld(readers, writer, waitQueue, ops) /\ HubServed(readers, writer, waitQueue)
      /\ HubInOrder(waitQueue, ops, applied) /\ HubNumbered(ops) /\ op \in HubRecords
  BY DEF HubInv, HubHeld, HubNumbered
<1>3. HubInOrder(waitQueue, ops \ {op}, applied)
  BY <1>2, HubOrderFewer
<1>4. op.do \notin Hub!Events /\ op.do # "crash"
  BY <1>1 DEF Hub!Events
<1>5. ~Hub!OnlyReads(op)
  BY <1>1, <1>2 DEF Hub!OnlyReads, HubRecords
<1>6. ASSUME NEW l, NEW O, O \subseteq ops, HubNumbered(O), Hub!Locked(l, O)
      PROVE  HubKnown'
  <2>1. \A o \in O :
         /\ o.n <= opsMade' /\ o.seen <= sections'
         /\ o.do = "register" /\ o.seen >= 0 /\ agents'[o.a] # NoOne =>
              o.seen < agents'[o.a].made
         /\ o.do = "crash" =>
              /\ agents'[o.a] # NoOne => agents'[o.a].health = "TERMINATED"
              /\ \A other \in O : other.do = "crash"
    BY <1>1, <1>6 DEF HubInv, HubKnown, Hub!Has
  <2> QED
    BY <1>1, <1>6, <2>1, HubKnownNext DEF HubInv, HubKnown, Hub!Has
<1>7. CASE Hub!Locked(Hub!Lock, ops \ {op})
  <2>1. HubHeld(readers, writer, waitQueue, ops \ {op})
    BY <1>1, <1>2, HubIdleGoes
  <2>2. HubNumbered(ops \ {op})
    BY <2>1 DEF HubHeld
  <2>3. Hub!Resumed(ops \ {op}, {}) = ops \ {op}
    BY HubSameIfNone
  <2>4. UNCHANGED <<readers, writer, waitQueue>> /\ ops' = ops \ {op}
    BY <1>7, <2>3 DEF Hub!Locked, Hub!Lock
  <2>5. HubKnown'
    BY <1>6, <1>7, <2>2
  <2> QED
    BY <1>1, <1>2, <1>3, <2>1, <2>4, <2>5 DEF HubInv
<1>8. CASE Hub!Locked(Hub!AcquireWrite(op), ops)
  <2>1. PICK l : l = Hub!AcquireWrite(op)
    OBVIOUS
  <2>2. l = IF Hub!OnlyReads(op) THEN Hub!AcquireRead(op) ELSE Hub!AcquireWrite(op)
    BY <1>5, <2>1
  <2>3. /\ HubHeld(l.readers, l.writer, l.queue, Hub!Resumed(ops, l.granted))
        /\ HubServed(l.readers, l.writer, l.queue)
        /\ HubInOrder(l.queue, Hub!Resumed(ops, l.granted), applied)
    BY <1>1, <1>2, <1>3, <1>4, <2>2, HubAcquires
  <2>4. Hub!Locked(l, ops)
    BY <1>8, <2>1
  <2>5. /\ HubHeld(readers', writer', waitQueue', ops')
        /\ HubServed(readers', writer', waitQueue')
        /\ HubInOrder(waitQueue', ops', applied')
    BY <2>3, <2>4, HubLockedNext
  <2>6. HubKnown'
    BY <1>2, <1>6, <2>4
  <2> QED
    BY <2>5, <2>6 DEF HubInv
<1> QED
  BY <1>7, <1>8 DEF Hub!Validate

\* What a write section does to the registry.
LEMMA HubWrites ==
  ASSUME HubInv, NEW op \in ops, Hub!Write(op)
  PROVE  /\ DOMAIN agents' = Agents
         /\ \A a \in Agents : agents'[a] # NoOne => agents'[a] \in HubEntries
         /\ \A a \in Agents :
              \/ agents'[a] = agents[a] \/ agents'[a] = NoOne
              \/ agents'[a].made = sections + 1 /\ op.do # "crash"
              \/ Hub!Has(a) /\ agents'[a].made = agents[a].made /\ op.do # "crash"
         /\ \A a \in Agents : a # op.a => agents'[a] = agents[a]
         /\ op.do = "spawned" /\ Hub!Has(op.a) => agents' = agents
<1>1. op \in HubRecords /\ op.a \in Agents /\ sections \in Nat
  BY DEF HubInv, HubHeld, HubNumbered, HubRecords, HubKnown
<1>2. DOMAIN agents = Agents /\ \A a \in Agents : Hub!Has(a) => agents[a] \in HubEntries
  BY DEF HubInv, HubKnown
<1>3. Hub!Entry(sections + 1) \in HubEntries /\ Hub!Entry(sections + 1).made = sections + 1
  BY <1>1 DEF Hub!Entry, HubEntries
<1>4. \/ op.do = "register" /\ Hub!Register(op)
      \/ op.do = "spawned" /\ Hub!Spawned(op)
      \/ op.do \in {"terminated", "deregister", "crash"} /\ Hub!Dropped(op)
      \/ op.do = "health_changed" /\ Hub!SetHealth(op)
      \/ op.do = "registered" /\ UNCHANGED agents
  <2>1. op.do # "look"
    BY DEF Hub!Write, Hub!OnlyReads
  <2>2. op.do \in {"register", "deregister", "spawned", "terminated", "registered", "health_changed", "crash"}
    BY <1>1, <2>1 DEF HubRecords, Hub!Tools, Hub!Events
  <2> QED
    BY <2>2 DEF Hub!Write
<1>5. CASE op.do = "register" /\ Hub!Register(op)
  BY <1>1, <1>2, <1>3, <1>5 DEF Hub!Register, Hub!Replace, Hub!Has
<1>6. CASE op.do = "spawned" /\ Hub!Spawned(op)
  BY <1>1, <1>2, <1>3, <1>6 DEF Hub!Spawned, Hub!Replace, Hub!Has
<1>7. CASE op.do \in {"terminated", "deregister", "crash"} /\ Hub!Dropped(op)
  BY <1>1, <1>2, <1>7 DEF Hub!Dropped, Hub!Replace, Hub!Has
<1>8. CASE op.do = "health_changed" /\ Hub!SetHealth(op)
  <2>1. CASE ~Hub!Has(op.a)
    BY <1>2, <1>8, <2>1 DEF Hub!SetHealth, Hub!Has
  <2>2. CASE Hub!Has(op.a)
    <3>1. PICK health \in {"HEALTHY", "TERMINATED"} : agents' = [agents EXCEPT ![op.a].health = health]
      BY <1>8, <2>2 DEF Hub!SetHealth
    <3>2. PICK e \in HubEntries : e = [agents[op.a] EXCEPT !.health = health]
      BY <1>1, <1>2, <2>2 DEF HubEntries
    <3>3. e.made = agents[op.a].made /\ agents' = [agents EXCEPT ![op.a] = e]
      BY <1>1, <1>2, <2>2, <3>1, <3>2 DEF HubEntries
    <3> QED
      BY <1>1, <1>2, <1>8, <2>2, <3>3 DEF Hub!Has
  <2> QED
    BY <2>1, <2>2
<1>9. CASE op.do = "registered" /\ UNCHANGED agents
  BY <1>2, <1>9 DEF Hub!Has
<1> QED
  BY <1>4, <1>5, <1>6, <1>7, <1>8, <1>9

LEMMA HubWriteNext ==
  ASSUME HubInv, NEW op \in ops, Hub!Write(op)
  PROVE  HubInv'
<1>1. op.runs /\ ~Hub!OnlyReads(op)
  BY DEF Hub!Write
<1>2. /\ HubHeld(readers, writer, waitQueue, ops) /\ HubNumbered(ops) /\ op \in HubRecords
      /\ HubInOrder(waitQueue, ops, applied) /\ opsMade \in Nat /\ sections \in Nat
  BY DEF HubInv, HubHeld, HubNumbered, HubKnown
<1>3. /\ writer /\ readers = 0 /\ HubHeld(0, FALSE, waitQueue, ops \ {op})
      /\ \A other \in ops : other.runs => other = op
  BY <1>1, <1>2, HubWriterEnds
<1>4. HubNumbered(ops \ {op})
  BY <1>3 DEF HubHeld
<1>5. /\ sections' = sections + 1 /\ opsMade' = opsMade
      /\ applied' = IF op.do \in Hub!Events THEN [applied EXCEPT ![op.a] = op.n] ELSE applied
      /\ Hub!Locked(Hub!ReleaseWrite, ops \ {op})
  BY DEF Hub!Write
<1>6. applied \in [Agents -> Nat] /\ op.a \in Agents /\ op.n \in Nat /\ op.n <= opsMade
  BY <1>2 DEF HubInv, HubKnown, HubRecords
<1>7. applied' \in [Agents -> Nat] /\ \A a \in Agents : applied'[a] \in {applied[a], op.n}
  BY <1>5, <1>6
<1>8. HubInOrder(waitQueue, ops \ {op}, applied')
  <2>1. HubInOrder(waitQueue, ops \ {op}, applied)
    BY <1>2, HubOrderFewer
  <2>2. ASSUME NEW o \in ops \ {op}, o.do \in Hub!Events, NEW a \in Agents PROVE applied'[a] < o.n
    <3>1. applied[a] < o.n
      BY <2>1, <2>2 DEF HubInOrder
    <3>2. CASE op.do \in Hub!Events
      <4>1. ~o.runs
        BY <1>3, <2>2
      <4>2. op.n < o.n
        BY <1>1, <1>2, <2>2, <3>2, <4>1 DEF HubInOrder
      <4> QED
        BY <1>7, <3>1, <4>2
    <3>3. CASE op.do \notin Hub!Events
      BY <1>5, <3>1, <3>3
    <3> QED
      BY <3>2, <3>3
  <2> QED
    BY <2>1, <2>2 DEF HubInOrder
<1>9. PICK l : l = Hub!ReleaseWrite
  OBVIOUS
<1>10. /\ HubHeld(l.readers, l.writer, l.queue, Hub!Resumed(ops \ {op}, l.granted))
       /\ HubServed(l.readers, l.writer, l.queue)
       /\ HubInOrder(l.queue, Hub!Resumed(ops \ {op}, l.granted), applied')
  BY <1>3, <1>8, <1>9, HubWriteReleased
<1>11. Hub!Locked(l, ops \ {op})
  BY <1>5, <1>9
<1>12. /\ HubHeld(readers', writer', waitQueue', ops')
       /\ HubServed(readers', writer', waitQueue')
       /\ HubInOrder(waitQueue', ops', applied')
  BY <1>10, <1>11, HubLockedNext
<1>13. \A a \in Agents :
         \/ agents'[a] = agents[a] \/ agents'[a] = NoOne
         \/ agents'[a].made = sections + 1 /\ op.do # "crash"
         \/ Hub!Has(a) /\ agents'[a].made = agents[a].made /\ op.do # "crash"
  BY HubWrites
<1>14. \A o \in ops \ {op} :
         /\ o.n <= opsMade' /\ o.seen <= sections'
         /\ o.do = "register" /\ o.seen >= 0 /\ agents'[o.a] # NoOne =>
              o.seen < agents'[o.a].made
         /\ o.do = "crash" =>
              /\ agents'[o.a] # NoOne => agents'[o.a].health = "TERMINATED"
              /\ \A other \in ops \ {op} : other.do = "crash"
  <2> TAKE o \in ops \ {op}
  <2>1. /\ o \in HubRecords /\ o.n <= opsMade /\ o.seen <= sections /\ o.seen \in Int
        /\ o.a \in Agents
    BY <1>2 DEF HubInv, HubKnown, HubNumbered, HubRecords
  <2>2. o.n <= opsMade' /\ o.seen <= sections'
    BY <1>2, <1>5, <2>1
  <2>3. ASSUME o.do = "register", o.seen >= 0, agents'[o.a] # NoOne
        PROVE  o.seen < agents'[o.a].made
    <3>1. CASE agents'[o.a].made = sections + 1
      BY <1>2, <2>1, <3>1
    <3>2. CASE Hub!Has(o.a) /\ agents'[o.a].made = agents[o.a].made
      BY <2>3, <3>2 DEF HubInv, HubKnown
    <3>3. CASE agents'[o.a] = agents[o.a]
      BY <2>3, <3>3 DEF HubInv, HubKnown, Hub!Has
    <3> QED
      BY <1>13, <2>1, <2>3, <3>1, <3>2, <3>3
  <2>4. ASSUME o.do = "crash"
        PROVE  /\ agents'[o.a] # NoOne => agents'[o.a].health = "TERMINATED"
               /\ \A other \in ops \ {op} : other.do = "crash"
    <3>1. \A other \in ops : other.do = "crash"
      BY <2>4 DEF HubInv, HubKnown
    <3>2. agents'[o.a] = agents[o.a] \/ agents'[o.a] = NoOne
      BY <1>13, <2>1, <3>1
    <3> QED
      BY <2>4, <3>1, <3>2 DEF HubInv, HubKnown, Hub!Has
  <2> QED
    BY <2>2, <2>3, <2>4
<1>15. \A a \in Agents : applied'[a] <= opsMade'
  <2> TAKE a \in Agents
  <2>1. applied[a] <= opsMade
    BY DEF HubInv, HubKnown
  <2> QED
    BY <1>5, <1>6, <1>7, <2>1
<1>16. HubKnown'
  <2>1. sections' \in Nat /\ opsMade' \in Nat
    BY <1>2, <1>5
  <2> QED
    BY <1>4, <1>7, <1>11, <1>14, <1>15, <2>1, HubKnownNext, HubWrites DEF HubKnown, Hub!Has
<1> QED
  BY <1>12, <1>16 DEF HubInv

\* A tick with every agent it finds dead.
LEMMA HubTickNext == ASSUME HubBounds, HubInv, Hub!Tick PROVE HubInv'
<1> DEFINE dead == {a \in Agents : Hub!Has(a) /\ agents[a].health # "TERMINATED"
                                          /\ Hub!Missed(agents[a]).health = "TERMINATED"}
<1>1. IsFiniteSet(dead)
  BY FS_Subset DEF HubBounds
<1>2. PICK count \in Nat : count = Cardinality(dead) /\ count = Hub!Cardinality(dead)
  BY <1>1, FS_CardinalityType, SameCounts
<1>3. /\ ops = {} /\ agents' = [a \in Agents |-> Hub!Missed(agents[a])]
      /\ writer' = (dead # {}) /\ opsMade' = opsMade + count
      /\ UNCHANGED <<readers, channel, sections, applied>>
  BY <1>2 DEF Hub!Tick
<1>4. PICK order \in [1..count -> dead] :
         /\ ops' = {Hub!Crash(k, order[k]) : k \in 1..count}
         /\ waitQueue' = [k \in 1..(count - 1) |-> Hub!Waiter(Hub!Crash(k + 1, order[k + 1]), "write")]
  BY <1>2 DEF Hub!Tick
<1> HIDE DEF dead
<1>5. opsMade \in Nat /\ sections \in Nat /\ applied \in [Agents -> Nat]
  BY DEF HubInv, HubKnown
<1>6. dead \subseteq Agents
  BY DEF dead
<1>7. PICK crash : crash = [k \in 1..count |-> Hub!Crash(k, order[k])]
  OBVIOUS
<1>8. ASSUME NEW k \in 1..count
      PROVE  /\ crash[k] \in HubRecords /\ crash[k].n = opsMade + k /\ crash[k].do = "crash"
             /\ crash[k].a = order[k] /\ order[k] \in dead /\ (crash[k].runs <=> k = 1) /\ crash[k].seen = -1
             /\ ~Hub!OnlyReads(crash[k]) /\ crash[k].do \notin Hub!Events
             /\ crash[k] = Hub!Crash(k, order[k])
  <2>1. crash[k] = Hub!Crash(k, order[k]) /\ order[k] \in dead /\ order[k] \in Agents
    BY <1>6, <1>7
  <2>2. opsMade + k \in Nat /\ -1 \in Int
    BY <1>5
  <2>3. PICK first \in BOOLEAN : first <=> k = 1
    OBVIOUS
  <2>4. crash[k] = [n |-> opsMade + k, do |-> "crash", a |-> order[k], runs |-> first, seen |-> -1]
    BY <2>1, <2>3 DEF Hub!Crash
  <2> QED
    BY <2>1, <2>2, <2>3, <2>4 DEF HubRecords, Hub!OnlyReads, Hub!Events
<1>9. ops' = {crash[k] : k \in 1..count}
  BY <1>4, <1>7
<1>10. \A op \in ops' : \E k \in 1..count : op = crash[k]
  BY <1>9
<1>11. \A k \in 1..count : crash[k] \in ops'
  BY <1>9
<1>12. HubNumbered(ops')
  <2>1. crash \in Surjection(1..count, ops')
    BY <1>7, <1>10, <1>11 DEF Surjection
  <2>2. IsFiniteSet(1..count)
    BY FS_Interval
  <2>3. IsFiniteSet(ops')
    BY <2>1, <2>2, FS_Surjection
  <2>4. \A op, other \in ops' : op.n = other.n => op = other
    <3> TAKE op, other \in ops'
    <3> HAVE op.n = other.n
    <3>1. PICK j \in 1..count : op = crash[j]
      BY <1>10
    <3>2. PICK k \in 1..count : other = crash[k]
      BY <1>10
    <3>3. opsMade + j = opsMade + k
      BY <1>8, <3>1, <3>2
    <3>4. j = k
      BY <1>5, <3>3
    <3> QED
      BY <3>1, <3>2, <3>4
  <2> QED
    BY <1>8, <1>10, <2>3, <2>4 DEF HubNumbered
<1>13. ReadersOf(ops') = {}
  BY <1>8, <1>10 DEF ReadersOf
<1>14. readers' = 0
  <2>1. ReadersOf({}) = {}
    BY DEF ReadersOf
  <2> QED
    BY <1>3, <2>1, FS_EmptySet DEF HubInv, HubHeld
<1>15. dead = {} <=> count = 0
  BY <1>1, <1>2, FS_EmptySet
<1>16. PICK w \in BOOLEAN : w = writer' /\ (w <=> count # 0)
  BY <1>3, <1>15
<1>17. Cardinality(WritersOf(ops')) = IF w THEN 1 ELSE 0
  <2>1. CASE count = 0
    <3>1. WritersOf(ops') = {}
      BY <1>10, <2>1 DEF WritersOf
    <3> QED
      BY <1>16, <2>1, <3>1, FS_EmptySet
  <2>2. CASE count # 0
    <3>1. 1 \in 1..count
      BY <2>2
    <3>2. WritersOf(ops') = {crash[1]}
      BY <1>8, <1>10, <1>11, <3>1 DEF WritersOf
    <3>3. Cardinality(WritersOf(ops')) = 1
      BY <3>2, FS_Singleton
    <3> QED
      BY <1>16, <2>2, <3>3
  <2> QED
    BY <2>1, <2>2
<1>18. PICK q : q = waitQueue'
  OBVIOUS
<1>19. ASSUME NEW k \in 1..(count - 1)
       PROVE  /\ k + 1 \in 1..count /\ q[k].n = crash[k + 1].n /\ q[k].n = opsMade + (k + 1)
              /\ ~Hub!Reads(q[k]) /\ q[k] \in [n : Nat, type : {"read", "write"}]
              /\ ~crash[k + 1].runs
  <2>1. k + 1 \in 1..count /\ k + 1 # 1
    OBVIOUS
  <2>2. q[k] = Hub!Waiter(crash[k + 1], "write")
    BY <1>4, <1>8, <1>18, <2>1
  <2>3. crash[k + 1].n = opsMade + (k + 1) /\ crash[k + 1].n \in Nat /\ ~crash[k + 1].runs
    BY <1>8, <2>1 DEF HubRecords
  <2> QED
    BY <2>1, <2>2, <2>3 DEF Hub!Waiter, Hub!Reads
<1>20. DOMAIN q = 1..(count - 1) /\ q \in HubWaiters
  <2>1. q = [k \in 1..(count - 1) |-> Hub!Waiter(Hub!Crash(k + 1, order[k + 1]), "write")]
    BY <1>4, <1>18
  <2>2. CASE count = 0
    <3>1. 1..(count - 1) = {}
      BY <2>2
    <3>2. q = <<>> /\ DOMAIN q = {}
      BY <2>1, <3>1
    <3> QED
      BY <3>1, <3>2 DEF HubWaiters
  <2>3. CASE count # 0
    <3>1. count - 1 \in Nat
      BY <2>3
    <3>2. q \in [1..(count - 1) -> [n : Nat, type : {"read", "write"}]]
      BY <1>19, <2>1
    <3> QED
      BY <2>1, <3>1, <3>2, SeqDef DEF HubWaiters
  <2> QED
    BY <2>2, <2>3
<1>21. \A k \in DOMAIN q :
         \E op \in ops' : op.n = q[k].n /\ ~op.runs /\ (Hub!Reads(q[k]) <=> Hub!OnlyReads(op))
  <2> TAKE k \in DOMAIN q
  <2>1. k \in 1..(count - 1)
    BY <1>20
  <2>2. /\ k + 1 \in 1..count /\ q[k].n = crash[k + 1].n /\ ~Hub!Reads(q[k]) /\ ~crash[k + 1].runs
    BY <1>19, <2>1
  <2>3. crash[k + 1] \in ops' /\ ~Hub!OnlyReads(crash[k + 1])
    BY <1>8, <1>11, <2>2
  <2> QED
    BY <2>2, <2>3
<1>22. \A j, k \in DOMAIN q : q[j].n = q[k].n => j = k
  <2> TAKE j, k \in DOMAIN q
  <2> HAVE q[j].n = q[k].n
  <2>1. opsMade + (j + 1) = opsMade + (k + 1)
    BY <1>19, <1>20
  <2> QED
    BY <1>5, <1>20, <2>1
<1>23. HubHeld(readers', writer', waitQueue', ops')
  <2>1. Cardinality(ReadersOf(ops')) = 0
    BY <1>13, FS_EmptySet
  <2>2. HubHeld(0, w, q, ops')
    BY <1>12, <1>17, <1>20, <1>21, <1>22, <2>1 DEF HubHeld
  <2> QED
    BY <1>14, <1>16, <1>18, <2>2
<1>24. HubServed(readers', writer', waitQueue')
  <2>1. q # <<>> => w
    <3> HAVE q # <<>>
    <3>1. count # 0
      <4> SUFFICES ASSUME count = 0 PROVE FALSE
        OBVIOUS
      <4>1. DOMAIN q = {}
        BY <1>20
      <4>2. Len(q) = 0
        BY <1>20, <4>1, LenProperties DEF HubWaiters
      <4> QED
        BY <1>20, <4>2, EmptySeq DEF HubWaiters
    <3> QED
      BY <1>16, <3>1
  <2>2. HubServed(0, w, q)
    BY <2>1 DEF HubServed
  <2> QED
    BY <1>14, <1>16, <1>18, <2>2
<1>25. HubInOrder(waitQueue', ops', applied')
  <2>1. \A op \in ops' : op.do \notin Hub!Events
    BY <1>8, <1>10
  <2> QED
    BY <2>1 DEF HubInOrder
<1>26. ASSUME NEW a \in Agents
       PROVE  /\ agents'[a] # NoOne => agents'[a] \in HubEntries
              /\ a \in dead /\ agents'[a] # NoOne => agents'[a].health = "TERMINATED"
  <2>1. agents'[a] = Hub!Missed(agents[a])
    BY <1>3
  <2>2. CASE agents[a] = NoOne
    BY <2>1, <2>2 DEF Hub!Missed, dead, Hub!Has
  <2>3. CASE agents[a] # NoOne
    <3>1. PICK e \in HubEntries : e = agents[a]
      BY <2>3 DEF HubInv, HubKnown, Hub!Has
    <3>2. Hub!Missed(e) \in HubEntries
      <4>1. CASE e.health = "TERMINATED"
        BY <2>3, <3>1, <4>1 DEF Hub!Missed
      <4>2. CASE e.health # "TERMINATED" /\ e.ticks = 0
        BY <2>3, <3>1, <4>2 DEF Hub!Missed, HubEntries
      <4>3. CASE e.health # "TERMINATED" /\ e.ticks # 0
        <5>1. PICK h : h = CASE e.misses + 1 >= MissThreshold -> "TERMINATED"
                              [] e.misses + 1 = 1 -> "DEGRADED"
                              [] OTHER -> "UNREACHABLE"
          OBVIOUS
        <5>2. h \in {"HEALTHY", "DEGRADED", "UNREACHABLE", "TERMINATED"}
          BY <5>1
        <5>3. PICK m \in Nat : m = e.misses + 1
          BY DEF HubEntries
        <5>4. Hub!Missed(e) = [e EXCEPT !.misses = m, !.health = h]
          BY <2>3, <3>1, <4>3, <5>1, <5>3 DEF Hub!Missed
        <5>5. PICK f \in HubEntries : f = [e EXCEPT !.misses = m]
          BY DEF HubEntries
        <5>6. Hub!Missed(e) = [f EXCEPT !.health = h]
          BY <5>4, <5>5
        <5> QED
          BY <5>2, <5>6 DEF HubEntries
      <4> QED
        BY <4>1, <4>2, <4>3
    <3> QED
      BY <2>1, <3>1, <3>2 DEF dead
  <2> QED
    BY <2>2, <2>3
<1>27. HubKnown'
  <2>1. opsMade' \in Nat /\ sections' \in Nat
    BY <1>3, <1>5
  <2>2. \A a \in Agents : applied'[a] <= opsMade'
    <3> TAKE a \in Agents
    <3>1. applied[a] <= opsMade /\ applied[a] \in Nat
      BY <1>5 DEF HubInv, HubKnown
    <3> QED
      BY <1>3, <1>5, <3>1
  <2>3. ASSUME NEW op \in ops'
        PROVE  /\ op.n <= opsMade' /\ op.seen <= sections' /\ op.do = "crash" /\ op.a \in dead
               /\ op.a \in Agents
    <3>1. PICK k \in 1..count : op = crash[k]
      BY <1>10
    <3>2. op.n = opsMade + k /\ op.seen = -1 /\ op.do = "crash" /\ op.a \in dead
      BY <1>8, <3>1
    <3> QED
      BY <1>3, <1>5, <1>6, <3>2
  <2>4. DOMAIN agents' = Agents /\ applied' \in [Agents -> Nat]
    BY <1>3, <1>5
  <2> QED
    BY <1>26, <2>1, <2>2, <2>3, <2>4 DEF HubKnown, Hub!Has
<1> QED
  BY <1>23, <1>24, <1>25, <1>27 DEF HubInv

LEMMA HubNext == ASSUME HubBounds PROVE HubInv /\ [Hub!Next]_Hub!vars => HubInv'
<1> SUFFICES ASSUME HubInv, [Hub!Next]_Hub!vars PROVE HubInv'
  OBVIOUS
<1>1. ASSUME NEW do \in Hub!Tools \cup Hub!Events, NEW a \in Agents, Hub!Begin(do, a) PROVE HubInv'
  BY <1>1, HubBegunNext
<1>2. ASSUME NEW op \in ops, Hub!Reading(op) PROVE HubInv'
  BY <1>2, HubLookNext, HubCheckNext, HubValidateNext DEF Hub!Reading
<1>3. ASSUME NEW op \in ops, Hub!Write(op) PROVE HubInv'
  BY <1>3, HubWriteNext
<1>4. CASE Hub!Tick
  BY <1>4, HubTickNext
<1>5. CASE UNCHANGED <<agents, Hub!lockVars, ops, opsMade, sections, applied>>
  BY <1>5 DEF HubInv, HubKnown, Hub!Has, Hub!lockVars
<1> QED
  BY <1>1, <1>2, <1>3, <1>4, <1>5 DEF Hub!Next, Hub!ChangeState, Hub!vars

\* Only the write section of an operation ends it with a change of the registry.
LEMMA HubEntriesStep ==
  ASSUME HubBounds, HubInv, [Hub!Next]_Hub!vars, NEW op \in ops, Hub!Has(op.a), agents'[op.a] # agents[op.a], Hub!Ended(op)
  PROVE  /\ op.do # "spawned"
         /\ op.do = "register" => op.seen < agents[op.a].made
         /\ op.do = "crash" => agents[op.a].health = "TERMINATED"
<1>1. op \in HubRecords /\ op.a \in Agents
  BY DEF HubInv, HubHeld, HubNumbered, HubRecords
<1>2. \/ \E o \in ops : Hub!Write(o)
      \/ Hub!Tick
  BY DEF Hub!Next, Hub!Begin, Hub!Reading, Hub!Look, Hub!CheckUnique, Hub!Validate, Hub!ChangeState, Hub!vars
<1>3. ~Hub!Tick
  BY DEF Hub!Tick
<1>4. PICK o \in ops : Hub!Write(o)
  BY <1>2, <1>3
<1>5. o = op
  <2>1. o.a = op.a
    BY <1>1, <1>4, HubWrites
  <2>2. SUFFICES ASSUME o # op PROVE FALSE
    OBVIOUS
  <2>3. HubNumbered(ops \ {o})
    BY HubFewer DEF HubInv, HubHeld
  <2>4. op \in ops \ {o}
    BY <2>2
  <2>5. ops' = Hub!Resumed(ops \ {o}, Hub!ReleaseWrite.granted)
    BY <1>4 DEF Hub!Write, Hub!Locked
  <2>6. \E p \in ops' : p.n = op.n
    BY <2>3, <2>4, <2>5, HubResumedTo
  <2> QED
    BY <2>6 DEF Hub!Ended
<1>6. op.do # "spawned"
  BY <1>4, <1>5, HubWrites
<1>7. op.do = "register" => op.seen >= 0
  BY <1>1, <1>4, <1>5 DEF Hub!Write, Hub!OnlyReads, HubRecords
<1> QED
  BY <1>6, <1>7 DEF HubInv, HubKnown

\* The daemon's events come to each agent in their order.
LEMMA HubEventsStep ==
  ASSUME HubBounds, HubInv, [Hub!Next]_Hub!vars, NEW a \in Agents
  PROVE  applied'[a] >= applied[a]
<1>1. applied[a] \in Nat
  BY DEF HubInv, HubKnown
<1>2. CASE \E op \in ops : Hub!Write(op)
  <2>1. PICK op \in ops : Hub!Write(op)
    BY <1>2
  <2>2. applied' = IF op.do \in Hub!Events THEN [applied EXCEPT ![op.a] = op.n] ELSE applied
    BY <2>1 DEF Hub!Write
  <2>3. CASE op.do \in Hub!Events
    <3>1. applied[a] < op.n /\ op.n \in Nat
      BY <2>3 DEF HubInv, HubInOrder, HubHeld, HubNumbered, HubRecords
    <3>2. applied'[a] \in {applied[a], op.n}
      BY <2>2, <2>3 DEF HubInv, HubKnown
    <3> QED
      BY <1>1, <3>1, <3>2
  <2>4. CASE op.do \notin Hub!Events
    BY <1>1, <2>2, <2>4
  <2> QED
    BY <2>3, <2>4
<1>3. CASE ~\E op \in ops : Hub!Write(op)
  <2>1. applied' = applied
    BY <1>3 DEF Hub!Next, Hub!Begin, Hub!Reading, Hub!Look, Hub!CheckUnique, Hub!Validate, Hub!Tick, Hub!ChangeState, Hub!vars
  <2> QED
    BY <1>1, <2>1
<1> QED
  BY <1>2, <1>3

\* The lock serves whoever waits, an agent's entry is replaced by its own operations alone,
\* and the daemon's events are applied in their order (RWLock, registerAgent, the handlers
\* of the bridge and of the heartbeat).
THEOREM HubIsOrderly ==
  ASSUME HubBounds PROVE Hub!Spec => []Hub!LockServesAll /\ Hub!EntriesStayOwn /\ Hub!EventsApplyInOrder
<1>1. Hub!Init => HubInv
  BY HubBegins
<1>2. HubInv /\ [Hub!Next]_Hub!vars => HubInv'
  BY HubNext
<1>3. HubInv => Hub!LockServesAll
  <2> SUFFICES ASSUME HubInv PROVE Hub!LockServesAll
    OBVIOUS
  <2>1. HubHeld(readers, writer, waitQueue, ops) /\ HubServed(readers, writer, waitQueue)
    BY DEF HubInv
  <2>2. /\ readers = Cardinality({op \in ops : op.runs /\ Hub!OnlyReads(op)})
        /\ Cardinality({op \in ops : op.runs /\ ~Hub!OnlyReads(op)}) = IF writer THEN 1 ELSE 0
    BY <2>1 DEF HubHeld, ReadersOf, WritersOf
  <2>3. /\ writer => readers = 0
        /\ \A k \in DOMAIN waitQueue : \E op \in ops : op.n = waitQueue[k].n /\ ~op.runs
    BY <2>1 DEF HubHeld
  <2> QED
    BY <2>1, <2>2, <2>3, SameCounts DEF Hub!LockServesAll, HubServed
<1>4. HubInv /\ [Hub!Next]_Hub!vars =>
        [\A op \in ops :
           Hub!Has(op.a) /\ agents'[op.a] # agents[op.a] /\ Hub!Ended(op) =>
             /\ op.do # "spawned"
             /\ op.do = "register" => op.seen < agents[op.a].made
             /\ op.do = "crash" => agents[op.a].health = "TERMINATED"]_Hub!vars
  BY HubEntriesStep
<1>5. HubInv /\ [Hub!Next]_Hub!vars => [\A a \in Agents : applied'[a] >= applied[a]]_Hub!vars
  BY HubEventsStep
<1> QED
  BY <1>1, <1>2, <1>3, <1>4, <1>5, PTL DEF Hub!Spec, Hub!EntriesStayOwn, Hub!EventsApplyInOrder

-----------------------------------------------------------------------------
(* The components in one specification (ChannelParts): each moves as it     *)
(* does by itself, or not at all.                                          *)

LEMMA ChannelBounds ==
    /\ AttachedBounds /\ ClusterBounds /\ HubBounds
    /\ CompositeBounds /\ ForkedBounds /\ LimitBounds
BY ChannelAssumption
   DEF AttachedBounds, ClusterBounds, HubBounds, CompositeBounds, ForkedBounds, LimitBounds,
       Limiters!Whole

LEMMA LinksBegin ==
    LinksInit => /\ Attachment!Init /\ Cluster!Init /\ Hub!Init
                 /\ Composite!Init /\ Forked!Init /\ Limiters!Init
BY DEF LinksInit

LEMMA LinksStep ==
    [LinksNext]_linkVars => /\ [Attachment!Next]_Attachment!vars /\ [Cluster!Next]_Cluster!vars
                           /\ [Hub!Next]_Hub!vars /\ [Composite!Next]_Composite!vars
                           /\ [Forked!Next]_Forked!vars /\ [Limiters!Next]_Limiters!vars
<1> SUFFICES ASSUME [LinksNext]_linkVars
             PROVE  /\ [Attachment!Next]_Attachment!vars /\ [Cluster!Next]_Cluster!vars
                    /\ [Hub!Next]_Hub!vars /\ [Composite!Next]_Composite!vars
                    /\ [Forked!Next]_Forked!vars /\ [Limiters!Next]_Limiters!vars
  OBVIOUS
<1>1. /\ Attachment!Next \/ UNCHANGED clientsVars
      /\ Cluster!Next \/ UNCHANGED clusterVars
      /\ Hub!Next \/ UNCHANGED hubVars
      /\ Composite!Next \/ UNCHANGED compositeVars
      /\ Forked!Next \/ UNCHANGED forkedVars
      /\ Limiters!Next \/ UNCHANGED limitsVars
  BY DEF LinksNext, linkVars
<1>2. UNCHANGED clientsVars => UNCHANGED Attachment!vars
  BY DEF clientsVars, Attachment!vars, Attachment!sessionVars, Attachment!serverVars,
         Attachment!clientVars
<1>3. UNCHANGED clusterVars => UNCHANGED Cluster!vars
  BY DEF clusterVars, Cluster!vars, Cluster!bridgeVars
<1>4. UNCHANGED hubVars => UNCHANGED Hub!vars
  BY DEF hubVars, Hub!vars, Hub!lockVars
<1>5. UNCHANGED compositeVars => UNCHANGED Composite!vars
  BY DEF compositeVars, Composite!vars
<1>6. UNCHANGED forkedVars => UNCHANGED Forked!vars
  BY DEF forkedVars, Forked!vars
<1>7. UNCHANGED limitsVars => UNCHANGED Limiters!vars
  BY DEF limitsVars, Limiters!vars, Limiters!slidingVars, Limiters!bucketVars
<1> QED
  BY <1>1, <1>2, <1>3, <1>4, <1>5, <1>6, <1>7

LEMMA LinksAreTheirs ==
    LinksSpec => /\ Attachment!Spec /\ Cluster!Spec /\ Hub!Spec
                 /\ Composite!Spec /\ Forked!Spec /\ Limiters!Spec
BY LinksBegin, LinksStep, PTL
   DEF LinksSpec, Attachment!Spec, Cluster!Spec, Hub!Spec, Composite!Spec, Forked!Spec,
       Limiters!Spec

\* An attached client is told every message of its session in order, an event comes once
\* to whoever asked for it, and whoever left is forgotten (daemon-entry.ts, attach.ts,
\* coordination-event-bridge.ts, global-service-registry.ts).
THEOREM ChannelSubscribersGetTheirs == LinksSpec => []SubscribersGetTheirs
<1>1. /\ Attachment!Gapless /\ Attachment!GoneAreForgotten
      /\ Cluster!EventsArriveOnce /\ Cluster!DeregisteredAreForgotten
      /\ Cluster!ProvidersAreDistinct
      => SubscribersGetTheirs
  BY DEF SubscribersGetTheirs
<1> QED
  BY <1>1, ChannelBounds, LinksAreTheirs, AttachedMissNothing, ClusterKeepsApart, PTL

\* The registry's lock serves all and its entries keep to themselves, a composite tells
\* the truth of its children, and a forked channel hears nothing before READY (RWLock and
\* the agent registry of apps/channel, composite-channel.ts, channel-ipc.ts).
THEOREM ChannelsStayOrderly == LinksSpec => ChannelsAreOrderly
<1>1. Hub!LockServesAll => (link = "hub" => Hub!LockServesAll)
  OBVIOUS
<1>2. Composite!TypeOK /\ Composite!CompositeIsTrue
      => (link = "composite" => Composite!TypeOK /\ Composite!CompositeIsTrue)
  OBVIOUS
<1>3. Forked!TypeOK /\ Forked!ReadyComesFirst
      => (link = "forked" => Forked!TypeOK /\ Forked!ReadyComesFirst)
  OBVIOUS
<1> QED
  BY <1>1, <1>2, <1>3, ChannelBounds, LinksAreTheirs, HubIsOrderly, CompositeTellsTruth,
     ForkedReadyComesFirst, PTL DEF ChannelsAreOrderly

\* The limiters let through what their limits allow (rate-limiter.ts and the channel's
\* rate limits), whatever the limits, the window and the targets.
THEOREM ChannelLimitsHold == LinksSpec => []LimitsHold
<1>1. Limiters!SlidingIsExact /\ Limiters!BucketsAreBounded => LimitsHold
  BY DEF LimitsHold
<1> QED
  BY <1>1, ChannelBounds, LinksAreTheirs, LimitersHold, PTL
=============================================================================
